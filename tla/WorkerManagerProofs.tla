------------------------- MODULE WorkerManagerProofs -------------------------
(***************************************************************************)
(* Safety of the worker manager for every set of apps, workers and         *)
(* processes, whatever the processes do and whenever timeouts fall.        *)
(***************************************************************************)
EXTENDS WorkerManager, TLAPS

-----------------------------------------------------------------------------
(* The registry alone. *)

\* register keeps the two indexes each other's inverse.
LEMMA RegisterKeeps ==
    ASSUME RegistryTypeOK, RegistryConsistent, NEW worker \in WorkerIds, NEW app \in Apps,
           Register(worker, app)
    PROVE  RegistryTypeOK' /\ RegistryConsistent'
<1>1. RegistryTypeOK'
  BY RegistryAssumption DEF RegistryAssumption, RegistryTypeOK, Register
<1>2. ASSUME NEW a \in Apps, NEW w \in WorkerIds
      PROVE  app_workers'[a] = w <=> workers'[w] = a
  BY RegistryAssumption DEF RegistryAssumption, RegistryTypeOK, RegistryConsistent, Register
<1>3. QED
  BY <1>1, <1>2 DEF RegistryConsistent

\* So does remove_by_app_id.
LEMMA RemoveKeeps ==
    ASSUME RegistryTypeOK, RegistryConsistent, NEW S \in SUBSET Apps, RemoveByAppId(S)
    PROVE  RegistryTypeOK' /\ RegistryConsistent'
<1>1. RegistryTypeOK'
  BY RegistryAssumption DEF RegistryAssumption, RegistryTypeOK, RemoveByAppId
<1>2. ASSUME NEW a \in Apps, NEW w \in WorkerIds
      PROVE  app_workers'[a] = w <=> workers'[w] = a
  BY RegistryAssumption DEF RegistryAssumption, RegistryTypeOK, RegistryConsistent, RemoveByAppId
<1>3. QED
  BY <1>1, <1>2 DEF RegistryConsistent

-----------------------------------------------------------------------------
(* Entries of the map of active workers. *)

Entries == ActiveWorker \cup {NoActive}

LEMMA EntryFacts ==
    ASSUME NEW e \in Entries
    PROVE  /\ e.worker_id \in WorkerIds \cup {None}
           /\ e.connection \in Procs \cup {None}
           /\ e.child \in Procs \cup {None}
           /\ e.idle \in BOOLEAN
           /\ e # NoActive <=> e \in ActiveWorker
           /\ e # NoActive <=> e.worker_id # None
           /\ e # NoActive <=> e.connection # None
           /\ e = NoActive => e.child = None /\ e.idle = FALSE
<1>1. CASE e \in ActiveWorker
  <2>1. /\ e.worker_id \in WorkerIds /\ e.connection \in Procs
        /\ e.child \in Procs \cup {None} /\ e.idle \in BOOLEAN
    BY <1>1 DEF ActiveWorker
  <2>2. e.worker_id # None /\ e.connection # None
    BY <2>1, RegistryAssumption, ManagerAssumption
    DEF RegistryAssumption, ManagerAssumption
  <2>3. e # NoActive
    BY <2>2 DEF NoActive
  <2>4. QED
    BY <1>1, <2>1, <2>2, <2>3
<1>2. CASE e = NoActive
  <2>1. NoActive \notin ActiveWorker
    BY RegistryAssumption DEF RegistryAssumption, NoActive, ActiveWorker
  <2>2. QED
    BY <1>2, <2>1 DEF NoActive
<1>3. QED
  BY <1>1, <1>2 DEF Entries

LEMMA ActiveType == TypeOK => active \in [Apps -> Entries]
BY DEF TypeOK, Entries

-----------------------------------------------------------------------------
(* The two changes of the map that touch everything else. *)

\* What insert_active_worker establishes, for a connection nobody holds and a
\* child, if any, that was started for the app.
LEMMA InsertKeeps ==
    ASSUME IInv, NEW worker \in WorkerIds, NEW app \in Apps, NEW p \in Procs,
           conn[p] = "candidate", NEW child \in Procs \cup {None},
           child # None => spawned[child] = app,
           InsertActiveWorker(worker, app, p, child), UNCHANGED backlog
    PROVE  /\ RegistryTypeOK' /\ ActiveMatchesRegistry'
           /\ active' \in [Apps -> Entries]
           /\ proc' \in [Procs -> {"unused", "running", "ended"}]
           /\ spawned' \in [Procs -> Apps \cup {None}]
           /\ conn' \in [Procs -> {"none", "queued", "candidate", "held", "closed"}]
           /\ hello' \in [Procs -> Registration \cup {None}]
           /\ inbox' \in [Procs -> Seq(Frames)]
           /\ due' \in [Procs -> SUBSET RequestId]
           /\ ConnectionsOwned'
           /\ ProcessesOK'
           /\ IsActive(app)'
           /\ active'[app].child = child
           /\ \A q \in Procs : spawned[q] # None /\ proc'[q] = "running" =>
                 \/ active'[spawned[q]].child = q
                 \/ spawned[q] = app
                 \/ active[spawned[q]].child # q
           /\ \A q \in Procs : proc'[q] = "running" => proc[q] = "running"
           /\ \A q \in Procs : active[app].child = q => proc'[q] = "ended"
<1> DEFINE out == Ousted(worker, app)
           new == [worker_id |-> worker, connection |-> p, child |-> child, idle |-> FALSE]
<1>1. /\ RegistryTypeOK /\ RegistryConsistent
      /\ \A a \in Apps : active[a].worker_id = app_workers[a]
      /\ active \in [Apps -> Entries]
  BY ActiveType DEF IInv, TypeOK, ActiveMatchesRegistry
<1>2. /\ Register(worker, app)
      /\ Kill(Children(out))
      /\ Settle({p}, Connections(out) \cup (Candidates \ {p}))
  BY DEF InsertActiveWorker
<1>3. new \in ActiveWorker /\ new # NoActive
  BY RegistryAssumption DEF RegistryAssumption, ActiveWorker, NoActive
<1>4. out \subseteq Apps /\ app \in out
  BY <1>1 DEF Ousted, RegistryTypeOK
<1>5. /\ active' = [a \in Apps |-> IF a = app THEN new
                                   ELSE IF a \in out THEN NoActive ELSE active[a]]
      /\ active' \in [Apps -> Entries]
  <2>1. ASSUME NEW a \in Apps
        PROVE  /\ active'[a] = IF a = app THEN new
                                   ELSE IF a \in out THEN NoActive ELSE active[a]
               /\ active'[a] \in Entries
    BY <1>1, <1>3 DEF InsertActiveWorker, Entries
  <2>2. active' = [a \in Apps |-> active'[a]]
    BY DEF InsertActiveWorker
  <2>3. QED
    BY <2>1, <2>2
<1>6. RegistryTypeOK' /\ RegistryConsistent'
  BY <1>1, <1>2, RegisterKeeps
<1>7. ASSUME NEW a \in Apps
      PROVE  active'[a].worker_id = app_workers'[a]
  <2>1. CASE a = app
    BY <1>2, <1>5, <2>1 DEF Register
  <2>2. CASE a # app /\ a = workers[worker]
    <3>1. a \in out /\ app_workers[a] = worker
      BY <1>1, <2>2, RegistryAssumption
      DEF Ousted, RegistryConsistent, RegistryAssumption
    <3>2. QED
      BY <1>2, <1>5, <2>2, <3>1 DEF Register, NoActive
  <2>3. CASE a # app /\ a # workers[worker]
    <3>1. a \notin out
      BY <2>3 DEF Ousted
    <3>2. QED
      BY <1>1, <1>2, <1>5, <2>3, <3>1 DEF Register
  <2>4. QED
    BY <2>1, <2>2, <2>3
<1>8. ActiveMatchesRegistry'
  BY <1>6, <1>7 DEF ActiveMatchesRegistry
<1>9. /\ proc' \in [Procs -> {"unused", "running", "ended"}]
      /\ spawned' \in [Procs -> Apps \cup {None}]
  BY <1>2 DEF Kill, IInv, TypeOK
<1>10. /\ conn' \in [Procs -> {"none", "queued", "candidate", "held", "closed"}]
       /\ hello' \in [Procs -> Registration \cup {None}]
       /\ inbox' \in [Procs -> Seq(Frames)]
       /\ due' \in [Procs -> SUBSET RequestId]
  BY <1>2 DEF Settle, IInv, TypeOK
<1>11. ConnectionsOwned'
  <2>1. ASSUME NEW a \in Apps
        PROVE  active[a].connection # p
    BY DEF IInv, ConnectionsOwned
  <2>2. ASSUME NEW q \in Procs
        PROVE  conn'[q] = "held" <=> \E a \in Apps : active'[a].connection = q
    <3>1. CASE q = p
      <4>1. p \notin Connections(out)
        BY <1>4, <2>1 DEF Connections
      <4>2. QED
        BY <1>2, <1>5, <3>1, <4>1 DEF Settle
    <3>2. CASE q # p /\ q \in Connections(out)
      <4>1. conn'[q] = "closed"
        BY <1>2, <3>2 DEF Settle
      <4>2. PICK b \in out : active[b].connection = q /\ q # None
        BY <3>2 DEF Connections
      <4>3. \A a \in Apps : active[a].connection = q => a = b
        BY <1>1, <1>4, <4>2, EntryFacts DEF IInv, ConnectionsOwned, IsActive
      <4>4. \A a \in Apps : active'[a].connection # q
        BY <1>5, <3>2, <4>2, <4>3 DEF NoActive
      <4>5. QED
        BY <4>1, <4>4
    <3>3. CASE q # p /\ q \notin Connections(out)
      <4>1. conn'[q] = "held" <=> conn[q] = "held"
        BY <1>2, <3>3 DEF Settle, Candidates
      <4>2. ASSUME NEW a \in Apps
            PROVE  active'[a].connection = q <=> active[a].connection = q
        <5>1. a \in out => active[a].connection # q
          BY <3>3, ManagerAssumption DEF Connections, ManagerAssumption
        <5>2. QED
          BY <1>4, <1>5, <3>3, <5>1, ManagerAssumption DEF NoActive, ManagerAssumption
      <4>3. QED
        BY <4>1, <4>2 DEF IInv, ConnectionsOwned
    <3>4. QED
      BY <3>1, <3>2, <3>3
  <2>3. ASSUME NEW a \in Apps, NEW b \in Apps,
               active'[a].connection = active'[b].connection, IsActive(a)'
        PROVE  a = b
    <3>1. active'[a].connection # None /\ active'[a] # NoActive
      BY <1>5, <2>3, EntryFacts DEF IsActive
    <3>2. active'[b] # NoActive
      BY <2>3, <3>1 DEF NoActive
    <3>3. CASE a = app \/ b = app
      BY <1>5, <2>1, <2>3, <3>1, <3>2, <3>3
    <3>4. CASE a # app /\ b # app
      BY <1>5, <2>3, <3>1, <3>2, <3>4 DEF IInv, ConnectionsOwned, IsActive
    <3>5. QED
      BY <3>3, <3>4
  <2>4. QED
    BY <2>2, <2>3 DEF ConnectionsOwned
<1>12. ProcessesOK'
  <2>1. \A a \in Apps : active'[a].child # None => spawned'[active'[a].child] = a
    BY <1>2, <1>5 DEF Kill, IInv, ProcessesOK, NoActive
  <2>2. ASSUME NEW q \in Procs, proc'[q] = "unused"
        PROVE  spawned'[q] = None /\ conn'[q] = "none"
    <3>1. proc[q] = "unused" /\ spawned[q] = None /\ conn[q] = "none"
      BY <1>2, <2>2 DEF Kill, IInv, ProcessesOK
    <3>2. q # p /\ q \notin Candidates
      BY <3>1 DEF Candidates
    <3>3. q \notin Connections(out)
      BY <1>4, <3>1 DEF Connections, IInv, ConnectionsOwned
    <3>4. QED
      BY <1>2, <3>1, <3>2, <3>3 DEF Kill, Settle
  <2>3. ASSUME NEW i \in DOMAIN backlog'
        PROVE  conn'[backlog'[i]] = "queued"
    <3>1. backlog[i] \in Procs /\ conn[backlog[i]] = "queued"
      BY <2>3 DEF IInv, TypeOK, ProcessesOK
    <3>2. backlog[i] \notin Connections(out)
      BY <1>4, <3>1 DEF Connections, IInv, ConnectionsOwned
    <3>3. QED
      BY <1>2, <3>1, <3>2 DEF Settle, Candidates
  <2>4. \A i, j \in DOMAIN backlog' : backlog'[i] = backlog'[j] => i = j
    BY DEF IInv, ProcessesOK
  <2>5. QED
    BY <2>1, <2>2, <2>3, <2>4 DEF ProcessesOK
<1>13. IsActive(app)' /\ active'[app].child = child
  BY <1>3, <1>5 DEF IsActive
<1>14. ASSUME NEW q \in Procs, spawned[q] # None, proc'[q] = "running",
              active[spawned[q]].child = q, spawned[q] # app
       PROVE  active'[spawned[q]].child = q
  <2>1. spawned[q] \in Apps
    BY <1>14 DEF IInv, TypeOK
  <2>2. spawned[q] \notin out
    BY <1>2, <1>14, ManagerAssumption DEF Kill, Children, ManagerAssumption
  <2>3. QED
    BY <1>5, <1>14, <2>1, <2>2
<1>15. \A q \in Procs : proc'[q] = "running" => proc[q] = "running"
  BY <1>2 DEF Kill
<1>16. \A q \in Procs : active[app].child = q => proc'[q] = "ended"
  BY <1>2, <1>4, ManagerAssumption DEF Kill, Children, ManagerAssumption
<1>17. QED
  BY <1>5, <1>6, <1>8, <1>9, <1>10, <1>11, <1>12, <1>13, <1>14, <1>15, <1>16

\* What removing the entries of a set of apps establishes.
LEMMA RemoveActiveKeeps ==
    ASSUME IInv, NEW S \in SUBSET Apps, RemoveActive(S), UNCHANGED backlog
    PROVE  /\ RegistryTypeOK' /\ ActiveMatchesRegistry'
           /\ active' \in [Apps -> Entries]
           /\ proc' \in [Procs -> {"unused", "running", "ended"}]
           /\ spawned' \in [Procs -> Apps \cup {None}]
           /\ conn' \in [Procs -> {"none", "queued", "candidate", "held", "closed"}]
           /\ hello' \in [Procs -> Registration \cup {None}]
           /\ inbox' \in [Procs -> Seq(Frames)]
           /\ due' \in [Procs -> SUBSET RequestId]
           /\ ConnectionsOwned'
           /\ ProcessesOK'
           /\ \A a \in Apps \ S : active'[a] = active[a]
           /\ \A q \in Procs :
                 /\ spawned[q] # None /\ proc'[q] = "running" =>
                       \/ active'[spawned[q]].child = q
                       \/ active[spawned[q]].child # q
                 /\ spawned'[q] = spawned[q]
                 /\ proc'[q] = "running" => proc[q] = "running"
                 /\ conn[q] = "candidate" => conn'[q] = "candidate"
<1>1. /\ RegistryTypeOK /\ RegistryConsistent
      /\ \A a \in Apps : active[a].worker_id = app_workers[a]
      /\ active \in [Apps -> Entries]
  BY ActiveType DEF IInv, TypeOK, ActiveMatchesRegistry
<1>2. /\ RemoveByAppId(S)
      /\ Kill(Children(S))
      /\ Close(Connections(S))
      /\ active' = [a \in Apps |-> IF a \in S THEN NoActive ELSE active[a]]
  BY DEF RemoveActive
<1>3. active' \in [Apps -> Entries] /\ \A a \in Apps \ S : active'[a] = active[a]
  BY <1>1, <1>2 DEF Entries
<1>4. RegistryTypeOK' /\ ActiveMatchesRegistry'
  <2>1. RegistryTypeOK' /\ RegistryConsistent'
    BY <1>1, <1>2, RemoveKeeps
  <2>2. \A a \in Apps : active'[a].worker_id = app_workers'[a]
    BY <1>1, <1>2 DEF RemoveByAppId, NoActive
  <2>3. QED
    BY <2>1, <2>2 DEF ActiveMatchesRegistry
<1>5. /\ proc' \in [Procs -> {"unused", "running", "ended"}]
      /\ spawned' \in [Procs -> Apps \cup {None}]
      /\ conn' \in [Procs -> {"none", "queued", "candidate", "held", "closed"}]
      /\ hello' \in [Procs -> Registration \cup {None}]
      /\ inbox' \in [Procs -> Seq(Frames)]
      /\ due' \in [Procs -> SUBSET RequestId]
  BY <1>2 DEF Kill, Close, Settle, IInv, TypeOK
<1>6. ASSUME NEW q \in Procs
      PROVE  q \in Connections(S) => conn[q] = "held"
  BY DEF Connections, IInv, ConnectionsOwned
<1>7. ConnectionsOwned'
  <2>1. ASSUME NEW q \in Procs
        PROVE  conn'[q] = "held" <=> \E a \in Apps : active'[a].connection = q
    <3>1. CASE q \in Connections(S)
      <4>1. conn'[q] = "closed"
        BY <1>2, <3>1 DEF Close, Settle
      <4>2. PICK b \in S : active[b].connection = q /\ q # None
        BY <3>1 DEF Connections
      <4>3. \A a \in Apps : active[a].connection = q => a = b
        BY <1>1, <4>2, EntryFacts DEF IInv, ConnectionsOwned, IsActive
      <4>4. \A a \in Apps : active'[a].connection # q
        BY <1>2, <4>2, <4>3 DEF NoActive
      <4>5. QED
        BY <4>1, <4>4
    <3>2. CASE q \notin Connections(S)
      <4>1. conn'[q] = conn[q]
        BY <1>2, <3>2 DEF Close, Settle
      <4>2. ASSUME NEW a \in Apps
            PROVE  active'[a].connection = q <=> active[a].connection = q
        BY <1>2, <3>2, ManagerAssumption DEF Connections, ManagerAssumption, NoActive
      <4>3. QED
        BY <4>1, <4>2 DEF IInv, ConnectionsOwned
    <3>3. QED
      BY <3>1, <3>2
  <2>2. ASSUME NEW a \in Apps, NEW b \in Apps,
               active'[a].connection = active'[b].connection, IsActive(a)'
        PROVE  a = b
    <3>1. a \notin S /\ active[a] # NoActive
      BY <1>2, <2>2 DEF IsActive
    <3>2. b \notin S
      BY <1>1, <1>2, <2>2, <3>1, EntryFacts DEF NoActive
    <3>3. QED
      BY <1>2, <2>2, <3>1, <3>2 DEF IInv, ConnectionsOwned, IsActive
  <2>3. QED
    BY <2>1, <2>2 DEF ConnectionsOwned
<1>8. ProcessesOK'
  <2>1. \A a \in Apps : active'[a].child # None => spawned'[active'[a].child] = a
    BY <1>2 DEF Kill, IInv, ProcessesOK, NoActive
  <2>2. ASSUME NEW q \in Procs, proc'[q] = "unused"
        PROVE  spawned'[q] = None /\ conn'[q] = "none"
    BY <1>2, <1>6, <2>2 DEF Kill, Close, Settle, IInv, ProcessesOK
  <2>3. ASSUME NEW i \in DOMAIN backlog'
        PROVE  conn'[backlog'[i]] = "queued"
    <3>1. backlog[i] \in Procs /\ conn[backlog[i]] = "queued"
      BY <2>3 DEF IInv, TypeOK, ProcessesOK
    <3>2. QED
      BY <1>2, <1>6, <3>1 DEF Close, Settle
  <2>4. \A i, j \in DOMAIN backlog' : backlog'[i] = backlog'[j] => i = j
    BY DEF IInv, ProcessesOK
  <2>5. QED
    BY <2>1, <2>2, <2>3, <2>4 DEF ProcessesOK
<1>9. ASSUME NEW q \in Procs
      PROVE  /\ spawned[q] # None /\ proc'[q] = "running" =>
                   \/ active'[spawned[q]].child = q
                   \/ active[spawned[q]].child # q
             /\ spawned'[q] = spawned[q]
             /\ proc'[q] = "running" => proc[q] = "running"
             /\ conn[q] = "candidate" => conn'[q] = "candidate"
  <2>1. spawned'[q] = spawned[q] /\ (proc'[q] = "running" => proc[q] = "running")
    BY <1>2 DEF Kill
  <2>2. conn[q] = "candidate" => conn'[q] = "candidate"
    BY <1>2, <1>6 DEF Close, Settle
  <2>3. ASSUME spawned[q] # None, proc'[q] = "running", active[spawned[q]].child = q
        PROVE  active'[spawned[q]].child = q
    <3>1. spawned[q] \in Apps
      BY <2>3 DEF IInv, TypeOK
    <3>2. spawned[q] \notin S
      BY <1>2, <2>3, ManagerAssumption DEF Kill, Children, ManagerAssumption
    <3>3. QED
      BY <1>2, <2>3, <3>1, <3>2
  <2>4. QED
    BY <2>1, <2>2, <2>3
<1>10. QED
  BY <1>3, <1>4, <1>5, <1>7, <1>8, <1>9

-----------------------------------------------------------------------------
(* One lemma per action, or per kind of action. *)

LEMMA InitIInv == Init => IInv
<1> SUFFICES ASSUME Init PROVE IInv
  OBVIOUS
<1> USE RegistryAssumption, ManagerAssumption
    DEF RegistryAssumption, ManagerAssumption, Init, RegistryInit
<1>1. TypeOK
  BY DEF TypeOK, RegistryTypeOK, Phases
<1>2. ActiveMatchesRegistry
  BY DEF ActiveMatchesRegistry, RegistryConsistent, NoActive
<1>3. NoOrphanChild /\ AnswersTheRequest /\ PhaseOK /\ ProcessesOK
  BY DEF NoOrphanChild, AnswersTheRequest, PhaseOK, ProcessesOK, NoActive
<1>4. ConnectionsOwned
  BY DEF ConnectionsOwned, NoActive, IsActive
<1>5. QED
  BY <1>1, <1>2, <1>3, <1>4 DEF IInv

\* Frames on their way disturb nothing.
LEMMA FramesStep ==
    ASSUME IInv,
           \/ \E p \in Procs, worker \in WorkerIds, app \in Apps :
                 SendRegistration(p, worker, app)
           \/ \E p \in Procs, i \in RequestId : Answer(p, i)
           \/ \E p \in Procs, f \in Frames : SendStray(p, f)
    PROVE  IInv'
<1>1. UNCHANGED <<conn, backlog, registryVars, managerVars, procVars>>
  BY DEF SendRegistration, Answer, SendStray
<1>2. /\ hello' \in [Procs -> Registration \cup {None}]
      /\ inbox' \in [Procs -> Seq(Frames)]
      /\ due' \in [Procs -> SUBSET RequestId]
  <2>1. CASE \E p \in Procs, worker \in WorkerIds, app \in Apps :
                 SendRegistration(p, worker, app)
    BY <2>1 DEF SendRegistration, IInv, TypeOK, Registration
  <2>2. CASE \E p \in Procs, i \in RequestId : Answer(p, i)
    <3>1. PICK p \in Procs, i \in RequestId : Answer(p, i)
      BY <2>2
    <3>2. Append(inbox[p], i) \in Seq(Frames) /\ due[p] \ {i} \in SUBSET RequestId
      BY DEF IInv, TypeOK, Frames
    <3>3. QED
      BY <3>1, <3>2 DEF Answer, IInv, TypeOK
  <2>3. CASE \E p \in Procs, f \in Frames : SendStray(p, f)
    <3>1. PICK p \in Procs, f \in Frames : SendStray(p, f)
      BY <2>3
    <3>2. Append(inbox[p], f) \in Seq(Frames)
      BY DEF IInv, TypeOK
    <3>3. QED
      BY <3>1, <3>2 DEF SendStray, IInv, TypeOK
  <2>4. QED
    BY <2>1, <2>2, <2>3
<1> USE <1>1 DEF IInv, registryVars, managerVars, procVars
<1>3. TypeOK'
  BY <1>2 DEF TypeOK, RegistryTypeOK
<1>4. ActiveMatchesRegistry' /\ NoOrphanChild' /\ AnswersTheRequest'
  BY DEF ActiveMatchesRegistry, RegistryConsistent, NoOrphanChild, AnswersTheRequest
<1>5. ConnectionsOwned' /\ PhaseOK' /\ ProcessesOK'
  BY DEF ConnectionsOwned, PhaseOK, ProcessesOK, IsActive
<1>6. QED
  BY <1>3, <1>4, <1>5

LEMMA AppearStep ==
    ASSUME IInv, NEW p \in Procs, Appear(p)
    PROVE  IInv'
<1> USE DEF IInv, Appear, registryVars, managerVars, ipcVars
<1>1. TypeOK' /\ ActiveMatchesRegistry' /\ AnswersTheRequest'
  BY DEF TypeOK, RegistryTypeOK, ActiveMatchesRegistry, RegistryConsistent, AnswersTheRequest
<1>2. spawned[p] = None /\ \A q \in Procs \ {p} : proc'[q] = proc[q]
  BY DEF ProcessesOK, TypeOK
<1>3. NoOrphanChild'
  BY <1>2 DEF NoOrphanChild
<1>4. proc'[p] = "running"
  BY DEF TypeOK
<1>5. ProcessesOK'
  BY <1>2, <1>4 DEF ProcessesOK
<1>6. ConnectionsOwned' /\ PhaseOK'
  BY DEF ConnectionsOwned, PhaseOK, IsActive
<1>7. QED
  BY <1>1, <1>3, <1>5, <1>6

LEMMA ConnectStep ==
    ASSUME IInv, NEW p \in Procs, Connect(p)
    PROVE  IInv'
<1> USE DEF IInv, Connect, registryVars, managerVars, procVars
<1>1. TypeOK' /\ ActiveMatchesRegistry' /\ AnswersTheRequest' /\ NoOrphanChild'
  BY DEF TypeOK, RegistryTypeOK, ActiveMatchesRegistry, RegistryConsistent,
         AnswersTheRequest, NoOrphanChild
<1>2. conn'[p] = "queued" /\ \A q \in Procs \ {p} : conn'[q] = conn[q]
  BY DEF TypeOK
<1>3. ConnectionsOwned'
  BY <1>2 DEF ConnectionsOwned, IsActive
<1>4. PhaseOK'
  BY <1>2 DEF PhaseOK, IsActive
<1>5. ProcessesOK'
  <2>1. /\ DOMAIN backlog' = 1..(Len(backlog) + 1)
        /\ DOMAIN backlog = 1..Len(backlog)
        /\ Len(backlog) \in Nat
        /\ backlog'[Len(backlog) + 1] = p
        /\ \A i \in DOMAIN backlog : backlog'[i] = backlog[i] /\ backlog[i] \in Procs
    BY DEF TypeOK
  <2>2. \A i \in DOMAIN backlog : backlog[i] # p /\ conn[backlog[i]] = "queued"
    BY DEF ProcessesOK
  <2>3. \A i \in DOMAIN backlog' : conn'[backlog'[i]] = "queued"
    BY <1>2, <2>1, <2>2
  <2>4. \A i, j \in DOMAIN backlog' : backlog'[i] = backlog'[j] => i = j
    BY <2>1, <2>2 DEF ProcessesOK
  <2>5. \A q \in Procs : proc'[q] = "unused" => spawned'[q] = None /\ conn'[q] = "none"
    BY <1>2 DEF ProcessesOK
  <2>6. QED
    BY <2>3, <2>4, <2>5 DEF ProcessesOK
<1>6. QED
  BY <1>1, <1>3, <1>4, <1>5

LEMMA DieStep ==
    ASSUME IInv, NEW p \in Procs, Die(p)
    PROVE  IInv'
<1> USE DEF IInv, Die, registryVars, managerVars, ipcVars
<1>1. TypeOK' /\ ActiveMatchesRegistry' /\ AnswersTheRequest'
  BY DEF TypeOK, RegistryTypeOK, ActiveMatchesRegistry, RegistryConsistent, AnswersTheRequest
<1>2. proc'[p] = "ended" /\ \A q \in Procs \ {p} : proc'[q] = proc[q]
  BY DEF TypeOK
<1>3. NoOrphanChild' /\ ProcessesOK'
  BY <1>2 DEF NoOrphanChild, ProcessesOK
<1>4. ConnectionsOwned' /\ PhaseOK'
  BY DEF ConnectionsOwned, PhaseOK, IsActive
<1>5. QED
  BY <1>1, <1>3, <1>4

LEMMA RecycleStep ==
    ASSUME IInv, NEW p \in Procs, Recycle(p)
    PROVE  IInv'
<1> USE DEF IInv, Recycle, registryVars, managerVars
<1>1. TypeOK' /\ ActiveMatchesRegistry' /\ AnswersTheRequest'
  BY DEF TypeOK, RegistryTypeOK, ActiveMatchesRegistry, RegistryConsistent, AnswersTheRequest
<1>2. /\ proc'[p] = "unused" /\ spawned'[p] = None /\ conn'[p] = "none"
      /\ \A q \in Procs \ {p} :
            proc'[q] = proc[q] /\ spawned'[q] = spawned[q] /\ conn'[q] = conn[q]
  BY DEF TypeOK
<1>3. peer # p /\ \A a \in Apps : active[a].child # p
  BY ManagerAssumption DEF ManagerAssumption, Children
<1>4. NoOrphanChild'
  BY <1>2, <1>3 DEF NoOrphanChild
<1>5. PhaseOK'
  BY <1>2, <1>3 DEF PhaseOK, IsActive
<1>6. ConnectionsOwned'
  BY <1>2 DEF ConnectionsOwned, IsActive
<1>7. ProcessesOK'
  <2>1. ASSUME NEW a \in Apps, active[a].child # None
        PROVE  spawned'[active[a].child] = a
    <3>1. active[a].child \in Procs
      BY <2>1, ActiveType, EntryFacts
    <3>2. QED
      BY <1>2, <1>3, <2>1, <3>1 DEF ProcessesOK
  <2>2. \A i \in DOMAIN backlog : backlog[i] \in Procs /\ conn'[backlog[i]] = "queued"
    BY <1>2 DEF ProcessesOK, TypeOK
  <2>3. \A q \in Procs : proc'[q] = "unused" => spawned'[q] = None /\ conn'[q] = "none"
    BY <1>2 DEF ProcessesOK
  <2>4. QED
    BY <2>1, <2>2, <2>3 DEF ProcessesOK
<1>8. QED
  BY <1>1, <1>4, <1>5, <1>6, <1>7

\* Accepting the connection at the head of the backlog.
LEMMA TakeHead ==
    ASSUME IInv, backlog # <<>>, backlog' = Tail(backlog),
           conn' = [conn EXCEPT ![Head(backlog)] = "candidate"],
           UNCHANGED <<active, procVars>>
    PROVE  /\ Head(backlog) \in Procs
           /\ conn' \in [Procs -> {"none", "queued", "candidate", "held", "closed"}]
           /\ conn'[Head(backlog)] = "candidate"
           /\ \A q \in Procs : conn[q] = "candidate" => conn'[q] = "candidate"
           /\ backlog' \in Seq(Procs)
           /\ ConnectionsOwned'
           /\ ProcessesOK'
<1> DEFINE h == Head(backlog)
<1>1. /\ backlog \in Seq(Procs)
      /\ Len(backlog) \in Nat /\ Len(backlog) > 0
      /\ DOMAIN backlog = 1..Len(backlog)
      /\ h = backlog[1] /\ h \in Procs
      /\ backlog' \in Seq(Procs)
      /\ DOMAIN backlog' = 1..(Len(backlog) - 1)
      /\ \A i \in DOMAIN backlog' : backlog'[i] = backlog[i + 1]
  BY DEF IInv, TypeOK
<1>2. /\ conn \in [Procs -> {"none", "queued", "candidate", "held", "closed"}]
      /\ conn[h] = "queued"
      /\ \A i \in DOMAIN backlog' : conn[backlog[i + 1]] = "queued" /\ backlog[i + 1] # h
  <2>1. 1 \in DOMAIN backlog
    BY <1>1
  <2>2. ASSUME NEW i \in DOMAIN backlog'
        PROVE  conn[backlog[i + 1]] = "queued" /\ backlog[i + 1] # h
    <3>1. i \in Nat /\ i + 1 \in DOMAIN backlog /\ i + 1 # 1
      BY <1>1, <2>2
    <3>2. QED
      BY <1>1, <2>1, <3>1 DEF IInv, ProcessesOK
  <2>3. QED
    BY <1>1, <2>1, <2>2 DEF IInv, TypeOK, ProcessesOK
<1>3. conn'[h] = "candidate" /\ \A q \in Procs \ {h} : conn'[q] = conn[q]
  BY <1>1, <1>2
<1>4. ConnectionsOwned'
  BY <1>1, <1>2, <1>3 DEF IInv, ConnectionsOwned, IsActive
<1>5. ProcessesOK'
  <2>1. \A i \in DOMAIN backlog' : conn'[backlog'[i]] = "queued"
    BY <1>1, <1>2, <1>3
  <2>2. \A i, j \in DOMAIN backlog' : backlog'[i] = backlog'[j] => i = j
    <3>1. SUFFICES ASSUME NEW i \in DOMAIN backlog', NEW j \in DOMAIN backlog',
                          backlog'[i] = backlog'[j]
                   PROVE  i = j
      OBVIOUS
    <3>2. i + 1 \in DOMAIN backlog /\ j + 1 \in DOMAIN backlog
      BY <1>1
    <3>3. i + 1 = j + 1
      BY <1>1, <3>1, <3>2 DEF IInv, ProcessesOK
    <3>4. QED
      BY <1>1, <3>3
  <2>3. \A q \in Procs : proc'[q] = "unused" => spawned'[q] = None /\ conn'[q] = "none"
    BY <1>2, <1>3 DEF IInv, ProcessesOK, procVars
  <2>4. \A a \in Apps : active'[a].child # None => spawned'[active'[a].child] = a
    BY DEF IInv, ProcessesOK, procVars
  <2>5. QED
    BY <2>1, <2>2, <2>3, <2>4 DEF ProcessesOK
<1>6. QED
  BY <1>1, <1>2, <1>3, <1>4, <1>5

LEMMA AcceptStep ==
    ASSUME IInv, Accept
    PROVE  IInv'
<1> USE DEF Accept, registryVars
<1>1. /\ Head(backlog) \in Procs
      /\ conn' \in [Procs -> {"none", "queued", "candidate", "held", "closed"}]
      /\ conn'[Head(backlog)] = "candidate"
      /\ backlog' \in Seq(Procs)
      /\ ConnectionsOwned' /\ ProcessesOK'
  BY TakeHead
<1>2. TypeOK'
  BY <1>1 DEF IInv, TypeOK, RegistryTypeOK, Phases, procVars
<1>3. ActiveMatchesRegistry' /\ AnswersTheRequest'
  BY DEF IInv, ActiveMatchesRegistry, RegistryConsistent, AnswersTheRequest
<1>4. NoOrphanChild'
  BY DEF IInv, NoOrphanChild, procVars
<1>5. PhaseOK'
  BY <1>1 DEF PhaseOK
<1>6. QED
  BY <1>1, <1>2, <1>3, <1>4, <1>5 DEF IInv

LEMMA AcceptCandidateStep ==
    ASSUME IInv, AcceptCandidate
    PROVE  IInv'
<1> USE DEF AcceptCandidate, registryVars, managerVars
<1>1. /\ conn' \in [Procs -> {"none", "queued", "candidate", "held", "closed"}]
      /\ \A q \in Procs : conn[q] = "candidate" => conn'[q] = "candidate"
      /\ backlog' \in Seq(Procs)
      /\ ConnectionsOwned' /\ ProcessesOK'
  BY TakeHead
<1>2. TypeOK'
  BY <1>1 DEF IInv, TypeOK, RegistryTypeOK, procVars
<1>3. ActiveMatchesRegistry' /\ AnswersTheRequest' /\ NoOrphanChild'
  BY DEF IInv, ActiveMatchesRegistry, RegistryConsistent, AnswersTheRequest,
         NoOrphanChild, procVars
<1>4. PhaseOK'
  BY <1>1 DEF IInv, PhaseOK, IsActive, procVars
<1>5. QED
  BY <1>1, <1>2, <1>3, <1>4 DEF IInv

\* Dropping connections that are not held and not being read.
LEMMA CloseKeeps ==
    ASSUME IInv, NEW S \in SUBSET Procs, \A q \in S : conn[q] = "candidate", Close(S),
           UNCHANGED <<active, backlog, spawned>>,
           \A q \in Procs : proc'[q] = "unused" => proc[q] = "unused"
    PROVE  /\ conn' \in [Procs -> {"none", "queued", "candidate", "held", "closed"}]
           /\ hello' \in [Procs -> Registration \cup {None}]
           /\ inbox' \in [Procs -> Seq(Frames)]
           /\ due' \in [Procs -> SUBSET RequestId]
           /\ ConnectionsOwned'
           /\ ProcessesOK'
           /\ \A q \in Procs \ S : conn'[q] = conn[q]
<1>1. /\ conn' \in [Procs -> {"none", "queued", "candidate", "held", "closed"}]
      /\ hello' \in [Procs -> Registration \cup {None}]
      /\ inbox' \in [Procs -> Seq(Frames)]
      /\ due' \in [Procs -> SUBSET RequestId]
  BY DEF Close, Settle, IInv, TypeOK
<1>2. \A q \in Procs : conn'[q] = IF q \in S THEN "closed" ELSE conn[q]
  BY DEF Close, Settle
<1>3. ConnectionsOwned'
  BY <1>2 DEF IInv, ConnectionsOwned, IsActive
<1>4. ProcessesOK'
  BY <1>2 DEF IInv, TypeOK, ProcessesOK
<1>5. QED
  BY <1>1, <1>2, <1>3, <1>4

LEMMA ReadEofStep ==
    ASSUME IInv, ReadEof
    PROVE  IInv'
<1> USE DEF ReadEof, BecomeIdle, registryVars, procVars
<1>1. peer \in Procs /\ conn[peer] = "candidate"
  BY DEF IInv, PhaseOK
<1>2. /\ conn' \in [Procs -> {"none", "queued", "candidate", "held", "closed"}]
      /\ hello' \in [Procs -> Registration \cup {None}]
      /\ inbox' \in [Procs -> Seq(Frames)]
      /\ due' \in [Procs -> SUBSET RequestId]
      /\ ConnectionsOwned' /\ ProcessesOK'
  BY <1>1, CloseKeeps
<1>3. TypeOK'
  BY <1>2 DEF IInv, TypeOK, RegistryTypeOK, Phases
<1>4. ActiveMatchesRegistry' /\ AnswersTheRequest' /\ NoOrphanChild'
  BY DEF IInv, ActiveMatchesRegistry, RegistryConsistent, AnswersTheRequest, NoOrphanChild
<1>5. PhaseOK'
  BY DEF PhaseOK
<1>6. QED
  BY <1>2, <1>3, <1>4, <1>5 DEF IInv

LEMMA DismissCandidateStep ==
    ASSUME IInv, NEW p \in Procs, DismissCandidate(p)
    PROVE  IInv'
<1> USE DEF DismissCandidate, registryVars, managerVars, procVars
<1>1. /\ conn' \in [Procs -> {"none", "queued", "candidate", "held", "closed"}]
      /\ hello' \in [Procs -> Registration \cup {None}]
      /\ inbox' \in [Procs -> Seq(Frames)]
      /\ due' \in [Procs -> SUBSET RequestId]
      /\ ConnectionsOwned' /\ ProcessesOK'
  BY CloseKeeps DEF Candidates
<1>2. TypeOK'
  BY <1>1 DEF IInv, TypeOK, RegistryTypeOK
<1>3. ActiveMatchesRegistry' /\ AnswersTheRequest' /\ NoOrphanChild'
  BY DEF IInv, ActiveMatchesRegistry, RegistryConsistent, AnswersTheRequest, NoOrphanChild
<1>4. PhaseOK'
  BY DEF IInv, PhaseOK, IsActive
<1>5. QED
  BY <1>1, <1>2, <1>3, <1>4 DEF IInv

LEMMA AbandonStep ==
    ASSUME IInv, phase = "starting", AbandonStart
    PROVE  IInv'
<1> USE DEF AbandonStart, BecomeIdle, registryVars
<1>1. /\ peer \in Procs /\ spawned' = spawned
      /\ \A q \in Procs : proc'[q] = IF q = peer THEN "ended" ELSE proc[q]
      /\ proc' \in [Procs -> {"unused", "running", "ended"}]
  BY DEF IInv, PhaseOK, Kill, TypeOK
<1>2. /\ conn' \in [Procs -> {"none", "queued", "candidate", "held", "closed"}]
      /\ hello' \in [Procs -> Registration \cup {None}]
      /\ inbox' \in [Procs -> Seq(Frames)]
      /\ due' \in [Procs -> SUBSET RequestId]
      /\ ConnectionsOwned' /\ ProcessesOK'
  BY <1>1, CloseKeeps DEF Candidates
<1>3. TypeOK'
  BY <1>1, <1>2 DEF IInv, TypeOK, RegistryTypeOK, Phases
<1>4. ActiveMatchesRegistry' /\ AnswersTheRequest'
  BY DEF IInv, ActiveMatchesRegistry, RegistryConsistent, AnswersTheRequest
<1>5. NoOrphanChild'
  BY <1>1 DEF IInv, NoOrphanChild
<1>6. PhaseOK'
  BY DEF PhaseOK
<1>7. QED
  BY <1>2, <1>3, <1>4, <1>5, <1>6 DEF IInv

LEMMA RegisterOutsideStep ==
    ASSUME IInv, RegisterOutside
    PROVE  IInv'
<1> USE DEF RegisterOutside, BecomeIdle
<1> DEFINE worker == hello[peer].worker_id
           app == hello[peer].app
<1>1. /\ peer \in Procs /\ conn[peer] = "candidate"
      /\ worker \in WorkerIds /\ app \in Apps
      /\ phase = "reading"
  BY DEF IInv, PhaseOK, TypeOK, Registration
<1>2. InsertActiveWorker(worker, app, peer, None) /\ UNCHANGED backlog
  OBVIOUS
<1> HIDE DEF RegisterOutside, worker, app
<1>3. /\ RegistryTypeOK' /\ ActiveMatchesRegistry'
      /\ active' \in [Apps -> Entries]
      /\ proc' \in [Procs -> {"unused", "running", "ended"}]
      /\ spawned' \in [Procs -> Apps \cup {None}]
      /\ conn' \in [Procs -> {"none", "queued", "candidate", "held", "closed"}]
      /\ hello' \in [Procs -> Registration \cup {None}]
      /\ inbox' \in [Procs -> Seq(Frames)]
      /\ due' \in [Procs -> SUBSET RequestId]
      /\ ConnectionsOwned' /\ ProcessesOK'
  BY <1>1, <1>2, InsertKeeps
<1>4. TypeOK'
  BY <1>3 DEF RegisterOutside, IInv, TypeOK, Entries, Phases
<1>5. AnswersTheRequest' /\ PhaseOK'
  BY DEF RegisterOutside, IInv, AnswersTheRequest, PhaseOK
<1>6. NoOrphanChild'
  <2>1. SUFFICES ASSUME NEW q \in Procs, spawned'[q] # None, proc'[q] = "running"
                 PROVE  active'[spawned'[q]].child = q
    BY DEF NoOrphanChild
  <2>2. spawned' = spawned
    BY <1>2 DEF InsertActiveWorker, Kill
  <2>3. \/ active'[spawned[q]].child = q
        \/ spawned[q] = app
        \/ active[spawned[q]].child # q
    BY <1>1, <1>2, <2>1, <2>2, InsertKeeps
  <2>4. proc[q] = "running" /\ (active[app].child = q => proc'[q] = "ended")
    BY <1>1, <1>2, <2>1, InsertKeeps
  <2>5. active[spawned[q]].child = q
    BY <1>1, <2>1, <2>2, <2>4 DEF IInv, NoOrphanChild
  <2>6. QED
    BY <2>1, <2>2, <2>3, <2>4, <2>5
<1>7. QED
  BY <1>3, <1>4, <1>5, <1>6 DEF IInv

LEMMA RegisterStartedStep ==
    ASSUME IInv, NEW p \in Procs, RegisterStarted(p)
    PROVE  IInv'
<1>1. /\ phase = "starting"
      /\ conn[p] = "candidate"
      /\ serving \in Apps /\ serving \in WorkerIds
      /\ peer \in Procs /\ spawned[peer] = serving /\ peer # None
  BY RegistryAssumption, ManagerAssumption
  DEF RegistryAssumption, ManagerAssumption, RegisterStarted, Candidates, IInv, PhaseOK
<1>2. InsertActiveWorker(serving, serving, p, peer) /\ UNCHANGED backlog
  BY DEF RegisterStarted
<1>3. /\ RegistryTypeOK' /\ ActiveMatchesRegistry'
      /\ active' \in [Apps -> Entries]
      /\ proc' \in [Procs -> {"unused", "running", "ended"}]
      /\ spawned' \in [Procs -> Apps \cup {None}]
      /\ conn' \in [Procs -> {"none", "queued", "candidate", "held", "closed"}]
      /\ hello' \in [Procs -> Registration \cup {None}]
      /\ inbox' \in [Procs -> Seq(Frames)]
      /\ due' \in [Procs -> SUBSET RequestId]
      /\ ConnectionsOwned' /\ ProcessesOK'
      /\ active'[serving] # NoActive /\ active'[serving].child = peer
  BY <1>1, <1>2, InsertKeeps DEF IsActive
<1>4. TypeOK'
  BY <1>3 DEF RegisterStarted, IInv, TypeOK, Entries, Phases
<1>5. AnswersTheRequest'
  BY DEF RegisterStarted, IInv, AnswersTheRequest
<1>6. PhaseOK'
  BY <1>1, <1>3 DEF RegisterStarted, IInv, PhaseOK, IsActive
<1>7. NoOrphanChild'
  <2>1. SUFFICES ASSUME NEW q \in Procs, spawned'[q] # None, proc'[q] = "running"
                 PROVE  active'[spawned'[q]].child = q
    BY DEF NoOrphanChild
  <2>2. spawned' = spawned
    BY <1>2 DEF InsertActiveWorker, Kill
  <2>3. \/ active'[spawned[q]].child = q
        \/ spawned[q] = serving
        \/ active[spawned[q]].child # q
    BY <1>1, <1>2, <2>1, <2>2, InsertKeeps
  <2>4. proc[q] = "running" /\ (active[serving].child = q => proc'[q] = "ended")
    BY <1>1, <1>2, <2>1, InsertKeeps
  <2>5. active[spawned[q]].child = q \/ q = peer
    BY <2>1, <2>2, <2>4 DEF IInv, NoOrphanChild
  <2>6. QED
    BY <1>1, <1>3, <2>1, <2>2, <2>3, <2>4, <2>5
<1>8. QED
  BY <1>3, <1>4, <1>5, <1>6, <1>7 DEF IInv

LEMMA EndCoreStep ==
    ASSUME IInv, RegisterOutsideFails \/ FrontendFails
    PROVE  IInv'
<1> SUFFICES ASSUME EndCore, phase # "starting" PROVE IInv'
  BY DEF RegisterOutsideFails, FrontendFails
<1> USE DEF EndCore
<1>1. RegistryTypeOK' /\ RegistryConsistent'
  BY RemoveKeeps DEF IInv, TypeOK, ActiveMatchesRegistry
<1>2. /\ proc' \in [Procs -> {"unused", "running", "ended"}]
      /\ spawned' = spawned
      /\ conn' \in [Procs -> {"none", "queued", "candidate", "held", "closed"}]
      /\ hello' \in [Procs -> Registration \cup {None}]
      /\ inbox' \in [Procs -> Seq(Frames)]
      /\ due' \in [Procs -> SUBSET RequestId]
      /\ \A q \in Procs : conn'[q] \in {"none", "closed"}
      /\ \A q \in Procs : conn[q] = "none" => conn'[q] = "none"
  BY DEF Kill, Close, Settle, IInv, TypeOK
<1>3. TypeOK'
  BY <1>1, <1>2 DEF IInv, TypeOK, Phases
<1>4. ActiveMatchesRegistry'
  BY <1>1 DEF ActiveMatchesRegistry, RemoveByAppId, NoActive
<1>5. AnswersTheRequest' /\ PhaseOK'
  BY DEF IInv, AnswersTheRequest, PhaseOK
<1>6. NoOrphanChild'
  <2>1. SUFFICES ASSUME NEW q \in Procs, spawned[q] # None, proc'[q] = "running"
                 PROVE  FALSE
    BY <1>2 DEF NoOrphanChild
  <2>2. proc[q] = "running" /\ q \notin Children(Apps)
    BY <2>1 DEF Kill
  <2>3. active[spawned[q]].child = q /\ spawned[q] \in Apps
    BY <2>1, <2>2 DEF IInv, NoOrphanChild, TypeOK
  <2>4. QED
    BY <2>2, <2>3, ManagerAssumption DEF Children, ManagerAssumption
<1>7. ConnectionsOwned'
  BY <1>2, ManagerAssumption DEF ConnectionsOwned, NoActive, IsActive, ManagerAssumption
<1>8. ProcessesOK'
  BY <1>2 DEF IInv, ProcessesOK, NoActive, Kill
<1>9. QED
  BY <1>3, <1>4, <1>5, <1>6, <1>7, <1>8 DEF IInv

\* The steps of the core between its awaits that move no process.
LEMMA QuietStep ==
    ASSUME IInv, UNCHANGED <<registryVars, procVars, conn, backlog, hello, inbox>>,
           due' \in [Procs -> SUBSET RequestId],
           active' \in [Apps -> Entries],
           \A a \in Apps : /\ active'[a].worker_id = active[a].worker_id
                           /\ active'[a].connection = active[a].connection
                           /\ active'[a].child = active[a].child,
           phase = "starting" => UNCHANGED <<phase, serving, peer>>,
           next_request_id' \in 1..(MaxRequests + 1), phase' \in Phases,
           serving' \in Apps \cup {None}, peer' \in Procs \cup {None},
           awaited' \in RequestId \cup {None},
           delivered' \in [request: RequestId, answer: Frames] \cup {None},
           AnswersTheRequest', PhaseOK'
    PROVE  IInv'
<1> USE DEF registryVars, procVars
<1>1. TypeOK'
  BY DEF IInv, TypeOK, RegistryTypeOK, Entries
<1>2. ActiveMatchesRegistry'
  BY DEF IInv, ActiveMatchesRegistry, RegistryConsistent
<1>3. NoOrphanChild'
  BY DEF IInv, NoOrphanChild, TypeOK
<1>4. ConnectionsOwned'
  <2>1. \A a \in Apps : IsActive(a)' => IsActive(a)
    BY ActiveType, EntryFacts DEF IInv, IsActive
  <2>2. QED
    BY <2>1 DEF IInv, ConnectionsOwned
<1>5. ProcessesOK'
  BY DEF IInv, ProcessesOK
<1>6. QED
  BY <1>1, <1>2, <1>3, <1>4, <1>5 DEF IInv

LEMMA SpawnWorkerStep ==
    ASSUME IInv, NEW app \in Apps, NEW p \in Procs, SpawnWorker(app, p)
    PROVE  IInv'
<1> USE DEF SpawnWorker, registryVars, ipcVars
<1>1. /\ proc' \in [Procs -> {"unused", "running", "ended"}]
      /\ spawned' \in [Procs -> Apps \cup {None}]
      /\ proc'[p] = "running" /\ spawned'[p] = app
      /\ \A q \in Procs \ {p} : proc'[q] = proc[q] /\ spawned'[q] = spawned[q]
  BY DEF IInv, TypeOK
<1>2. spawned[p] = None /\ conn[p] = "none"
  BY DEF IInv, ProcessesOK
<1>3. TypeOK'
  BY <1>1 DEF IInv, TypeOK, RegistryTypeOK, Phases
<1>4. ActiveMatchesRegistry' /\ AnswersTheRequest' /\ ConnectionsOwned'
  BY DEF IInv, ActiveMatchesRegistry, RegistryConsistent, AnswersTheRequest,
         ConnectionsOwned, IsActive
<1>5. NoOrphanChild'
  BY <1>1 DEF IInv, NoOrphanChild
<1>6. PhaseOK'
  BY <1>1 DEF PhaseOK, IsActive
<1>7. ProcessesOK'
  <2>1. ASSUME NEW a \in Apps, active[a].child # None
        PROVE  spawned'[active[a].child] = a
    <3>1. active[a].child \in Procs /\ spawned[active[a].child] = a
      BY <2>1, ActiveType, EntryFacts DEF IInv, ProcessesOK
    <3>2. active[a].child # p
      BY <1>2, <3>1, RegistryAssumption DEF RegistryAssumption
    <3>3. QED
      BY <1>1, <3>1, <3>2
  <2>2. \A q \in Procs : proc'[q] = "unused" => spawned'[q] = None /\ conn'[q] = "none"
    BY <1>1 DEF IInv, ProcessesOK
  <2>3. QED
    BY <2>1, <2>2 DEF IInv, ProcessesOK
<1>8. QED
  BY <1>3, <1>4, <1>5, <1>6, <1>7 DEF IInv

LEMMA StartCoreStep ==
    ASSUME IInv, StartCore
    PROVE  IInv'
<1> USE DEF StartCore, BecomeIdle, ipcVars
<1>1. active \in [Apps -> Entries]
  BY ActiveType DEF IInv
<1>2. AnswersTheRequest' /\ PhaseOK'
  BY DEF AnswersTheRequest, PhaseOK
<1>3. QED
  BY <1>1, <1>2, QuietStep, ManagerAssumption DEF IInv, TypeOK, Phases, ManagerAssumption

LEMMA DispatchWarmStep ==
    ASSUME IInv, NEW app \in Apps, DispatchWarm(app)
    PROVE  IInv'
<1> USE DEF DispatchWarm, ipcVars
<1>1. active \in [Apps -> Entries]
  BY ActiveType DEF IInv
<1>2. AnswersTheRequest' /\ PhaseOK'
  BY DEF IInv, AnswersTheRequest, PhaseOK, IsActive
<1>3. QED
  BY <1>1, <1>2, QuietStep DEF IInv, TypeOK, Phases

\* A call is sent while identifiers last.
LEMMA SendDispatchStep ==
    ASSUME IInv, SendDispatch
    PROVE  IInv'
<1> USE DEF SendDispatch
<1>0. next_request_id \in RequestId
  BY ManagerAssumption DEF ManagerAssumption, IInv, TypeOK, PhaseOK, RequestId
<1>1. active \in [Apps -> Entries]
  BY ActiveType DEF IInv
<1>2. AnswersTheRequest'
  BY DEF IInv, AnswersTheRequest
<1>3. PhaseOK'
  BY <1>0 DEF IInv, PhaseOK, IsActive
<1>4. due' \in [Procs -> SUBSET RequestId]
  BY <1>0 DEF IInv, TypeOK
<1>5. next_request_id' \in 1..(MaxRequests + 1)
  BY <1>0, ManagerAssumption DEF ManagerAssumption, RequestId
<1>6. QED
  BY <1>0, <1>1, <1>2, <1>3, <1>4, <1>5, QuietStep DEF IInv, TypeOK, Phases

LEMMA ReceiveAnswerStep ==
    ASSUME IInv, ReceiveAnswer
    PROVE  IInv'
<1> USE DEF ReceiveAnswer
<1>1. /\ active \in [Apps -> Entries] /\ serving \in Apps
      /\ active[serving] # NoActive /\ awaited \in RequestId
  BY ActiveType DEF IInv, PhaseOK, IsActive
<1>2. active[serving] \in ActiveWorker /\ active[serving].connection \in Procs
  <2>1. active[serving] \in ActiveWorker
    BY <1>1, EntryFacts
  <2>2. QED
    BY <2>1 DEF ActiveWorker
<1> DEFINE p == active[serving].connection
<1>3. /\ inbox[p] \in Seq(Frames) /\ inbox[p] # <<>>
      /\ Head(inbox[p]) = awaited
      /\ Tail(inbox[p]) \in Seq(Frames)
      /\ delivered' = [request |-> awaited, answer |-> awaited]
  BY <1>2 DEF IInv, TypeOK, IsAnswer
<1>4. /\ active' = [active EXCEPT ![serving].idle = FALSE]
      /\ inbox' = [inbox EXCEPT ![p] = Tail(@)]
      /\ BecomeIdle
  OBVIOUS
<1>5. inbox' \in [Procs -> Seq(Frames)]
  BY <1>2, <1>3, <1>4 DEF IInv, TypeOK
<1>6. /\ active'[serving] \in ActiveWorker
      /\ active'[serving].worker_id = active[serving].worker_id
      /\ active'[serving].connection = active[serving].connection
      /\ active'[serving].child = active[serving].child
      /\ \A a \in Apps \ {serving} : active'[a] = active[a]
  BY <1>1, <1>2, <1>4 DEF ActiveWorker
<1>7. active' \in [Apps -> Entries]
  BY <1>1, <1>4, <1>6 DEF Entries
<1>8. TypeOK'
  BY <1>1, <1>3, <1>5, <1>7
  DEF IInv, TypeOK, RegistryTypeOK, registryVars, procVars, BecomeIdle, Phases, Entries, Frames
<1>9. ActiveMatchesRegistry' /\ NoOrphanChild'
  BY <1>6 DEF IInv, ActiveMatchesRegistry, RegistryConsistent, NoOrphanChild, TypeOK,
              registryVars, procVars, PhaseOK
<1>10. AnswersTheRequest' /\ PhaseOK'
  BY <1>3 DEF AnswersTheRequest, PhaseOK, BecomeIdle
<1>11. ConnectionsOwned'
  <2>1. \A a \in Apps : IsActive(a)' => IsActive(a)
    BY <1>1, <1>6 DEF IsActive
  <2>2. QED
    BY <1>6, <2>1 DEF IInv, ConnectionsOwned
<1>12. ProcessesOK'
  BY <1>6 DEF IInv, ProcessesOK, procVars
<1>13. QED
  BY <1>8, <1>9, <1>10, <1>11, <1>12 DEF IInv

LEMMA ElapseStep ==
    ASSUME IInv, NEW app \in Apps, Elapse(app)
    PROVE  IInv'
<1> USE DEF Elapse, ipcVars
<1>1. /\ active \in [Apps -> Entries]
      /\ active[app] \in ActiveWorker
  BY ActiveType, EntryFacts DEF IInv, IsActive
<1>2. /\ active'[app] \in ActiveWorker
      /\ active'[app].worker_id = active[app].worker_id
      /\ active'[app].connection = active[app].connection
      /\ active'[app].child = active[app].child
      /\ \A a \in Apps \ {app} : active'[a] = active[a]
  BY <1>1 DEF ActiveWorker
<1>3. active' \in [Apps -> Entries]
  BY <1>1, <1>2 DEF Entries
<1>4. AnswersTheRequest'
  BY DEF IInv, AnswersTheRequest
<1>5. PhaseOK'
  <2>1. \A a \in Apps : IsActive(a)' <=> IsActive(a)
    BY <1>1, <1>2, EntryFacts DEF IsActive, Entries
  <2>2. QED
    BY <2>1 DEF IInv, PhaseOK, procVars
<1>6. QED
  BY <1>2, <1>3, <1>4, <1>5, QuietStep DEF IInv, TypeOK

\* The entries of S go, and the core is back in its loop, where it was, or
\* between a request and its answer.
LEMMA RemoveActiveStep ==
    ASSUME IInv, NEW S \in SUBSET Apps, RemoveActive(S), UNCHANGED backlog,
           phase # "starting", phase' = "idle",
           serving' \in Apps \cup {None}, peer' \in Procs \cup {None},
           awaited' \in RequestId \cup {None},
           next_request_id' \in 1..(MaxRequests + 1), UNCHANGED delivered
    PROVE  IInv'
<1>1. /\ RegistryTypeOK' /\ ActiveMatchesRegistry'
      /\ active' \in [Apps -> Entries]
      /\ proc' \in [Procs -> {"unused", "running", "ended"}]
      /\ spawned' \in [Procs -> Apps \cup {None}]
      /\ conn' \in [Procs -> {"none", "queued", "candidate", "held", "closed"}]
      /\ hello' \in [Procs -> Registration \cup {None}]
      /\ inbox' \in [Procs -> Seq(Frames)]
      /\ due' \in [Procs -> SUBSET RequestId]
      /\ ConnectionsOwned' /\ ProcessesOK'
  BY RemoveActiveKeeps
<1>2. TypeOK'
  BY <1>1 DEF IInv, TypeOK, Entries, Phases
<1>3. AnswersTheRequest' /\ PhaseOK'
  BY DEF IInv, AnswersTheRequest, PhaseOK
<1>4. NoOrphanChild'
  <2>1. SUFFICES ASSUME NEW q \in Procs, spawned'[q] # None, proc'[q] = "running"
                 PROVE  active'[spawned'[q]].child = q
    BY DEF NoOrphanChild
  <2>2. /\ spawned'[q] = spawned[q] /\ proc[q] = "running"
        /\ \/ active'[spawned[q]].child = q
           \/ active[spawned[q]].child # q
    BY <2>1, RemoveActiveKeeps
  <2>3. active[spawned[q]].child = q
    BY <2>1, <2>2 DEF IInv, NoOrphanChild
  <2>4. QED
    BY <2>2, <2>3
<1>5. QED
  BY <1>1, <1>2, <1>3, <1>4 DEF IInv

LEMMA SendDispatchFailsStep ==
    ASSUME IInv, SendDispatchFails
    PROVE  IInv'
<1> USE DEF SendDispatchFails, FailDispatch, BecomeIdle
<1>1. next_request_id <= MaxRequests /\ serving \in Apps
  BY DEF IInv, PhaseOK
<1>2. next_request_id' \in 1..(MaxRequests + 1)
  BY <1>1, ManagerAssumption DEF ManagerAssumption, IInv, TypeOK
<1>3. QED
  BY <1>1, <1>2, RemoveActiveStep

LEMMA ReceiveFailsStep ==
    ASSUME IInv, ReceiveFails
    PROVE  IInv'
<1> USE DEF ReceiveFails, FailDispatch, BecomeIdle
<1>1. /\ serving \in Apps
      /\ next_request_id' \in 1..(MaxRequests + 1)
  BY DEF IInv, PhaseOK, TypeOK
<1>2. QED
  BY <1>1, RemoveActiveStep

LEMMA ReapIdleWorkersStep ==
    ASSUME IInv, ReapIdleWorkers
    PROVE  IInv'
<1> USE DEF ReapIdleWorkers
<1>1. Expired \in SUBSET Apps
  BY DEF Expired
<1>2. /\ serving' \in Apps \cup {None}
      /\ peer' \in Procs \cup {None}
      /\ awaited' \in RequestId \cup {None}
      /\ next_request_id' \in 1..(MaxRequests + 1)
  BY DEF IInv, TypeOK
<1>3. QED
  BY <1>1, <1>2, RemoveActiveStep

-----------------------------------------------------------------------------
(* The theorems. *)

LEMMA ProcessStep ==
    ASSUME IInv, NEW p \in Procs, Process(p)
    PROVE  IInv'
<1>1. CASE Appear(p)
  BY <1>1, AppearStep
<1>2. CASE Connect(p)
  BY <1>2, ConnectStep
<1>3. CASE \E worker \in WorkerIds, app \in Apps : SendRegistration(p, worker, app)
  BY <1>3, FramesStep
<1>4. CASE \E i \in RequestId : Answer(p, i)
  BY <1>4, FramesStep
<1>5. CASE \E f \in Frames : SendStray(p, f)
  BY <1>5, FramesStep
<1>6. CASE Die(p)
  BY <1>6, DieStep
<1>7. CASE Recycle(p)
  BY <1>7, RecycleStep
<1>8. QED
  BY <1>1, <1>2, <1>3, <1>4, <1>5, <1>6, <1>7 DEF Process

LEMMA CoreStep ==
    ASSUME IInv, Core
    PROVE  IInv'
<1>1. CASE Accept
  BY <1>1, AcceptStep
<1>2. CASE ReadEof
  BY <1>2, ReadEofStep
<1>3. CASE RegisterOutside
  BY <1>3, RegisterOutsideStep
<1>4. CASE RegisterOutsideFails
  BY <1>4, EndCoreStep
<1>5. CASE AcceptCandidate
  BY <1>5, AcceptCandidateStep
<1>6. ASSUME NEW p \in Procs,
             DismissCandidate(p) \/ RegisterStarted(p) \/ RegisterStartedFails(p)
      PROVE  IInv'
  <2>1. CASE DismissCandidate(p)
    BY <2>1, DismissCandidateStep
  <2>2. CASE RegisterStarted(p)
    BY <2>2, RegisterStartedStep
  <2>3. CASE RegisterStartedFails(p)
    BY <2>3, AbandonStep DEF RegisterStartedFails
  <2>4. QED
    BY <1>6, <2>1, <2>2, <2>3
<1>7. CASE StartTimeout
  BY <1>7, AbandonStep DEF StartTimeout
<1>8. CASE SendDispatch
  BY <1>8, SendDispatchStep
<1>9. CASE SendDispatchFails
  BY <1>9, SendDispatchFailsStep
<1>10. CASE ReceiveAnswer
  BY <1>10, ReceiveAnswerStep
<1>11. CASE ReceiveFails
  BY <1>11, ReceiveFailsStep
<1>12. QED
  BY <1>1, <1>2, <1>3, <1>4, <1>5, <1>6, <1>7, <1>8, <1>9, <1>10, <1>11 DEF Core

LEMMA NextIInv == IInv /\ [Next]_vars => IInv'
<1> SUFFICES ASSUME IInv, [Next]_vars
             PROVE  IInv'
  OBVIOUS
<1>1. CASE \E p \in Procs : Process(p)
  BY <1>1, ProcessStep
<1>2. CASE Core
  BY <1>2, CoreStep
<1>3. CASE StartCore \/ FrontendFails
  BY <1>3, StartCoreStep, EndCoreStep
<1>4. ASSUME NEW app \in Apps,
             \/ DispatchWarm(app)
             \/ \E p \in Procs : SpawnWorker(app, p)
             \/ Elapse(app)
      PROVE  IInv'
  BY <1>4, DispatchWarmStep, SpawnWorkerStep, ElapseStep
<1>5. CASE ReapIdleWorkers
  BY <1>5, ReapIdleWorkersStep
<1>6. CASE UNCHANGED vars
  BY <1>6 DEF vars, registryVars, managerVars, procVars, ipcVars, IInv, TypeOK,
              RegistryTypeOK, ActiveMatchesRegistry, RegistryConsistent, NoOrphanChild,
              AnswersTheRequest, ConnectionsOwned, PhaseOK, ProcessesOK, IsActive
<1>7. QED
  BY <1>1, <1>2, <1>3, <1>4, <1>5, <1>6 DEF Next

\* The inductive invariant holds in every reachable state, for any number of
\* apps, workers, processes and requests.
THEOREM Invariance == Spec => []IInv
BY InitIInv, NextIInv, PTL DEF Spec

\* The two records of who serves an app never part.
THEOREM RegistryInStep == Spec => []ActiveMatchesRegistry
<1>1. IInv => ActiveMatchesRegistry
  BY DEF IInv
<1>2. QED
  BY <1>1, Invariance, PTL

\* No process the core has started runs on without it.
THEOREM ChildrenAreKept == Spec => []NoOrphanChild
<1>1. IInv => NoOrphanChild
  BY DEF IInv
<1>2. QED
  BY <1>1, Invariance, PTL

\* A caller gets the answer to its own request.
THEOREM AnswersMatch == Spec => []AnswersTheRequest
<1>1. IInv => AnswersTheRequest
  BY DEF IInv
<1>2. QED
  BY <1>1, Invariance, PTL

\* The core runs at most one process of its own for an app: while one is being
\* started there is no entry, and an entry has one child.
THEOREM OneProcessPerApp == Spec => []OneChildPerApp
<1>1. IInv => OneChildPerApp
  <2> SUFFICES ASSUME IInv, NEW p \in Procs, NEW q \in Procs,
                      spawned[p] # None, spawned[p] = spawned[q],
                      proc[p] = "running", proc[q] = "running"
               PROVE  p = q
    BY DEF OneChildPerApp
  <2>1. /\ \/ active[spawned[p]].child = p
           \/ phase = "starting" /\ peer = p /\ serving = spawned[p]
        /\ \/ active[spawned[p]].child = q
           \/ phase = "starting" /\ peer = q /\ serving = spawned[p]
    BY DEF IInv, NoOrphanChild
  <2>2. CASE phase = "starting" /\ serving = spawned[p]
    <3>1. active[spawned[p]].child = None
      BY <2>2 DEF IInv, PhaseOK, IsActive, NoActive
    <3>2. p # None /\ q # None
      BY ManagerAssumption DEF ManagerAssumption
    <3>3. QED
      BY <2>1, <3>1, <3>2
  <2>3. QED
    BY <2>1, <2>2
<1>2. QED
  BY <1>1, Invariance, PTL

\* What happens to one app's worker is nothing to another's, but for a worker
\* that goes over from one to the other.
THEOREM LossesHaveACause == Spec => LossHasACause
<1> DEFINE Cause(a) ==
      \/ active[a].idle
      \/ serving = a
      \/ \E b \in Apps : active'[b].worker_id = active[a].worker_id
      \/ phase' = "down"
<1>1. IInv /\ [Next]_vars =>
        [\A a \in Apps : IsActive(a) /\ ~IsActive(a)' => Cause(a)]_vars
  <2> SUFFICES ASSUME IInv, Next, NEW a \in Apps, IsActive(a), ~IsActive(a)'
               PROVE  Cause(a)
    BY DEF vars
  <2>1. active'[a] # active[a]
    BY DEF IsActive
  <2>2. ASSUME NEW S \in SUBSET Apps, RemoveActive(S)
        PROVE  a \in S
    BY <2>1, <2>2 DEF RemoveActive, IInv, TypeOK
  <2>3. ASSUME NEW worker \in WorkerIds, NEW app \in Apps, NEW p \in Procs,
               NEW child \in Procs \cup {None}, InsertActiveWorker(worker, app, p, child)
        PROVE  Cause(a)
    <3>1. active'[app].worker_id = worker
      BY <2>3 DEF InsertActiveWorker
    <3>2. a # app
      <4>1. SUFFICES ASSUME a = app PROVE FALSE
        OBVIOUS
      <4>2. active'[a] = [worker_id |-> worker, connection |-> p,
                          child |-> child, idle |-> FALSE]
        BY <2>3, <4>1 DEF InsertActiveWorker
      <4>3. active'[a].worker_id = None
        BY DEF IsActive, NoActive
      <4>4. QED
        BY <4>2, <4>3, RegistryAssumption DEF RegistryAssumption
    <3>3. a \in Ousted(worker, app)
      BY <2>1, <2>3, <3>2 DEF InsertActiveWorker, IInv, TypeOK
    <3>4. workers[worker] = a
      BY <3>2, <3>3 DEF Ousted
    <3>5. active[a].worker_id = worker
      BY <3>4 DEF IInv, ActiveMatchesRegistry, RegistryConsistent
    <3>6. QED
      BY <3>1, <3>5
  <2>4. CASE RegisterOutside
    BY <2>3, <2>4 DEF RegisterOutside, IInv, PhaseOK, TypeOK, Registration
  <2>5. CASE RegisterOutsideFails \/ FrontendFails
    BY <2>5 DEF RegisterOutsideFails, FrontendFails, EndCore
  <2>6. ASSUME NEW p \in Procs, RegisterStarted(p)
        PROVE  Cause(a)
    BY <2>3, <2>6, RegistryAssumption
    DEF RegisterStarted, IInv, PhaseOK, TypeOK, RegistryAssumption
  <2>7. CASE SendDispatchFails \/ ReceiveFails
    BY <2>2, <2>7 DEF SendDispatchFails, ReceiveFails, FailDispatch, IInv, PhaseOK
  <2>8. CASE ReapIdleWorkers
    BY <2>2, <2>8 DEF ReapIdleWorkers, Expired
  <2>9. CASE ReceiveAnswer
    BY <2>9, <2>1 DEF ReceiveAnswer, IInv, TypeOK
  <2>10. ASSUME NEW app \in Apps, Elapse(app)
         PROVE  Cause(a)
    <3>1. a = app /\ active'[a].idle
      BY <2>1, <2>10 DEF Elapse, IInv, TypeOK
    <3>2. QED
      BY <3>1 DEF IsActive, NoActive
  <2>11. QED
    BY <2>1, <2>4, <2>5, <2>6, <2>7, <2>8, <2>9, <2>10
    DEF Next, Process, Core, Appear, Connect, SendRegistration, Answer, SendStray, Die,
        Recycle, Accept, ReadEof, AcceptCandidate, DismissCandidate, RegisterStartedFails,
        AbandonStart, StartTimeout, SendDispatch, StartCore, DispatchWarm, SpawnWorker,
        BecomeIdle, managerVars
<1>2. QED
  BY <1>1, Invariance, PTL DEF Spec, LossHasACause

-----------------------------------------------------------------------------
(* The manager implements the service.                                     *)

\* A registration takes the worker from the app it served and gives it to its
\* new one.
LEMMA InsertMoves ==
    ASSUME IInv, NEW worker \in WorkerIds, NEW app \in Apps, NEW p \in Procs,
           NEW child \in Procs \cup {None}, InsertActiveWorker(worker, app, p, child)
    PROVE  \E former \in Service!Former :
              {a \in Apps : IsActive(a)'} = ({a \in Apps : IsActive(a)} \ former) \cup {app}
<1> DEFINE former == {workers[worker]} \ {None}
<1>1. former \in Service!Former
  <2>1. CASE workers[worker] = None
    BY <2>1 DEF Service!Former
  <2>2. CASE workers[worker] # None
    <3>1. workers[worker] \in Apps /\ active[workers[worker]].worker_id = worker
      BY <2>2 DEF IInv, TypeOK, RegistryTypeOK, ActiveMatchesRegistry, RegistryConsistent
    <3>2. IsActive(workers[worker])
      BY <3>1, RegistryAssumption DEF IsActive, NoActive, RegistryAssumption
    <3>3. former = {workers[worker]}
      BY <2>2
    <3>4. QED
      BY <3>1, <3>2, <3>3 DEF Service!Former
  <2>3. QED
    BY <2>1, <2>2
<1>2. \A a \in Apps : IsActive(a)' <=> (a = app \/ (IsActive(a) /\ a \notin former))
  <2>1. TAKE a \in Apps
  <2>2. CASE a = app
    <3>1. active'[a].worker_id = worker
      BY <2>2 DEF InsertActiveWorker
    <3>2. QED
      BY <2>2, <3>1, RegistryAssumption DEF IsActive, NoActive, RegistryAssumption
  <2>3. CASE a # app /\ a \in former
    BY <2>3 DEF InsertActiveWorker, Ousted, IsActive
  <2>4. CASE a # app /\ a \notin former
    BY <2>4 DEF InsertActiveWorker, Ousted, IsActive
  <2>5. QED
    BY <2>2, <2>3, <2>4
<1>3. QED
  BY <1>1, <1>2

LEMMA RemoveRetires ==
    ASSUME IInv, NEW S \in SUBSET Apps, RemoveActive(S)
    PROVE  {a \in Apps : IsActive(a)'} = {a \in Apps : IsActive(a)} \ S
BY DEF RemoveActive, IsActive, IInv, TypeOK

\* Every step of the manager is a step of the service or none.
LEMMA StepImplements ==
    ASSUME IInv, [Next]_vars
    PROVE  [Service!ServiceNext]_(Service!serviceVars)
<1> DEFINE ready == {a \in Apps : IsActive(a)}
           at == IF phase \in {"starting", "dispatching", "awaiting"} THEN serving ELSE None
<1> USE DEF Service!ServiceNext, Service!serviceVars
<1>1. ASSUME UNCHANGED <<active, phase, serving>>
      PROVE  UNCHANGED Service!serviceVars
  BY <1>1 DEF IsActive, StageOf
<1>2. CASE (\E p \in Procs : Process(p)) \/ AcceptCandidate
           \/ (\E p \in Procs : DismissCandidate(p)) \/ UNCHANGED vars
  BY <1>1, <1>2
  DEF Process, Appear, Connect, SendRegistration, Answer, SendStray, Die, Recycle,
      AcceptCandidate, DismissCandidate, managerVars, vars
<1>3. CASE Accept \/ ReadEof
  BY <1>3 DEF Accept, ReadEof, BecomeIdle, StageOf, IsActive
<1>4. CASE RegisterOutside
  <2>1. hello[peer].worker_id \in WorkerIds /\ hello[peer].app \in Apps /\ peer \in Procs
    BY <1>4 DEF RegisterOutside, IInv, PhaseOK, TypeOK, Registration
  <2>2. PICK former \in Service!Former : ready' = (ready \ former) \cup {hello[peer].app}
    BY <1>4, <2>1, InsertMoves DEF RegisterOutside
  <2>3. Service!Join(hello[peer].app, former)
    BY <1>4, <2>2 DEF RegisterOutside, BecomeIdle, StageOf, Service!Join, Service!Moves
  <2>4. QED
    BY <2>1, <2>3
<1>5. CASE RegisterOutsideFails \/ FrontendFails
  <2>1. ready' = {} /\ StageOf = "free" /\ StageOf' = "down" /\ at' = None
    BY <1>5 DEF RegisterOutsideFails, FrontendFails, EndCore, StageOf, IsActive
  <2>2. QED
    BY <2>1 DEF Service!End
<1>6. CASE StartCore
  <2>1. ready' = ready /\ StageOf = "down" /\ StageOf' = "free" /\ at' = at
    BY <1>6 DEF StartCore, BecomeIdle, StageOf, IsActive
  <2>2. QED
    BY <2>1 DEF Service!Restart
<1>7. ASSUME NEW app \in Apps, DispatchWarm(app) \/ \E p \in Procs : SpawnWorker(app, p)
      PROVE  Service!Begin(app)
  BY <1>7 DEF DispatchWarm, SpawnWorker, StageOf, IsActive, Service!Begin
<1>8. ASSUME NEW app \in Apps, Elapse(app)
      PROVE  UNCHANGED Service!serviceVars
  <2>1. ready' = ready
    BY <1>8 DEF Elapse, IsActive, IInv, TypeOK, ActiveWorker, NoActive
  <2>2. QED
    BY <1>8, <2>1 DEF Elapse, StageOf
<1>9. ASSUME NEW p \in Procs, RegisterStarted(p)
      PROVE  \E former \in Service!Former : Service!Started(former)
  <2>1. serving \in WorkerIds /\ serving \in Apps /\ peer \in Procs
    BY <1>9, RegistryAssumption
    DEF RegisterStarted, IInv, PhaseOK, TypeOK, RegistryAssumption
  <2>2. PICK former \in Service!Former : ready' = (ready \ former) \cup {serving}
    BY <1>9, <2>1, InsertMoves DEF RegisterStarted
  <2>3. Service!Started(former)
    BY <1>9, <2>2 DEF RegisterStarted, StageOf, Service!Started, Service!Moves
  <2>4. QED
    BY <2>3
<1>10. CASE StartTimeout \/ \E p \in Procs : RegisterStartedFails(p)
  <2>1. Service!StartFailed
    BY <1>10 DEF StartTimeout, RegisterStartedFails, AbandonStart, BecomeIdle, StageOf,
                 IsActive, Service!StartFailed, Service!Release
  <2>2. QED
    BY <2>1
<1>11. CASE SendDispatch
  BY <1>11 DEF SendDispatch, StageOf, IsActive
<1>12. CASE SendDispatchFails \/ ReceiveFails
  <2>1. serving \in Apps /\ phase \in {"dispatching", "awaiting"}
    BY <1>12 DEF SendDispatchFails, ReceiveFails, IInv, PhaseOK
  <2>2. ready' = ready \ {serving}
    BY <1>12, <2>1, RemoveRetires DEF SendDispatchFails, ReceiveFails, FailDispatch
  <2>3. Service!CallFailed
    BY <1>12, <2>1, <2>2
    DEF SendDispatchFails, ReceiveFails, FailDispatch, BecomeIdle, StageOf,
        Service!CallFailed, Service!Release
  <2>4. QED
    BY <2>3
<1>13. CASE ReceiveAnswer
  <2>1. ready' = ready
    <3>1. serving \in Apps /\ IsActive(serving)
      BY <1>13 DEF ReceiveAnswer, IInv, PhaseOK
    <3>2. active[serving] \in ActiveWorker
      BY <3>1 DEF IInv, TypeOK, IsActive
    <3>3. active'[serving].worker_id = active[serving].worker_id
      BY <1>13, <3>1, <3>2 DEF ReceiveAnswer, IInv, TypeOK, ActiveWorker
    <3>4. active'[serving] # NoActive
      <4>1. active[serving].worker_id \in WorkerIds
        BY <3>2 DEF ActiveWorker
      <4>2. active'[serving].worker_id # None
        BY <3>3, <4>1, RegistryAssumption DEF RegistryAssumption
      <4>3. QED
        BY <4>2 DEF NoActive
    <3>5. \A a \in Apps \ {serving} : active'[a] = active[a]
      BY <1>13 DEF ReceiveAnswer, IInv, TypeOK
    <3>6. \A a \in Apps : IsActive(a)' <=> IsActive(a)
      BY <3>1, <3>4, <3>5 DEF IsActive
    <3>7. QED
      BY <3>6
  <2>2. Service!CallDone
    BY <1>13, <2>1 DEF ReceiveAnswer, BecomeIdle, StageOf, Service!CallDone, Service!Release
  <2>3. QED
    BY <2>2
<1>14. CASE ReapIdleWorkers
  <2>1. Expired \subseteq ready
    BY DEF Expired, IsActive, NoActive
  <2>2. ready' = ready \ Expired
    BY <1>14, RemoveRetires DEF ReapIdleWorkers, Expired
  <2>3. Service!Retire(Expired)
    BY <1>14, <2>1, <2>2 DEF ReapIdleWorkers, StageOf, Service!Retire
  <2>4. QED
    BY <2>1, <2>3
<1>15. QED
  BY <1>2, <1>3, <1>4, <1>5, <1>6, <1>7, <1>8, <1>9, <1>10, <1>11, <1>12, <1>13, <1>14
  DEF Next, Core

\* The manager keeps what it promises to the rest of the core: with processes,
\* connections, registrations and identifiers hidden it is the worker service.
THEOREM Refinement == Spec => ImplementsService
<1>1. Init => Service!ServiceInit
  BY DEF Init, Service!ServiceInit, IsActive, StageOf
<1>2. IInv /\ [Next]_vars => [Service!ServiceNext]_(Service!serviceVars)
  BY StepImplements
<1>3. QED
  BY <1>1, <1>2, Invariance, PTL DEF Spec, ImplementsService, Service!ServiceSpec
=============================================================================
