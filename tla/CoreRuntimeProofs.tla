-------------------------- MODULE CoreRuntimeProofs --------------------------
(***************************************************************************)
(* Safety of the core's event loop, for every set of clients, apps,        *)
(* methods and manifests, and any number of frames per client.             *)
(***************************************************************************)
EXTENDS CoreRuntime, TLAPS

-----------------------------------------------------------------------------
(* Parts of the invariant that a step leaves alone. *)

\* What was admitted, called and told is a matter of four variables.
LEMMA AnswersKept ==
    ASSUME CallsAreAudited, RepliesMatchTheAudit,
           UNCHANGED <<request, audit, called, reply>>
    PROVE  CallsAreAudited' /\ RepliesMatchTheAudit'
BY DEF CallsAreAudited, RepliesMatchTheAudit, Admitted

\* The worker service, and who it works for.
LEMMA WorkKept ==
    ASSUME WorkIsForTheServed, UNCHANGED <<stage, app, phase, serving>>,
           UNCHANGED <<request, audit, called, reply>>
    PROVE  WorkIsForTheServed'
BY DEF WorkIsForTheServed, Admitted

LEMMA BacklogKept ==
    ASSUME BacklogOK, UNCHANGED backlog,
           \A c \in Clients : conn[c] = "queued" => conn'[c] = "queued",
           backlog \in Seq(Clients)
    PROVE  BacklogOK'
<1>1. \A i \in DOMAIN backlog : backlog[i] \in Clients
  OBVIOUS
<1>2. QED
  BY <1>1 DEF BacklogOK

LEMMA CloseType ==
    ASSUME TypeOK, NEW S \in SUBSET Clients, Close(S)
    PROVE  /\ conn' \in [Clients -> {"none", "queued", "candidate", "held", "closed"}]
           /\ \A c \in Clients : conn'[c] = IF c \in S THEN "closed" ELSE conn[c]
BY DEF Close, TypeOK

LEMMA InitIInv == Init => IInv
<1> SUFFICES ASSUME Init PROVE IInv
  OBVIOUS
<1> USE DEF Init, ServiceInit
<1>1. TypeOK
  BY DEF TypeOK, ServiceTypeOK
<1>2. CallsAreAudited /\ RepliesMatchTheAudit
  BY NoneAssumption DEF CallsAreAudited, RepliesMatchTheAudit, Reply, Clients
<1>3. WorkIsForTheServed /\ BacklogOK /\ ConnectionsOK
  BY RuntimeAssumption
  DEF WorkIsForTheServed, BacklogOK, ConnectionsOK, Candidates, InHand, RuntimeAssumption
<1>4. QED
  BY <1>1, <1>2, <1>3 DEF IInv

-----------------------------------------------------------------------------
(* The clients. *)

LEMMA ConnectStep ==
    ASSUME IInv, NEW c \in Clients, Connect(c)
    PROVE  IInv'
<1> USE DEF IInv, Connect, serviceVars, frameVars
<1>1. /\ conn'[c] = "queued"
      /\ \A d \in Clients \ {c} : conn'[d] = conn[d]
      /\ conn' \in [Clients -> {"none", "queued", "candidate", "held", "closed"}]
  BY DEF TypeOK
<1>2. TypeOK'
  BY <1>1 DEF TypeOK, ServiceTypeOK
<1>3. BacklogOK'
  <2>1. /\ DOMAIN backlog' = 1..(Len(backlog) + 1)
        /\ DOMAIN backlog = 1..Len(backlog)
        /\ Len(backlog) \in Nat
        /\ backlog'[Len(backlog) + 1] = c
        /\ \A i \in DOMAIN backlog : backlog'[i] = backlog[i] /\ backlog[i] \in Clients
    BY DEF TypeOK
  <2>2. \A i \in DOMAIN backlog : backlog[i] # c /\ conn[backlog[i]] = "queued"
    BY DEF BacklogOK
  <2>3. \A i \in DOMAIN backlog' : conn'[backlog'[i]] = "queued"
    BY <1>1, <2>1, <2>2
  <2>4. \A i, j \in DOMAIN backlog' : backlog'[i] = backlog'[j] => i = j
    BY <2>1, <2>2 DEF BacklogOK
  <2>5. QED
    BY <2>3, <2>4 DEF BacklogOK
<1>4. ConnectionsOK'
  BY <1>1 DEF ConnectionsOK, Candidates, InHand
<1>5. QED
  BY <1>2, <1>3, <1>4, AnswersKept, WorkKept

LEMMA SendStep ==
    ASSUME IInv, NEW c \in Clients, Send(c) \/ HangUp(c)
    PROVE  IInv'
<1> USE DEF IInv, Send, HangUp, serviceVars, frameVars
<1>1. TypeOK'
  <2>1. CASE Send(c)
    BY <2>1 DEF TypeOK, ServiceTypeOK
  <2>2. CASE HangUp(c)
    BY <2>2 DEF TypeOK, ServiceTypeOK
  <2>3. QED
    BY <2>1, <2>2
<1>2. \A d \in Clients : sent'[d] >= sent[d]
  <2>1. sent \in [Clients -> Nat]
    BY DEF TypeOK
  <2>2. CASE sent' = [sent EXCEPT ![c] = @ + 1]
    BY <2>1, <2>2
  <2>3. CASE sent' = sent
    BY <2>1, <2>3
  <2>4. QED
    BY <2>2, <2>3
<1>3. ConnectionsOK'
  BY <1>1, <1>2 DEF ConnectionsOK, Candidates, InHand, TypeOK
<1>4. BacklogOK'
  BY DEF BacklogOK
<1>5. QED
  BY <1>1, <1>3, <1>4, AnswersKept, WorkKept

\* The connection at the head of the backlog is taken from it.
LEMMA TakeHead ==
    ASSUME IInv, backlog # <<>>, backlog' = Tail(backlog),
           NEW s \in {"candidate", "held"},
           conn' = [conn EXCEPT ![Head(backlog)] = s]
    PROVE  /\ Head(backlog) \in Clients
           /\ conn[Head(backlog)] = "queued"
           /\ conn'[Head(backlog)] = s
           /\ \A d \in Clients \ {Head(backlog)} : conn'[d] = conn[d]
           /\ conn' \in [Clients -> {"none", "queued", "candidate", "held", "closed"}]
           /\ backlog' \in Seq(Clients)
           /\ BacklogOK'
<1> DEFINE h == Head(backlog)
<1>1. /\ backlog \in Seq(Clients)
      /\ Len(backlog) \in Nat /\ Len(backlog) > 0
      /\ DOMAIN backlog = 1..Len(backlog)
      /\ h = backlog[1] /\ h \in Clients
      /\ backlog' \in Seq(Clients)
      /\ DOMAIN backlog' = 1..(Len(backlog) - 1)
      /\ \A i \in DOMAIN backlog' : backlog'[i] = backlog[i + 1]
  BY DEF IInv, TypeOK
<1>2. \A i \in DOMAIN backlog' : i \in Nat /\ i + 1 \in DOMAIN backlog /\ i + 1 # 1
  BY <1>1
<1>3. \A i \in DOMAIN backlog' : conn[backlog[i + 1]] = "queued" /\ backlog[i + 1] # h
  <2>1. 1 \in DOMAIN backlog
    BY <1>1
  <2>2. QED
    BY <1>1, <1>2, <2>1 DEF IInv, BacklogOK
<1>4. /\ conn[h] = "queued"
      /\ conn'[h] = s
      /\ \A d \in Clients \ {h} : conn'[d] = conn[d]
      /\ conn' \in [Clients -> {"none", "queued", "candidate", "held", "closed"}]
  BY <1>1 DEF IInv, BacklogOK, TypeOK
<1>5. \A i \in DOMAIN backlog' : conn'[backlog'[i]] = "queued"
  <2>1. \A i \in DOMAIN backlog' : backlog'[i] \in Clients \ {h}
    BY <1>1, <1>2, <1>3
  <2>2. QED
    BY <1>1, <1>3, <1>4, <2>1
<1>6. \A i, j \in DOMAIN backlog' : backlog'[i] = backlog'[j] => i = j
  <2>1. SUFFICES ASSUME NEW i \in DOMAIN backlog', NEW j \in DOMAIN backlog',
                        backlog'[i] = backlog'[j]
                 PROVE  i = j
    OBVIOUS
  <2>2. i + 1 = j + 1
    BY <1>1, <1>2, <2>1 DEF IInv, BacklogOK
  <2>3. QED
    BY <1>2, <2>2
<1>7. QED
  BY <1>1, <1>4, <1>5, <1>6 DEF BacklogOK

-----------------------------------------------------------------------------
(* The event loop. *)

LEMMA AcceptStep ==
    ASSUME IInv, Accept
    PROVE  IInv'
<1> USE DEF Accept, serviceVars, frameVars
<1>1. /\ Head(backlog) \in Clients
      /\ conn[Head(backlog)] = "queued"
      /\ conn'[Head(backlog)] = "held"
      /\ \A d \in Clients \ {Head(backlog)} : conn'[d] = conn[d]
      /\ conn' \in [Clients -> {"none", "queued", "candidate", "held", "closed"}]
      /\ backlog' \in Seq(Clients)
      /\ BacklogOK'
  BY TakeHead
<1>2. TypeOK'
  BY <1>1 DEF IInv, TypeOK, ServiceTypeOK
<1>3. ConnectionsOK'
  BY <1>1, RuntimeAssumption
  DEF IInv, ConnectionsOK, Candidates, InHand, RuntimeAssumption
<1>4. WorkIsForTheServed'
  BY DEF IInv, WorkIsForTheServed
<1>5. QED
  BY <1>1, <1>2, <1>3, <1>4, AnswersKept DEF IInv

LEMMA AcceptCandidateStep ==
    ASSUME IInv, AcceptCandidate
    PROVE  IInv'
<1> USE DEF AcceptCandidate, serviceVars, frameVars
<1>1. /\ Head(backlog) \in Clients
      /\ conn[Head(backlog)] = "queued"
      /\ conn'[Head(backlog)] = "candidate"
      /\ \A d \in Clients \ {Head(backlog)} : conn'[d] = conn[d]
      /\ conn' \in [Clients -> {"none", "queued", "candidate", "held", "closed"}]
      /\ backlog' \in Seq(Clients)
      /\ BacklogOK'
  BY TakeHead
<1>2. TypeOK'
  BY <1>1 DEF IInv, TypeOK, ServiceTypeOK
<1>3. ConnectionsOK'
  BY <1>1 DEF IInv, ConnectionsOK, Candidates, InHand
<1>4. QED
  BY <1>1, <1>2, <1>3, AnswersKept, WorkKept DEF IInv

LEMMA SeeHangUpStep ==
    ASSUME IInv, SeeHangUp
    PROVE  IInv'
<1> USE DEF IInv, SeeHangUp, Leave, serviceVars, frameVars
<1>1. serving \in Clients /\ conn[serving] = "held"
  BY DEF TypeOK, ConnectionsOK
<1>2. /\ conn' \in [Clients -> {"none", "queued", "candidate", "held", "closed"}]
      /\ \A c \in Clients : conn'[c] = IF c = serving THEN "closed" ELSE conn[c]
  BY <1>1, CloseType
<1>3. TypeOK'
  BY <1>2 DEF TypeOK, ServiceTypeOK
<1>4. BacklogOK'
  BY <1>1, <1>2, BacklogKept DEF TypeOK
<1>5. ConnectionsOK'
  BY <1>1, <1>2, RuntimeAssumption
  DEF ConnectionsOK, Candidates, InHand, RuntimeAssumption
<1>6. WorkIsForTheServed'
  BY DEF WorkIsForTheServed
<1>7. QED
  BY <1>3, <1>4, <1>5, <1>6, AnswersKept

\* The end of the core, in the loop or over a connection.
LEMMA EndCoreKeeps ==
    ASSUME IInv, EndCore, taken' \in [Clients -> Nat], UNCHANGED answered,
           \A c \in Clients : conn[c] = "none" => taken'[c] = taken[c],
           \A c \in Clients : taken'[c] <= sent[c]
    PROVE  WorkIsForTheServed' /\ BacklogOK' /\ ConnectionsOK'
<1> USE DEF EndCore, End
<1>1. /\ conn' \in [Clients -> {"none", "queued", "candidate", "held", "closed"}]
      /\ \A c \in Clients : conn'[c] = IF conn[c] # "none" THEN "closed" ELSE "none"
  BY CloseType DEF IInv
<1>2. WorkIsForTheServed'
  BY DEF WorkIsForTheServed
<1>3. BacklogOK'
  BY DEF BacklogOK
<1>4. ConnectionsOK'
  <2>1. \A c \in Clients : conn[c] = "none" => taken[c] = answered[c]
    <3>1. \A c \in Clients : answered[c] \in Nat
      BY DEF IInv, TypeOK
    <3>2. \A c \in Clients : conn[c] = "none" => c # serving
      BY DEF IInv, ConnectionsOK
    <3>3. QED
      BY <3>1, <3>2 DEF IInv, ConnectionsOK, InHand
  <2>2. \A c \in Clients :
           /\ taken'[c] <= sent'[c]
           /\ conn'[c] = "closed" \/ taken'[c] = answered'[c]
    BY <1>1, <2>1
  <2>3. \A c \in Clients : answered'[c] \in Nat
    BY DEF IInv, TypeOK
  <2>4. \A c \in Clients : ~InHand(c)'
    BY DEF InHand
  <2>5. QED
    BY <1>1, <2>2, <2>3, <2>4, RuntimeAssumption
    DEF ConnectionsOK, Candidates, RuntimeAssumption
<1>5. QED
  BY <1>2, <1>3, <1>4

\* An error leaves the record of the requests as it was.
LEMMA EndCoreStep ==
    ASSUME IInv, WorkerJoinFails \/ ReadFails \/ SendReplyFails
    PROVE  IInv'
<1> USE DEF WorkerJoinFails, ReadFails, SendReplyFails, frameVars
<1>1. EndCore
  OBVIOUS
<1>2. TypeOK'
  BY <1>1, CloseType DEF EndCore, End, IInv, TypeOK, ServiceTypeOK
<1>3. WorkIsForTheServed' /\ BacklogOK' /\ ConnectionsOK'
  BY <1>1, EndCoreKeeps DEF IInv, TypeOK, ConnectionsOK
<1>4. QED
  BY <1>2, <1>3, AnswersKept DEF IInv

\* A step of the workers, or a restart, that touches no client.
LEMMA ServiceStep ==
    ASSUME IInv, WorkerJoins \/ ReapIdleWorkers \/ StartCore
    PROVE  IInv'
<1> USE DEF IInv, WorkerJoins, ReapIdleWorkers, StartCore, Join, Retire, Restart, Moves,
            Leave, connVars, frameVars
<1>1. TypeOK'
  BY DEF TypeOK, ServiceTypeOK, Former
<1>2. BacklogOK'
  BY DEF BacklogOK
<1>3. ConnectionsOK'
  BY RuntimeAssumption DEF ConnectionsOK, Candidates, InHand, RuntimeAssumption
<1>4. WorkIsForTheServed'
  BY DEF WorkIsForTheServed, Admitted
<1>5. QED
  BY <1>1, <1>2, <1>3, <1>4, AnswersKept

-----------------------------------------------------------------------------
(* The frames of the connection served. *)

\* The frame comes from the connection held, whose requests were all answered.
LEMMA TakeFacts ==
    ASSUME IInv, NEW c \in Clients, NEW r \in Request, NEW row \in Row \cup {None},
           NEW call \in BOOLEAN, Take(c, r, row, call)
    PROVE  /\ taken' \in [Clients -> Nat]
           /\ request' \in [Clients -> Request \cup {None}]
           /\ audit' \in [Clients -> Row \cup {None}]
           /\ called' \in [Clients -> BOOLEAN]
           /\ conn[c] = "held"
           /\ taken[c] = answered[c] /\ taken'[c] = taken[c] + 1 /\ taken'[c] <= sent[c]
           /\ request'[c] = r /\ audit'[c] = row /\ called'[c] = call
           /\ \A d \in Clients \ {c} :
                 /\ taken'[d] = taken[d]
                 /\ request'[d] = request[d]
                 /\ audit'[d] = audit[d]
                 /\ called'[d] = called[d]
<1> USE DEF IInv, Take
<1>1. conn[c] = "held" /\ ~InHand(c)
  BY DEF ConnectionsOK, InHand
<1>2. taken[c] \in Nat /\ answered[c] \in Nat /\ sent[c] \in Nat
  BY DEF TypeOK
<1>3. taken[c] = answered[c] /\ taken[c] < sent[c]
  BY <1>1, <1>2 DEF ConnectionsOK
<1>4. QED
  BY <1>1, <1>2, <1>3 DEF TypeOK

\* A request answered on the spot: the answer and the row have to agree.
LEMMA AnswerNow ==
    ASSUME IInv, NEW c \in Clients, NEW r \in Request, NEW row \in Row \cup {None},
           NEW answer \in Reply, Take(c, r, row, FALSE), Respond(c, answer),
           UNCHANGED <<serviceVars, connVars, answered>>,
           answer \in {"app_not_found", "permission_denied"} =>
               row \in Row /\ row.reason = answer,
           answer \in {"done", "invalid_request", "core_error"} => row = None,
           answer \notin {"result", "worker_error"}
    PROVE  IInv'
<1> USE DEF serviceVars, connVars, Respond
<1>1. /\ taken' \in [Clients -> Nat]
      /\ request' \in [Clients -> Request \cup {None}]
      /\ audit' \in [Clients -> Row \cup {None}]
      /\ called' \in [Clients -> BOOLEAN]
      /\ conn[c] = "held"
      /\ taken[c] = answered[c] /\ taken'[c] = taken[c] + 1 /\ taken'[c] <= sent[c]
      /\ request'[c] = r /\ audit'[c] = row /\ called'[c] = FALSE
      /\ \A d \in Clients \ {c} :
            /\ taken'[d] = taken[d]
            /\ request'[d] = request[d]
            /\ audit'[d] = audit[d]
            /\ called'[d] = called[d]
  BY TakeFacts
<1>2. /\ reply' \in [Clients -> Reply \cup {None}]
      /\ reply'[c] = answer
      /\ \A d \in Clients \ {c} : reply'[d] = reply[d]
  BY DEF IInv, TypeOK
<1>3. TypeOK'
  BY <1>1, <1>2 DEF IInv, TypeOK, ServiceTypeOK
<1>4. CallsAreAudited'
  BY <1>1 DEF IInv, CallsAreAudited, Admitted
<1>5. RepliesMatchTheAudit'
  BY <1>1, <1>2 DEF IInv, RepliesMatchTheAudit, Clients
<1>6. WorkIsForTheServed'
  BY DEF IInv, WorkIsForTheServed, Take
<1>7. BacklogOK'
  BY DEF IInv, BacklogOK
<1>8. ConnectionsOK'
  <2>1. c = serving /\ phase \in {"first", "session"}
    BY DEF Take
  <2>2. \A d \in Clients \ {c} :
           InHand(d)' = FALSE /\ InHand(d) = FALSE /\ taken'[d] = taken[d]
    BY <1>1, <2>1 DEF InHand
  <2>3. InHand(c)'
    BY <2>1 DEF InHand
  <2>4. QED
    BY <1>1, <2>1, <2>2, <2>3 DEF IInv, ConnectionsOK, Candidates, TypeOK
<1>9. QED
  BY <1>3, <1>4, <1>5, <1>6, <1>7, <1>8 DEF IInv

LEMMA HandleNowStep ==
    ASSUME IInv, NEW c \in Clients,
           HandleControl(c) \/ HandleCapability(c) \/ HandleIncomplete(c)
    PROVE  IInv'
<1>1. {Control, Capability, Incomplete} \subseteq Request
  BY DEF Request
<1>2. CASE HandleControl(c)
  BY <1>1, <1>2, AnswerNow DEF HandleControl, Reply
<1>3. CASE HandleCapability(c)
  BY <1>1, <1>3, AnswerNow DEF HandleCapability, Reply
<1>4. CASE HandleIncomplete(c)
  BY <1>1, <1>4, AnswerNow DEF HandleIncomplete, Reply
<1>5. QED
  BY <1>2, <1>3, <1>4

\* The row of a request bears the decision on it.
LEMMA RowFacts ==
    ASSUME NEW r \in Dispatch
    PROVE  /\ RowFor(r) \in Row
           /\ RowFor(r).app = r.app
           /\ RowFor(r).method = r.method
           /\ RowFor(r).reason = Decision(r)
           /\ Decision(r) \in {"allowed", "app_not_found", "permission_denied"}
           /\ r \in Request
BY DEF RowFor, Row, Dispatch, Decision, Request

LEMMA RefuseStep ==
    ASSUME IInv, NEW c \in Clients, NEW r \in Dispatch, AuditFails(c, r) \/ Refuse(c, r)
    PROVE  IInv'
<1>1. CASE AuditFails(c, r)
  BY <1>1, AnswerNow, RowFacts DEF AuditFails, Reply
<1>2. CASE Refuse(c, r)
  <2>1. Decision(r) \in {"app_not_found", "permission_denied"}
    BY <1>2, RowFacts DEF Refuse
  <2>2. QED
    BY <1>2, <2>1, AnswerNow, RowFacts DEF Refuse, Reply
<1>3. QED
  BY <1>1, <1>2

LEMMA BeginDispatchStep ==
    ASSUME IInv, NEW c \in Clients, NEW r \in Dispatch, BeginDispatch(c, r)
    PROVE  IInv'
<1> DEFINE call == r.app \in ready
<1>0. /\ Take(c, r, RowFor(r), call)
      /\ call \in BOOLEAN
      /\ r \in Request
      /\ RowFor(r) \in Row \cup {None}
  BY RowFacts DEF BeginDispatch
<1>1. /\ taken' \in [Clients -> Nat]
      /\ request' \in [Clients -> Request \cup {None}]
      /\ audit' \in [Clients -> Row \cup {None}]
      /\ called' \in [Clients -> BOOLEAN]
      /\ conn[c] = "held"
      /\ taken[c] = answered[c] /\ taken'[c] = taken[c] + 1 /\ taken'[c] <= sent[c]
      /\ request'[c] = r /\ audit'[c] = RowFor(r) /\ called'[c] = call
      /\ \A d \in Clients \ {c} :
            /\ taken'[d] = taken[d]
            /\ request'[d] = request[d]
            /\ audit'[d] = audit[d]
            /\ called'[d] = called[d]
  <2> HIDE DEF call
  <2>1. QED
    BY <1>0, TakeFacts
<1> USE DEF BeginDispatch, Begin, connVars
<1>2. /\ reply' \in [Clients -> Reply \cup {None}]
      /\ reply'[c] = None
      /\ \A d \in Clients \ {c} : reply'[d] = reply[d]
  BY DEF IInv, TypeOK
<1>3. r.app \in Apps /\ Admitted(c)'
  BY <1>1, RowFacts DEF Admitted, RowFor, Dispatch
<1>4. TypeOK'
  BY <1>1, <1>2, <1>3 DEF IInv, TypeOK, ServiceTypeOK
<1>5. CallsAreAudited'
  BY <1>1, <1>3 DEF IInv, CallsAreAudited, Admitted
<1>6. RepliesMatchTheAudit'
  BY <1>1, <1>2, NoneAssumption DEF IInv, RepliesMatchTheAudit, Clients, Reply
<1>7. c = serving /\ phase \in {"first", "session"}
  BY DEF Take
<1>8. WorkIsForTheServed'
  BY <1>1, <1>2, <1>3, <1>7 DEF WorkIsForTheServed
<1>9. BacklogOK'
  BY DEF IInv, BacklogOK
<1>10. ConnectionsOK'
  <2>1. \A d \in Clients \ {c} :
           InHand(d)' = FALSE /\ InHand(d) = FALSE /\ taken'[d] = taken[d]
    BY <1>1, <1>7 DEF InHand
  <2>2. InHand(c)'
    BY <1>7 DEF InHand
  <2>3. QED
    BY <1>1, <1>7, <2>1, <2>2 DEF IInv, ConnectionsOK, Candidates, TypeOK
<1>11. QED
  BY <1>4, <1>5, <1>6, <1>8, <1>9, <1>10 DEF IInv

LEMMA HandleGarbageStep ==
    ASSUME IInv, NEW c \in Clients, HandleGarbage(c)
    PROVE  IInv'
<1> USE DEF HandleGarbage
<1>1. Garbage \in Request /\ EndCore
  BY DEF Request
<1>2. /\ taken' \in [Clients -> Nat]
      /\ request' \in [Clients -> Request \cup {None}]
      /\ audit' \in [Clients -> Row \cup {None}]
      /\ called' \in [Clients -> BOOLEAN]
      /\ conn[c] = "held"
      /\ taken[c] = answered[c] /\ taken'[c] = taken[c] + 1 /\ taken'[c] <= sent[c]
      /\ request'[c] = Garbage /\ audit'[c] = None /\ called'[c] = FALSE
      /\ \A d \in Clients \ {c} :
            /\ taken'[d] = taken[d]
            /\ request'[d] = request[d]
            /\ audit'[d] = audit[d]
            /\ called'[d] = called[d]
  BY <1>1, TakeFacts
<1>3. /\ reply' \in [Clients -> Reply \cup {None}]
      /\ reply'[c] = None
      /\ \A d \in Clients \ {c} : reply'[d] = reply[d]
  BY DEF IInv, TypeOK
<1>4. TypeOK'
  <2>1. /\ conn' \in [Clients -> {"none", "queued", "candidate", "held", "closed"}]
        /\ ServiceTypeOK'
    BY <1>1, CloseType DEF EndCore, End, IInv, ServiceTypeOK
  <2>2. QED
    BY <1>1, <1>2, <1>3, <2>1 DEF EndCore, IInv, TypeOK
<1>5. CallsAreAudited'
  BY <1>2 DEF IInv, CallsAreAudited, Admitted
<1>6. RepliesMatchTheAudit'
  BY <1>2, <1>3, NoneAssumption DEF IInv, RepliesMatchTheAudit, Clients, Reply
<1>7. WorkIsForTheServed' /\ BacklogOK' /\ ConnectionsOK'
  <2>1. \A d \in Clients : taken'[d] <= sent[d]
    BY <1>2 DEF IInv, ConnectionsOK
  <2>2. QED
    BY <1>1, <1>2, <2>1, EndCoreKeeps
<1>8. QED
  BY <1>4, <1>5, <1>6, <1>7 DEF IInv

\* The answer is written: a capability connection closes, a session goes on.
LEMMA SendReplyStep ==
    ASSUME IInv, SendReply
    PROVE  IInv'
<1> USE DEF SendReply, serviceVars
<1>1. /\ serving \in Clients /\ InHand(serving) /\ conn[serving] = "held"
      /\ \A d \in Clients \ {serving} : ~InHand(d)
  BY DEF IInv, TypeOK, ConnectionsOK, InHand
<1>2. /\ answered' \in [Clients -> Nat]
      /\ answered'[serving] = answered[serving] + 1
      /\ \A d \in Clients \ {serving} : answered'[d] = answered[d]
      /\ \A d \in Clients : taken[d] \in Nat /\ answered[d] \in Nat
  BY <1>1 DEF IInv, TypeOK
<1>3. \/ /\ phase' = "loop" /\ serving' = None
         /\ conn' \in [Clients -> {"none", "queued", "candidate", "held", "closed"}]
         /\ \A c \in Clients : conn'[c] = IF c = serving THEN "closed" ELSE conn[c]
      \/ phase' = "session" /\ serving' = serving /\ conn' = conn
  BY <1>1, CloseType DEF IInv, Leave
<1>4. TypeOK'
  BY <1>1, <1>2, <1>3 DEF IInv, TypeOK, ServiceTypeOK
<1>5. BacklogOK'
  BY <1>1, <1>3, BacklogKept DEF IInv, TypeOK
<1>6. ConnectionsOK'
  <2>1. taken[serving] = answered[serving] + 1 \/ conn[serving] = "closed"
    BY <1>1, <1>2 DEF IInv, ConnectionsOK
  <2>2. \A d \in Clients \ {serving} : conn[d] = "closed" \/ taken[d] = answered[d]
    BY <1>1, <1>2 DEF IInv, ConnectionsOK
  <2>3. \A d \in Clients : InHand(d)' = FALSE
    BY <1>3 DEF InHand
  <2>4. \A d \in Clients :
           /\ taken'[d] <= sent'[d]
           /\ conn'[d] = "closed" \/ taken'[d] = answered'[d] + (IF InHand(d)' THEN 1 ELSE 0)
    BY <1>1, <1>2, <1>3, <2>1, <2>2, <2>3 DEF IInv, ConnectionsOK
  <2>5. QED
    BY <1>1, <1>3, <2>4, RuntimeAssumption
    DEF IInv, ConnectionsOK, Candidates, RuntimeAssumption
<1>7. WorkIsForTheServed'
  BY <1>3 DEF IInv, WorkIsForTheServed
<1>8. QED
  BY <1>4, <1>5, <1>6, <1>7, AnswersKept DEF IInv

-----------------------------------------------------------------------------
(* Starting and calling a worker. *)

LEMMA DismissCandidateStep ==
    ASSUME IInv, NEW c \in Clients, DismissCandidate(c)
    PROVE  IInv'
<1> USE DEF DismissCandidate, serviceVars, frameVars
<1>1. conn[c] = "candidate"
  BY DEF Candidates
<1>2. /\ conn' \in [Clients -> {"none", "queued", "candidate", "held", "closed"}]
      /\ \A d \in Clients : conn'[d] = IF d = c THEN "closed" ELSE conn[d]
  BY CloseType DEF IInv
<1>3. TypeOK'
  BY <1>2 DEF IInv, TypeOK, ServiceTypeOK
<1>4. BacklogOK'
  BY <1>1, <1>2, BacklogKept DEF IInv, TypeOK
<1>5. ConnectionsOK'
  BY <1>1, <1>2 DEF IInv, ConnectionsOK, Candidates, InHand
<1>6. QED
  BY <1>3, <1>4, <1>5, AnswersKept, WorkKept DEF IInv

\* Nobody is a candidate once the start is over.
LEMMA StartIsOver ==
    ASSUME IInv, Close(Candidates), stage = "starting", stage' \in {"free", "calling"},
           phase' \in {"replying", "working"}, UNCHANGED <<serving, backlog, taken, sent, answered>>
    PROVE  /\ conn' \in [Clients -> {"none", "queued", "candidate", "held", "closed"}]
           /\ BacklogOK'
           /\ ConnectionsOK'
<1>1. /\ conn' \in [Clients -> {"none", "queued", "candidate", "held", "closed"}]
      /\ \A c \in Clients : conn'[c] = IF conn[c] = "candidate" THEN "closed" ELSE conn[c]
  BY CloseType DEF IInv, Candidates
<1>2. BacklogOK'
  BY <1>1, BacklogKept DEF IInv, TypeOK
<1>3. phase = "working"
  BY DEF IInv, WorkIsForTheServed
<1>4. \A c \in Clients : InHand(c)' = InHand(c)
  BY <1>3 DEF InHand
<1>5. ConnectionsOK'
  BY <1>1, <1>3, <1>4 DEF IInv, ConnectionsOK, Candidates
<1>6. QED
  BY <1>1, <1>2, <1>5

LEMMA WorkerStartedStep ==
    ASSUME IInv, WorkerStarted
    PROVE  IInv'
<1> USE DEF WorkerStarted, Started, Moves
<1>1. /\ conn' \in [Clients -> {"none", "queued", "candidate", "held", "closed"}]
      /\ BacklogOK' /\ ConnectionsOK'
      /\ phase = "working"
  BY StartIsOver DEF IInv, WorkIsForTheServed
<1>2. /\ serving \in Frontends /\ serving \in Clients
      /\ Admitted(serving) /\ reply[serving] = None
  BY <1>1 DEF IInv, WorkIsForTheServed, Clients
<1>3. /\ called' \in [Clients -> BOOLEAN]
      /\ called'[serving] = TRUE
      /\ \A d \in Clients \ {serving} : called'[d] = called[d]
  BY <1>2 DEF IInv, TypeOK
<1>4. app \in Apps
  BY <1>1, <1>2 DEF IInv, WorkIsForTheServed, Admitted, Dispatch
<1>5. TypeOK'
  BY <1>1, <1>3, <1>4 DEF IInv, TypeOK, ServiceTypeOK, Former
<1>6. CallsAreAudited'
  BY <1>2, <1>3 DEF IInv, CallsAreAudited, Admitted
<1>7. RepliesMatchTheAudit'
  BY <1>2, <1>3, NoneAssumption DEF IInv, RepliesMatchTheAudit, Clients, Reply
<1>8. WorkIsForTheServed'
  BY <1>1, <1>2, <1>3 DEF IInv, WorkIsForTheServed, Admitted
<1>9. QED
  BY <1>1, <1>5, <1>6, <1>7, <1>8 DEF IInv

\* A start or a call that ends is answered for.
LEMMA EndOfWork ==
    ASSUME IInv, phase = "working", NEW answer \in {"result", "worker_error"},
           answer = "result" => called[serving],
           Respond(serving, answer), Release, UNCHANGED <<request, audit, called>>
    PROVE  /\ reply' \in [Clients -> Reply \cup {None}]
           /\ CallsAreAudited'
           /\ RepliesMatchTheAudit'
           /\ WorkIsForTheServed'
<1> USE DEF Respond, Release
<1>1. serving \in Clients /\ Admitted(serving)
  BY DEF IInv, WorkIsForTheServed, Clients
<1>2. /\ reply' \in [Clients -> Reply \cup {None}]
      /\ reply'[serving] = answer
      /\ \A d \in Clients \ {serving} : reply'[d] = reply[d]
  BY <1>1 DEF IInv, TypeOK, Reply
<1>3. CallsAreAudited'
  BY DEF IInv, CallsAreAudited, Admitted
<1>4. RepliesMatchTheAudit'
  <2>1. audit[serving] \in Row /\ audit[serving].reason = "allowed"
    BY <1>1 DEF Admitted, Row, Dispatch
  <2>2. QED
    BY <1>1, <1>2, <2>1 DEF IInv, RepliesMatchTheAudit, Clients
<1>5. WorkIsForTheServed'
  BY DEF WorkIsForTheServed
<1>6. QED
  BY <1>2, <1>3, <1>4, <1>5

LEMMA WorkerStartFailsStep ==
    ASSUME IInv, WorkerStartFails
    PROVE  IInv'
<1> USE DEF WorkerStartFails, StartFailed
<1>1. phase = "working"
  BY DEF IInv, WorkIsForTheServed
<1>2. /\ conn' \in [Clients -> {"none", "queued", "candidate", "held", "closed"}]
      /\ BacklogOK' /\ ConnectionsOK'
  BY StartIsOver DEF Respond, Release
<1>3. /\ reply' \in [Clients -> Reply \cup {None}]
      /\ CallsAreAudited' /\ RepliesMatchTheAudit' /\ WorkIsForTheServed'
  BY <1>1, EndOfWork
<1>4. TypeOK'
  BY <1>2, <1>3 DEF IInv, TypeOK, ServiceTypeOK, Respond, Release
<1>5. QED
  BY <1>2, <1>3, <1>4 DEF IInv

LEMMA CallEndsStep ==
    ASSUME IInv, WorkerAnswers \/ WorkerFails
    PROVE  IInv'
<1> USE DEF WorkerAnswers, WorkerFails, CallDone, CallFailed, connVars
<1>1. phase = "working" /\ called[serving]
  BY DEF IInv, WorkIsForTheServed
<1>2. /\ reply' \in [Clients -> Reply \cup {None}]
      /\ CallsAreAudited' /\ RepliesMatchTheAudit' /\ WorkIsForTheServed'
  BY <1>1, EndOfWork
<1>3. TypeOK'
  BY <1>2 DEF IInv, TypeOK, ServiceTypeOK, Respond, Release
<1>4. BacklogOK'
  BY DEF IInv, BacklogOK
<1>5. ConnectionsOK'
  <2>1. \A c \in Clients : InHand(c)' = InHand(c)
    BY <1>1 DEF InHand, Respond
  <2>2. QED
    BY <1>1, <2>1 DEF IInv, ConnectionsOK, Candidates, Respond, Release
<1>6. QED
  BY <1>2, <1>3, <1>4, <1>5 DEF IInv

-----------------------------------------------------------------------------
(* The invariant and what follows from it. *)

LEMMA HandleFrameStep ==
    ASSUME IInv, NEW c \in Clients, HandleFrame(c)
    PROVE  IInv'
BY HandleNowStep, HandleGarbageStep, RefuseStep, BeginDispatchStep DEF HandleFrame

LEMMA NextIInv == IInv /\ [Next]_vars => IInv'
<1> SUFFICES ASSUME IInv, [Next]_vars PROVE IInv'
  OBVIOUS
<1>1. ASSUME NEW c \in Clients, Client(c)
      PROVE  IInv'
  BY <1>1, ConnectStep, SendStep DEF Client
<1>2. CASE Core
  BY <1>2, AcceptStep, SeeHangUpStep, EndCoreStep, HandleFrameStep, SendReplyStep,
     AcceptCandidateStep, DismissCandidateStep
  DEF Core
<1>3. CASE Worker
  BY <1>3, ServiceStep, EndCoreStep, WorkerStartedStep, CallEndsStep DEF Worker
<1>4. CASE WorkerStartFails
  BY <1>4, WorkerStartFailsStep
<1>5. CASE WorkerAnswers
  BY <1>5, CallEndsStep
<1>6. CASE ReapIdleWorkers \/ StartCore
  BY <1>6, ServiceStep
<1>7. CASE UNCHANGED vars
  BY <1>7, AnswersKept, WorkKept
  DEF vars, serviceVars, connVars, frameVars, IInv, TypeOK, ServiceTypeOK, BacklogOK,
      ConnectionsOK, Candidates, InHand
<1>8. QED
  BY <1>1, <1>2, <1>3, <1>4, <1>5, <1>6, <1>7 DEF Next

\* The inductive invariant holds in every reachable state, for any clients,
\* apps, methods and manifests, across any number of restarts.
THEOREM Invariance == Spec => []IInv
BY InitIInv, NextIInv, PTL DEF Spec

\* No worker is called for what the manifest does not allow or the audit does
\* not hold.
THEOREM EveryCallIsAudited == Spec => []CallsAreAudited
<1>1. IInv => CallsAreAudited
  BY DEF IInv
<1>2. QED
  BY <1>1, Invariance, PTL

\* What a frontend is told agrees with the audit and with what was done.
THEOREM AnswersMatchTheAudit == Spec => []RepliesMatchTheAudit
<1>1. IInv => RepliesMatchTheAudit
  BY DEF IInv
<1>2. QED
  BY <1>1, Invariance, PTL

-----------------------------------------------------------------------------
(* The use of the worker service.                                          *)

\* The core stays within what the worker service offers: it starts and calls
\* one worker at a time, reaps only between requests, and never ends while a
\* worker is being started or called.  What is proved of this loop over the
\* service thus holds over the worker manager, which implements the service.
THEOREM ServiceIsUsedAsOffered == Spec => ServiceSpec
<1>1. Init => ServiceInit
  BY DEF Init
<1>2. IInv /\ [Next]_vars => [ServiceNext]_serviceVars
  <2> SUFFICES ASSUME IInv, [Next]_vars, ~(UNCHANGED serviceVars)
               PROVE  ServiceNext
    OBVIOUS
  <2>1. phase # "working" /\ phase # "down" => stage = "free"
    BY DEF IInv, WorkIsForTheServed, ConnectionsOK, TypeOK, ServiceTypeOK
  <2>2. ASSUME EndCore, phase \in {"loop", "first", "session", "replying"}
        PROVE  ServiceNext
    BY <2>1, <2>2 DEF EndCore, ServiceNext
  <2>3. ASSUME NEW c \in Clients, Client(c)
        PROVE  FALSE
    BY <2>3 DEF Client, Connect, Send, HangUp
  <2>4. ASSUME NEW c \in Clients, HandleFrame(c)
        PROVE  ServiceNext
    <3>1. CASE HandleGarbage(c)
      BY <2>2, <3>1 DEF HandleGarbage, Take
    <3>2. ASSUME NEW r \in Dispatch, BeginDispatch(c, r)
          PROVE  ServiceNext
      BY <3>2 DEF BeginDispatch, ServiceNext, Dispatch
    <3>3. QED
      BY <2>4, <3>1, <3>2
      DEF HandleFrame, HandleControl, HandleCapability, HandleIncomplete, AuditFails, Refuse
  <2>5. CASE Core
    BY <2>2, <2>4, <2>5
    DEF Core, Accept, SeeHangUp, ReadFails, SendReply, SendReplyFails, AcceptCandidate,
        DismissCandidate
  <2>6. CASE Worker
    <3>1. CASE WorkerJoinFails
      BY <2>2, <3>1 DEF WorkerJoinFails
    <3>2. CASE WorkerJoins
      BY <3>2 DEF WorkerJoins, ServiceNext
    <3>3. CASE WorkerStarted
      BY <3>3 DEF WorkerStarted, ServiceNext
    <3>4. CASE WorkerFails
      BY <3>4 DEF WorkerFails, ServiceNext
    <3>5. QED
      BY <2>6, <3>1, <3>2, <3>3, <3>4 DEF Worker
  <2>7. CASE WorkerStartFails
    BY <2>7 DEF WorkerStartFails, ServiceNext
  <2>8. CASE WorkerAnswers
    BY <2>8 DEF WorkerAnswers, ServiceNext
  <2>9. CASE ReapIdleWorkers
    BY <2>9 DEF ReapIdleWorkers, ServiceNext
  <2>10. CASE StartCore
    BY <2>10 DEF StartCore, ServiceNext
  <2>11. QED
    BY <2>3, <2>5, <2>6, <2>7, <2>8, <2>9, <2>10 DEF Next, vars
<1>3. QED
  BY <1>1, <1>2, Invariance, PTL DEF Spec, ServiceSpec
=============================================================================
