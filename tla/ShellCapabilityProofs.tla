------------------------ MODULE ShellCapabilityProofs ------------------------
(***************************************************************************)
(* Safety of the approval store under the shell handler, for every set of  *)
(* apps, commands and manifests, every bound on approvals and every TTL.   *)
(***************************************************************************)
EXTENDS ShellCapability, TLAPS

Store == [ApprovalId -> ApprovalRecord \cup {Absent}]

-----------------------------------------------------------------------------
(* What the sweeps and the operations built from them do to one record. *)

\* A record is recognised by its state: Absent is not one.
LEMMA AbsentState ==
    ASSUME NEW r \in ApprovalRecord
    PROVE  r # Absent /\ r.state \in ApprovalState /\ r.state # "Absent"
BY DEF ApprovalRecord, ApprovalState, Absent

\* expire_pending_entries keeps every record, and changes at most its state,
\* from pending to expired.
LEMMA ExpireOne ==
    ASSUME NEW es \in Store
    PROVE  /\ ExpirePending(es) \in Store
           /\ \A id \in ApprovalId :
                 \/ ExpirePending(es)[id] = es[id]
                 \/ /\ es[id] \in ApprovalRecord
                    /\ es[id].state = "Pending"
                    /\ ExpirePending(es)[id] = [es[id] EXCEPT !.state = "Expired"]
<1>1. ASSUME NEW id \in ApprovalId
      PROVE  /\ ExpirePending(es)[id] \in ApprovalRecord \cup {Absent}
             /\ \/ ExpirePending(es)[id] = es[id]
                \/ /\ es[id] \in ApprovalRecord
                   /\ es[id].state = "Pending"
                   /\ ExpirePending(es)[id] = [es[id] EXCEPT !.state = "Expired"]
    <2>1. es[id] \in ApprovalRecord \cup {Absent}
      BY DEF Store
    <2>2. CASE es[id].state = "Pending" /\ es[id].age >= Ttl
      <3>1. es[id] \in ApprovalRecord
        BY <2>1, <2>2 DEF Absent
      <3>2. ExpirePending(es)[id] = [es[id] EXCEPT !.state = "Expired"]
        BY <2>2 DEF ExpirePending
      <3>3. [es[id] EXCEPT !.state = "Expired"] \in ApprovalRecord
        BY <3>1 DEF ApprovalRecord, ApprovalState
      <3>4. QED
        BY <2>2, <3>1, <3>2, <3>3
    <2>3. CASE ~(es[id].state = "Pending" /\ es[id].age >= Ttl)
      BY <2>1, <2>3 DEF ExpirePending
    <2>4. QED
      BY <2>2, <2>3
<1>2. ExpirePending(es) \in Store
  BY <1>1 DEF ExpirePending, Store
<1>3. QED
  BY <1>1, <1>2

\* drop_terminal_entries keeps a record as it is or removes it.
LEMMA DropOne ==
    ASSUME NEW es \in Store
    PROVE  /\ DropTerminal(es) \in Store
           /\ \A id \in ApprovalId :
                 DropTerminal(es)[id] =
                     IF es[id].state \in {"Rejected", "Expired"} THEN Absent ELSE es[id]
BY DEF DropTerminal, Store

\* A sweep removes a record or keeps it as it is.
LEMMA SweepOne ==
    ASSUME NEW es \in Store
    PROVE  /\ DropTerminal(ExpirePending(es)) \in Store
           /\ \A id \in ApprovalId :
                 \/ DropTerminal(ExpirePending(es))[id] = es[id]
                 \/ /\ DropTerminal(ExpirePending(es))[id] = Absent
                    /\ es[id].state # "Approved"
<1>1. ExpirePending(es) \in Store
  BY ExpireOne
<1>2. ASSUME NEW id \in ApprovalId
      PROVE  \/ DropTerminal(ExpirePending(es))[id] = es[id]
             \/ /\ DropTerminal(ExpirePending(es))[id] = Absent
                /\ es[id].state # "Approved"
    <2>1. CASE ExpirePending(es)[id] = es[id]
      BY <1>1, <2>1, DropOne
    <2>2. CASE /\ es[id] \in ApprovalRecord
               /\ es[id].state = "Pending"
               /\ ExpirePending(es)[id] = [es[id] EXCEPT !.state = "Expired"]
      <3>1. ExpirePending(es)[id].state = "Expired"
        BY <2>2 DEF ApprovalRecord
      <3>2. QED
        BY <1>1, <2>2, <3>1, DropOne
    <2>3. QED
      BY <2>1, <2>2, ExpireOne
<1>3. QED
  BY <1>1, <1>2, DropOne

\* approve and reject: no record but the named one is decided.
LEMMA OthersSwept ==
    ASSUME NEW es \in Store, NEW i \in ApprovalId, NEW s, NEW id \in ApprovalId \ {i},
           NEW result, result = DropTerminal(SetState(ExpirePending(es), i, s))
    PROVE  \/ result[id] = es[id]
           \/ result[id] = Absent /\ es[id].state # "Approved"
<1>1. ExpirePending(es) \in Store
  BY ExpireOne
<1>2. SetState(ExpirePending(es), i, s)[id] = ExpirePending(es)[id]
  BY <1>1 DEF SetState, Store
<1>3. result[id] = DropTerminal(ExpirePending(es))[id]
  BY <1>2 DEF DropTerminal
<1>4. QED
  BY <1>3, SweepOne

\* approve and reject: the named record, if there is one, is approved or
\* removed; any other record is removed or kept as it is.
LEMMA DecideOne ==
    ASSUME NEW es \in Store, NEW i \in ApprovalId, NEW s \in {"Approved", "Rejected"},
           NEW result, result = DropTerminal(SetState(ExpirePending(es), i, s))
    PROVE  /\ result \in Store
           /\ es[i] = Absent => result[i] = Absent
           /\ es[i] # Absent /\ s = "Approved" =>
                 result[i] = [es[i] EXCEPT !.state = "Approved"]
           /\ s = "Rejected" => result[i] = Absent
           /\ \A id \in ApprovalId \ {i} :
                 \/ result[id] = es[id]
                 \/ result[id] = Absent /\ es[id].state # "Approved"
<1> DEFINE ex == ExpirePending(es)
           st == SetState(ex, i, s)
<1>1. ex \in Store
  BY ExpireOne
<1>2. es[i] \in ApprovalRecord \cup {Absent}
  BY DEF Store
<1>3. CASE es[i] = Absent
  <2>1. ex[i] = Absent
    BY <1>3, ExpireOne, AbsentState
  <2>2. st = ex
    BY <2>1 DEF SetState
  <2>3. QED
    BY <1>3, <2>1, <2>2, SweepOne, DropOne, <1>1 DEF Absent
<1>4. CASE es[i] # Absent
  <2>1. es[i] \in ApprovalRecord
    BY <1>2, <1>4
  <2>2. ex[i] \in ApprovalRecord /\ [ex[i] EXCEPT !.state = s] = [es[i] EXCEPT !.state = s]
    <3>1. CASE ex[i] = es[i]
      BY <2>1, <3>1
    <3>2. CASE ex[i] = [es[i] EXCEPT !.state = "Expired"]
      BY <2>1, <3>2 DEF ApprovalRecord, ApprovalState
    <3>3. QED
      BY <3>1, <3>2, ExpireOne
  <2>3. st = [ex EXCEPT ![i].state = s]
    BY <2>2, AbsentState DEF SetState
  <2>4. /\ st[i] = [es[i] EXCEPT !.state = s]
        /\ \A id \in ApprovalId \ {i} : st[id] = ex[id]
    BY <2>2, <2>3, <1>1 DEF Store
  <2>5. st[i] \in ApprovalRecord /\ st[i].state = s
    BY <2>1, <2>4 DEF ApprovalRecord, ApprovalState
  <2>6. st \in Store
    BY <1>1, <2>3, <2>4, <2>5 DEF Store
  <2>7. result[i] = IF s = "Approved" THEN [es[i] EXCEPT !.state = "Approved"] ELSE Absent
    BY <2>4, <2>5, <2>6, DropOne
  <2>8. ASSUME NEW id \in ApprovalId \ {i}
        PROVE  \/ result[id] = es[id]
               \/ result[id] = Absent /\ es[id].state # "Approved"
    BY OthersSwept
  <2>9. QED
    BY <1>4, <2>6, <2>7, <2>8, DropOne
<1>5. QED
  BY <1>3, <1>4

\* reject: the named record is gone, any other is removed or kept as it is.
LEMMA RejectOne ==
    ASSUME NEW es \in Store, NEW i \in ApprovalId, NEW result,
           result = DropTerminal(SetState(ExpirePending(es), i, "Rejected"))
    PROVE  /\ result \in Store
           /\ result[i] = Absent
           /\ \A id \in ApprovalId \ {i} : result[id] = es[id] \/ result[id] = Absent
<1>1. "Rejected" \in {"Approved", "Rejected"}
  OBVIOUS
<1>2. result \in Store
  BY <1>1, DecideOne
<1>3. result[i] = Absent
  BY <1>1, DecideOne
<1>4. ASSUME NEW id \in ApprovalId \ {i}
      PROVE  result[id] = es[id] \/ result[id] = Absent
  BY OthersSwept
<1>5. QED
  BY <1>2, <1>3, <1>4

\* consume_approved: "Ok" only for an approved record of this very request,
\* which is then gone; any other record stays, at most marked as expired.
LEMMA ConsumeOne ==
    ASSUME entries \in Store, NEW i \in ApprovalId, NEW app \in Apps,
           NEW command \in Commands, ConsumeApproved(i, app, command)
    PROVE  /\ entries' \in Store
           /\ ConsumeResult(i, app, command) = "Ok" =>
                 /\ entries[i] \in ApprovalRecord
                 /\ entries[i].state = "Approved"
                 /\ entries[i].app = app
                 /\ entries[i].command = command
                 /\ entries'[i] = Absent
           /\ \A id \in ApprovalId :
                 \/ entries'[id] = entries[id]
                 \/ /\ entries[id] \in ApprovalRecord
                    /\ entries[id].state = "Pending"
                    /\ entries'[id] = [entries[id] EXCEPT !.state = "Expired"]
                 \/ /\ id = i
                    /\ entries'[id] = Absent
                    /\ entries[id].state = "Approved" =>
                          ConsumeResult(i, app, command) = "Ok"
<1> DEFINE ex == ExpirePending(entries)
           answer == ConsumeResult(i, app, command)
<1>1. ex \in Store
  BY ExpireOne
<1>2. ex[i] \in ApprovalRecord \cup {Absent}
  BY <1>1 DEF Store
<1>3. CASE ex[i] = Absent
  <2>1. answer = "NotFound"
    BY <1>3 DEF ConsumeResult
  <2>2. entries' = ex
    BY <2>1 DEF ConsumeApproved
  <2>3. QED
    BY <1>1, <2>1, <2>2, ExpireOne
<1>4. CASE ex[i] # Absent /\ (ex[i].app # app \/ ex[i].command # command)
  <2>1. answer = "Mismatch"
    BY <1>4 DEF ConsumeResult
  <2>2. entries' = ex
    BY <2>1 DEF ConsumeApproved
  <2>3. QED
    BY <1>1, <2>1, <2>2, ExpireOne
<1>5. CASE ex[i] # Absent /\ ex[i].app = app /\ ex[i].command = command
  <2>1. answer = IF ex[i].state = "Approved" THEN "Ok" ELSE ex[i].state
    BY <1>5 DEF ConsumeResult
  <2>2. ex[i] \in ApprovalRecord
    BY <1>2, <1>5
  <2>3. CASE ex[i].state = "Pending"
    <3>1. entries' = ex /\ answer = "Pending"
      BY <2>1, <2>3 DEF ConsumeApproved
    <3>2. QED
      BY <1>1, <3>1, ExpireOne
  <2>4. CASE ex[i].state # "Pending"
    <3>1. entries' = [ex EXCEPT ![i] = Absent]
      BY <2>1, <2>2, <2>4 DEF ConsumeApproved, ApprovalRecord, ApprovalState
    <3>2. entries' \in Store
      BY <1>1, <3>1 DEF Store
    <3>3. /\ entries'[i] = Absent
          /\ \A id \in ApprovalId \ {i} : entries'[id] = ex[id]
      BY <1>1, <3>1 DEF Store
    <3>4. ASSUME answer = "Ok"
          PROVE  /\ entries[i] \in ApprovalRecord
                 /\ entries[i].state = "Approved"
                 /\ entries[i].app = app
                 /\ entries[i].command = command
      <4>1. ex[i].state = "Approved"
        BY <2>1, <2>2, <3>4 DEF ApprovalRecord, ApprovalState
      <4>2. ex[i] = entries[i]
        <5>1. ASSUME entries[i] \in ApprovalRecord,
                     ex[i] = [entries[i] EXCEPT !.state = "Expired"]
              PROVE  FALSE
          BY <4>1, <5>1 DEF ApprovalRecord
        <5>2. QED
          BY <5>1, ExpireOne
      <4>3. QED
        BY <1>5, <2>2, <4>1, <4>2
    <3>5. ASSUME entries[i].state = "Approved"
          PROVE  answer = "Ok"
      <4>1. ex[i] = entries[i]
        BY <3>5, ExpireOne
      <4>2. QED
        BY <2>1, <3>5, <4>1
    <3>6. QED
      BY <3>2, <3>3, <3>4, <3>5, ExpireOne
  <2>5. QED
    BY <2>3, <2>4
<1>6. QED
  BY <1>3, <1>4, <1>5

\* Time changes nothing but the age of a record.
LEMMA TickOne ==
    ASSUME StoreAssumption, entries \in Store, Tick
    PROVE  /\ entries' \in Store
           /\ \A id \in ApprovalId :
                 /\ entries[id] = Absent => entries'[id] = Absent
                 /\ entries[id] # Absent =>
                       /\ entries'[id] \in ApprovalRecord
                       /\ entries'[id].app = entries[id].app
                       /\ entries'[id].command = entries[id].command
                       /\ entries'[id].state = entries[id].state
<1>1. ASSUME NEW id \in ApprovalId
      PROVE  /\ entries[id] = Absent => entries'[id] = Absent
             /\ entries[id] # Absent =>
                   /\ entries'[id] \in ApprovalRecord
                   /\ entries'[id].app = entries[id].app
                   /\ entries'[id].command = entries[id].command
                   /\ entries'[id].state = entries[id].state
    <2>1. CASE entries[id] = Absent
      BY <2>1 DEF Tick
    <2>2. CASE entries[id] # Absent
      <3>1. entries[id] \in ApprovalRecord
        BY <2>2 DEF Store
      <3>2. CASE entries[id].age = Ttl
        BY <2>2, <3>1, <3>2 DEF Tick
      <3>3. CASE entries[id].age # Ttl
        <4>1. entries'[id] = [entries[id] EXCEPT !.age = entries[id].age + 1]
          BY <2>2, <3>3 DEF Tick
        <4>2. entries[id].age \in 0..Ttl /\ entries[id].age + 1 \in 0..Ttl
          BY <3>1, <3>3, StoreAssumption DEF ApprovalRecord, StoreAssumption
        <4>3. QED
          BY <2>2, <3>1, <4>1, <4>2 DEF ApprovalRecord
      <3>4. QED
        BY <3>2, <3>3
    <2>3. QED
      BY <2>1, <2>2
<1>2. DOMAIN entries' = ApprovalId /\ entries' = [id \in ApprovalId |-> entries'[id]]
  BY DEF Tick
<1>3. ASSUME NEW id \in ApprovalId
      PROVE  entries'[id] \in ApprovalRecord \cup {Absent}
  BY <1>1
<1>4. QED
  BY <1>1, <1>2, <1>3 DEF Store

-----------------------------------------------------------------------------
(* The inductive invariant. *)

\* What a sweep, a refused request or the clock may do to a record.
Wanes(id) ==
    \/ entries'[id] = Absent
    \/ /\ entries[id] # Absent
       /\ entries'[id] \in ApprovalRecord
       /\ entries'[id].app = entries[id].app
       /\ entries'[id].command = entries[id].command
       /\ entries'[id].state \in {entries[id].state, "Expired"}

Kept(id) == entries[id].state = "Approved" => entries'[id].state = "Approved"

\* A step that only lets records wane preserves the invariant.
LEMMA QuietStep ==
    ASSUME IInv, entries' \in Store, \A id \in ApprovalId : Wanes(id),
           UNCHANGED <<next_id, shellVars>>
    PROVE  IInv'
<1> USE DEF IInv, shellVars
<1>1. TypeOK'
  BY DEF TypeOK, StoreTypeOK, Store
<1>2. Fresh'
  BY DEF Fresh, Wanes
<1>3. RecordsAccounted'
  <2>1. ASSUME NEW id \in ApprovalId, entries'[id] # Absent
        PROVE  /\ entries[id] # Absent
               /\ entries'[id].app = entries[id].app
               /\ entries'[id].command = entries[id].command
               /\ entries'[id].state = "Approved" => entries[id].state = "Approved"
    BY <2>1 DEF Wanes
  <2>2. QED
    BY <2>1 DEF RecordsAccounted, Policy
<1>4. ExecutionsAccounted' /\ SingleUse' /\ RejectionIsFinal'
  BY DEF ExecutionsAccounted, SingleUse, RejectionIsFinal, Policy
<1>5. QED
  BY <1>1, <1>2, <1>3, <1>4

LEMMA EntriesInStore == IInv => entries \in Store
BY DEF IInv, TypeOK, StoreTypeOK, Store

\* A record kept as it is wanes.
LEMMA KeptWanes ==
    ASSUME entries \in Store, NEW id \in ApprovalId, entries'[id] = entries[id]
    PROVE  Wanes(id) /\ Kept(id)
BY DEF Wanes, Kept, Store

\* Under a sweep records wane, and the approved ones are kept.
LEMMA SweepWanes ==
    ASSUME entries \in Store, ReapExpired
    PROVE  entries' \in Store /\ \A id \in ApprovalId : Wanes(id) /\ Kept(id)
<1>1. entries' = DropTerminal(ExpirePending(entries))
  BY DEF ReapExpired
<1>2. entries' \in Store
  BY <1>1, SweepOne
<1>3. ASSUME NEW id \in ApprovalId
      PROVE  Wanes(id) /\ Kept(id)
  BY <1>1, SweepOne, KeptWanes DEF Wanes, Kept
<1>4. QED
  BY <1>2, <1>3

\* Under a request with an approval records wane, and the approved ones are
\* kept, but for the one that lets the request through.
LEMMA ConsumeWanes ==
    ASSUME entries \in Store, NEW id \in ApprovalId, NEW app \in Apps,
           NEW command \in Commands, ConsumeApproved(id, app, command)
    PROVE  /\ entries' \in Store
           /\ \A i \in ApprovalId :
                 /\ Wanes(i)
                 /\ Kept(i) \/ (i = id /\ ConsumeResult(id, app, command) = "Ok")
<1>1. entries' \in Store
  BY ConsumeOne
<1>2. SUFFICES ASSUME NEW i \in ApprovalId
               PROVE  /\ Wanes(i)
                      /\ Kept(i) \/ (i = id /\ ConsumeResult(id, app, command) = "Ok")
  BY <1>1
<1>3. CASE entries'[i] = entries[i]
  BY <1>3, KeptWanes
<1>4. CASE /\ entries[i] \in ApprovalRecord
           /\ entries[i].state = "Pending"
           /\ entries'[i] = [entries[i] EXCEPT !.state = "Expired"]
  <2>1. /\ entries'[i] \in ApprovalRecord
        /\ entries'[i].app = entries[i].app
        /\ entries'[i].command = entries[i].command
        /\ entries'[i].state = "Expired"
    BY <1>4 DEF ApprovalRecord, ApprovalState
  <2>2. entries[i] # Absent
    BY <1>4, AbsentState
  <2>3. Wanes(i)
    BY <2>1, <2>2 DEF Wanes
  <2>4. Kept(i)
    BY <1>4 DEF Kept
  <2>5. QED
    BY <2>3, <2>4
<1>5. CASE /\ i = id
           /\ entries'[i] = Absent
           /\ entries[i].state = "Approved" => ConsumeResult(id, app, command) = "Ok"
  BY <1>5 DEF Wanes, Kept
<1>6. QED
  BY <1>3, <1>4, <1>5, ConsumeOne

LEMMA TickWanes ==
    ASSUME entries \in Store, Tick
    PROVE  entries' \in Store /\ \A id \in ApprovalId : Wanes(id) /\ Kept(id)
<1>1. entries' \in Store
  BY StoreAssumption, TickOne
<1>2. ASSUME NEW id \in ApprovalId
      PROVE  Wanes(id) /\ Kept(id)
  BY StoreAssumption, TickOne, AbsentState DEF Wanes, Kept, Absent
<1>3. QED
  BY <1>1, <1>2

LEMMA SweepStep ==
    ASSUME IInv, ReapExpired, UNCHANGED shellVars
    PROVE  IInv'
BY EntriesInStore, SweepWanes, QuietStep DEF ReapExpired

LEMMA InitIInv == Init => IInv
BY StoreAssumption DEF StoreAssumption, Init, StoreInit, IInv, TypeOK, StoreTypeOK, Fresh,
   RecordsAccounted, ExecutionsAccounted, SingleUse, RejectionIsFinal, ApprovalId,
   Absent, Nothing

LEMMA RunAllowedStep ==
    ASSUME IInv, NEW app \in Apps, NEW command \in Commands, RunAllowed(app, command)
    PROVE  IInv'
<1> USE DEF IInv, RunAllowed, storeVars
<1>1. TypeOK'
  BY DEF TypeOK, StoreTypeOK, Execution, NoApproval
<1>2. Fresh' /\ SingleUse' /\ RejectionIsFinal'
  BY DEF Fresh, SingleUse, RejectionIsFinal
<1>3. RecordsAccounted'
  BY DEF RecordsAccounted, Policy
<1>4. ExecutionsAccounted'
  <2> DEFINE run == [app |-> app, command |-> command, approval |-> NoApproval]
  <2>1. ASSUME NEW e \in executed
        PROVE  \/ e.approval = NoApproval /\ Policy(e.app, e.command) = "Allow"
               \/ /\ e.approval \in granted'
                  /\ asked'[e.approval] = [app |-> e.app, command |-> e.command]
                  /\ Policy(e.app, e.command) = "Ask"
    BY DEF ExecutionsAccounted
  <2>2. run.approval = NoApproval /\ Policy(run.app, run.command) = "Allow"
    OBVIOUS
  <2>3. executed' = executed \cup {run}
    OBVIOUS
  <2>4. QED
    BY <2>1, <2>2, <2>3, Zenon DEF ExecutionsAccounted
<1>5. QED
  BY <1>1, <1>2, <1>3, <1>4

LEMMA AskApprovalStep ==
    ASSUME IInv, NEW app \in Apps, NEW command \in Commands, AskApproval(app, command)
    PROVE  IInv'
<1> DEFINE new == next_id + 1
           record == [app |-> app, command |-> command, state |-> "Pending", age |-> 0]
<1> USE DEF IInv
<1>1. /\ new \in ApprovalId
      /\ next_id' = new
      /\ next_id' \in 0..MaxApprovals
  BY StoreAssumption DEF StoreAssumption, AskApproval, Create, ApprovalId, TypeOK, StoreTypeOK
<1>2. record \in ApprovalRecord
  BY StoreAssumption DEF StoreAssumption, ApprovalRecord, ApprovalState
<1>3. /\ entries' = [entries EXCEPT ![new] = record]
      /\ asked' = [asked EXCEPT ![new] = [app |-> app, command |-> command]]
      /\ UNCHANGED <<executed, uses, granted, refused>>
      /\ Policy(app, command) = "Ask"
  BY DEF AskApproval, Create
<1>4. /\ entries'[new] = record
      /\ asked'[new] = [app |-> app, command |-> command]
      /\ \A id \in ApprovalId \ {new} :
            entries'[id] = entries[id] /\ asked'[id] = asked[id]
  BY <1>1, <1>3 DEF TypeOK, StoreTypeOK
<1>5. uses[new] = 0 /\ new \notin granted /\ new \notin refused
  BY <1>1 DEF Fresh, ApprovalId, TypeOK, StoreTypeOK
<1>6. TypeOK'
  BY <1>1, <1>2, <1>3 DEF TypeOK, StoreTypeOK, Request
<1>7. Fresh'
  <2>1. SUFFICES ASSUME NEW id \in ApprovalId, id > next_id'
                 PROVE  id > next_id /\ id # new
    BY <1>3, <1>4 DEF Fresh
  <2>2. QED
    BY <1>1, <2>1 DEF TypeOK, StoreTypeOK, ApprovalId
<1>8. RecordsAccounted'
  <2>1. ASSUME NEW id \in ApprovalId, entries'[id] # Absent
        PROVE  /\ asked'[id] = [app |-> entries'[id].app, command |-> entries'[id].command]
               /\ Policy(entries'[id].app, entries'[id].command) = "Ask"
               /\ uses'[id] = 0
               /\ id \notin refused'
               /\ entries'[id].state = "Approved" => id \in granted'
    <3>1. CASE id = new
      BY <1>3, <1>4, <1>5, <3>1
    <3>2. CASE id # new
      BY <1>3, <1>4, <2>1, <3>2 DEF RecordsAccounted
    <3>3. QED
      BY <3>1, <3>2
  <2>2. QED
    BY <2>1 DEF RecordsAccounted, Policy
<1>9. ExecutionsAccounted'
  <2>1. \A i \in granted : asked'[i] = asked[i]
    BY <1>4, <1>5 DEF TypeOK
  <2>2. QED
    BY <1>3, <2>1 DEF ExecutionsAccounted, Policy
<1>10. SingleUse' /\ RejectionIsFinal'
  BY <1>3 DEF SingleUse, RejectionIsFinal
<1>11. QED
  BY <1>6, <1>7, <1>8, <1>9, <1>10

LEMMA RunWithApprovalStep ==
    ASSUME IInv, NEW app \in Apps, NEW command \in Commands, NEW id \in ApprovalId,
           RunWithApproval(app, command, id)
    PROVE  IInv'
<1>1. entries \in Store
  BY EntriesInStore
<1>2. ConsumeApproved(id, app, command) /\ UNCHANGED <<next_id, granted, refused, asked>>
  BY DEF RunWithApproval, ConsumeApproved
<1>3. entries' \in Store
  BY <1>1, <1>2, ConsumeOne
<1>4. \A i \in ApprovalId : Wanes(i)
  BY <1>1, <1>2, ConsumeWanes
<1>5. CASE ConsumeResult(id, app, command) # "Ok"
  <2>1. UNCHANGED <<next_id, shellVars>>
    BY <1>2, <1>5 DEF RunWithApproval, shellVars
  <2>2. QED
    BY <1>3, <1>4, <2>1, QuietStep
<1>6. CASE ConsumeResult(id, app, command) = "Ok"
  <2> DEFINE run == [app |-> app, command |-> command, approval |-> id]
  <2>1. /\ executed' = executed \cup {run}
        /\ uses' = [uses EXCEPT ![id] = @ + 1]
    BY <1>6 DEF RunWithApproval
  <2>2. /\ entries[id] \in ApprovalRecord
        /\ entries[id].state = "Approved"
        /\ entries[id].app = app
        /\ entries[id].command = command
        /\ entries'[id] = Absent
    BY <1>1, <1>2, <1>6, ConsumeOne
  <2>3. entries[id] # Absent
    BY <2>2, AbsentState
  <2>4. /\ asked[id] = [app |-> app, command |-> command]
        /\ Policy(app, command) = "Ask"
        /\ uses[id] = 0
        /\ id \notin refused
        /\ id \in granted
    BY <2>2, <2>3 DEF IInv, RecordsAccounted
  <2>5. uses'[id] = 1 /\ \A i \in ApprovalId \ {id} : uses'[i] = uses[i]
    BY <2>1, <2>4 DEF IInv, TypeOK
  <2>6. TypeOK'
    BY <1>2, <1>3, <2>1 DEF IInv, TypeOK, StoreTypeOK, Store, Execution
  <2>7. Fresh'
    <3>1. ~(id > next_id)
      BY <2>3 DEF IInv, Fresh
    <3>2. QED
      BY <1>2, <1>4, <2>5, <3>1 DEF IInv, Fresh, Wanes
  <2>8. RecordsAccounted'
    <3>1. ASSUME NEW i \in ApprovalId, entries'[i] # Absent
          PROVE  /\ i # id
                 /\ entries[i] # Absent
                 /\ entries'[i].app = entries[i].app
                 /\ entries'[i].command = entries[i].command
                 /\ entries'[i].state = "Approved" => entries[i].state = "Approved"
      BY <1>4, <2>2, <3>1 DEF Wanes
    <3>2. QED
      BY <1>2, <2>5, <3>1 DEF IInv, RecordsAccounted, Policy
  <2>9. ExecutionsAccounted'
    <3>1. ASSUME NEW e \in executed
          PROVE  \/ e.approval = NoApproval /\ Policy(e.app, e.command) = "Allow"
                 \/ /\ e.approval \in granted'
                    /\ asked'[e.approval] = [app |-> e.app, command |-> e.command]
                    /\ Policy(e.app, e.command) = "Ask"
      BY <1>2 DEF IInv, ExecutionsAccounted
    <3>2. /\ run.approval \in granted'
          /\ asked'[run.approval] = [app |-> run.app, command |-> run.command]
          /\ Policy(run.app, run.command) = "Ask"
      BY <1>2, <2>4
    <3>3. QED
      BY <2>1, <3>1, <3>2, Zenon DEF ExecutionsAccounted
  <2>10. SingleUse' /\ RejectionIsFinal'
    BY <1>2, <2>4, <2>5, <2>6 DEF IInv, TypeOK, SingleUse, RejectionIsFinal
  <2>11. QED
    BY <2>6, <2>7, <2>8, <2>9, <2>10 DEF IInv
<1>7. QED
  BY <1>5, <1>6

LEMMA ApprovePendingStep ==
    ASSUME IInv, NEW id \in ApprovalId, ApprovePending(id)
    PROVE  IInv'
<1>1. entries \in Store
  BY EntriesInStore
<1>2. /\ entries' = DropTerminal(SetState(ExpirePending(entries), id, "Approved"))
      /\ UNCHANGED <<next_id, executed, uses, refused, asked>>
  BY DEF ApprovePending, Approve
<1>3. /\ entries' \in Store
      /\ entries[id] = Absent => entries'[id] = Absent
      /\ entries[id] # Absent => entries'[id] = [entries[id] EXCEPT !.state = "Approved"]
      /\ \A i \in ApprovalId \ {id} : entries'[i] = entries[i] \/ entries'[i] = Absent
  BY <1>1, <1>2, DecideOne
<1>4. CASE entries[id] = Absent
  <2>1. UNCHANGED <<next_id, shellVars>>
    BY <1>2, <1>4 DEF ApprovePending, shellVars
  <2>2. \A i \in ApprovalId : Wanes(i)
    BY <1>1, <1>3, <1>4, KeptWanes DEF Wanes
  <2>3. QED
    BY <1>3, <2>1, <2>2, QuietStep
<1>5. CASE entries[id] # Absent
  <2>1. granted' = granted \cup {id}
    BY <1>5 DEF ApprovePending
  <2>2. entries[id] \in ApprovalRecord
    BY <1>1, <1>5 DEF Store
  <2>3. /\ entries'[id].app = entries[id].app
        /\ entries'[id].command = entries[id].command
    BY <1>3, <1>5, <2>2 DEF ApprovalRecord
  <2>4. TypeOK'
    BY <1>2, <1>3, <2>1 DEF IInv, TypeOK, StoreTypeOK, Store
  <2>5. Fresh'
    <3>1. ~(id > next_id)
      BY <1>5 DEF IInv, Fresh
    <3>2. QED
      BY <1>2, <1>3, <2>1, <3>1 DEF IInv, Fresh
  <2>6. RecordsAccounted'
    <3>1. ASSUME NEW i \in ApprovalId, entries'[i] # Absent
          PROVE  /\ entries[i] # Absent
                 /\ entries'[i].app = entries[i].app
                 /\ entries'[i].command = entries[i].command
                 /\ i = id \/ entries'[i].state = entries[i].state
      BY <1>3, <1>5, <2>3, <3>1
    <3>2. QED
      BY <1>2, <2>1, <3>1 DEF IInv, RecordsAccounted, Policy
  <2>7. ExecutionsAccounted' /\ SingleUse' /\ RejectionIsFinal'
    BY <1>2, <2>1 DEF IInv, ExecutionsAccounted, SingleUse, RejectionIsFinal, Policy
  <2>8. QED
    BY <2>4, <2>5, <2>6, <2>7 DEF IInv
<1>6. QED
  BY <1>4, <1>5

LEMMA RejectPendingStep ==
    ASSUME IInv, NEW id \in ApprovalId, RejectPending(id)
    PROVE  IInv'
<1>1. entries \in Store
  BY EntriesInStore
<1>2. /\ entries' = DropTerminal(SetState(ExpirePending(entries), id, "Rejected"))
      /\ UNCHANGED <<next_id, executed, uses, granted, asked>>
      /\ refused' = IF entries[id] = Absent THEN refused ELSE refused \cup {id}
  BY DEF RejectPending, Reject
<1>3. /\ entries' \in Store
      /\ entries'[id] = Absent
      /\ \A i \in ApprovalId \ {id} : entries'[i] = entries[i] \/ entries'[i] = Absent
  BY <1>1, <1>2, RejectOne
<1>4. TypeOK'
  BY <1>2, <1>3 DEF IInv, TypeOK, StoreTypeOK, Store
<1>5. Fresh'
  BY <1>2, <1>3 DEF IInv, Fresh
<1>6. RecordsAccounted'
  <2>1. ASSUME NEW i \in ApprovalId, entries'[i] # Absent
        PROVE  i # id /\ entries'[i] = entries[i] /\ (i \in refused' => i \in refused)
    BY <1>2, <1>3, <2>1
  <2>2. QED
    BY <1>2, <2>1 DEF IInv, RecordsAccounted, Policy
<1>7. ExecutionsAccounted' /\ SingleUse'
  BY <1>2 DEF IInv, ExecutionsAccounted, SingleUse, Policy
<1>8. RejectionIsFinal'
  BY <1>2 DEF IInv, RejectionIsFinal, RecordsAccounted
<1>9. QED
  BY <1>4, <1>5, <1>6, <1>7, <1>8 DEF IInv

LEMMA TimePassesStep ==
    ASSUME IInv, TimePasses
    PROVE  IInv'
BY EntriesInStore, TickWanes, QuietStep DEF TimePasses, Tick

LEMMA NextIInv == IInv /\ [Next]_vars => IInv'
<1>1. SUFFICES ASSUME IInv, [Next]_vars
               PROVE  IInv'
  OBVIOUS
<1>2. CASE \E app \in Apps, command \in Commands :
               \/ RunAllowed(app, command)
               \/ AskApproval(app, command)
               \/ \E id \in ApprovalId : RunWithApproval(app, command, id)
  BY <1>1, <1>2, RunAllowedStep, AskApprovalStep, RunWithApprovalStep
<1>3. CASE \E id \in ApprovalId : ApprovePending(id) \/ RejectPending(id)
  BY <1>1, <1>3, ApprovePendingStep, RejectPendingStep
<1>4. CASE ListApprovals
  BY <1>1, <1>4, SweepStep DEF ListApprovals, ListPending, ReapExpired
<1>5. CASE Reap
  BY <1>1, <1>5, SweepStep DEF Reap
<1>6. CASE TimePasses
  BY <1>1, <1>6, TimePassesStep
<1>7. CASE UNCHANGED vars
  <2>1. entries \in Store /\ entries' = entries
    BY <1>1, <1>7 DEF IInv, TypeOK, StoreTypeOK, Store, vars, storeVars
  <2>2. \A id \in ApprovalId : Wanes(id)
    BY <2>1, KeptWanes
  <2>3. QED
    BY <1>1, <1>7, <2>1, <2>2, QuietStep DEF vars, storeVars, shellVars
<1>8. QED
  BY <1>1, <1>2, <1>3, <1>4, <1>5, <1>6, <1>7 DEF Next

\* The inductive invariant holds in every reachable state.
THEOREM Invariance == Spec => []IInv
BY InitIInv, NextIInv, PTL DEF Spec

\* Type correctness of the store and of the history.
THEOREM TypeCorrect == Spec => []TypeOK
<1>1. IInv => TypeOK
  BY DEF IInv
<1>2. QED
  BY <1>1, Invariance, PTL

\* Whatever the manifest only allows with consent ran under a grant given for
\* that app and that command string (shell.rs:85-95).
THEOREM ConsentBeforeExecution == Spec => []RunsHadConsent
<1>1. IInv => RunsHadConsent
  BY DEF IInv, ExecutionsAccounted, RunsHadConsent
<1>2. QED
  BY <1>1, Invariance, PTL

\* A command the manifest denies never reaches the shell.
THEOREM DeniedCommandsNeverRun == Spec => []DeniedNeverRuns
<1>1. IInv => DeniedNeverRuns
  BY DEF IInv, ExecutionsAccounted, DeniedNeverRuns
<1>2. QED
  BY <1>1, Invariance, PTL

\* One grant, at most one execution.
THEOREM GrantsAreSpentOnce == Spec => []SingleUse
<1>1. IInv => SingleUse
  BY DEF IInv
<1>2. QED
  BY <1>1, Invariance, PTL

\* No command runs under an identifier that was rejected, be it after an
\* approval (approval.rs:96-102).
THEOREM RejectionsAreFinal == Spec => []RejectionIsFinal
<1>1. IInv => RejectionIsFinal
  BY DEF IInv
<1>2. QED
  BY <1>1, Invariance, PTL

-----------------------------------------------------------------------------
(* The store implements the life cycle of an identifier. *)

Life == [id \in ApprovalId |-> LifeOf(id)]

\* A step after which every identifier is where it was, or was waiting and is
\* closed, is a lapse.
LEMMA LapseStep ==
    ASSUME \A id \in ApprovalId :
              \/ LifeOf(id)' = LifeOf(id)
              \/ LifeOf(id) = "waiting" /\ LifeOf(id)' = "closed"
    PROVE  Consent!Next
<1> DEFINE S == {id \in ApprovalId : LifeOf(id) = "waiting" /\ LifeOf(id)' = "closed"}
<1>1. S \in SUBSET Consent!Waiting
  BY DEF Consent!Waiting
<1>2. Consent!Lapse(S)
  BY DEF Consent!Lapse
<1>3. QED
  BY <1>1, <1>2 DEF Consent!Next

\* What waning means for the life of one identifier.
LEMMA WaneLife ==
    ASSUME NEW id \in ApprovalId, Wanes(id), Kept(id), next_id' = next_id,
           uses'[id] = uses[id]
    PROVE  \/ LifeOf(id)' = LifeOf(id)
           \/ LifeOf(id) = "waiting" /\ LifeOf(id)' = "closed"
<1>1. CASE id > next_id \/ uses[id] > 0
  BY <1>1 DEF LifeOf
<1>2. CASE ~(id > next_id \/ uses[id] > 0)
  <2>1. CASE entries'[id] = Absent
    BY <1>2, <2>1 DEF LifeOf, Kept, Absent
  <2>2. CASE entries'[id] # Absent
    BY <1>2, <2>2 DEF LifeOf, Wanes, Kept
  <2>3. QED
    BY <2>1, <2>2
<1>3. QED
  BY <1>1, <1>2

LEMMA QuietLife ==
    ASSUME \A id \in ApprovalId : Wanes(id) /\ Kept(id), UNCHANGED <<next_id, uses>>
    PROVE  Consent!Next
BY WaneLife, LapseStep

LEMMA InitLife == Init => Consent!Init
BY DEF Init, StoreInit, Consent!Init, LifeOf, ApprovalId

LEMMA AskLife ==
    ASSUME IInv, NEW app \in Apps, NEW command \in Commands, AskApproval(app, command)
    PROVE  Consent!Next
<1>0. PICK new \in ApprovalId : new = next_id + 1
  BY StoreAssumption
  DEF StoreAssumption, AskApproval, Create, ApprovalId, IInv, TypeOK, StoreTypeOK
<1>1. /\ new \in ApprovalId
      /\ next_id \in Nat
      /\ new = next_id + 1
      /\ next_id' = new
      /\ UNCHANGED uses
  BY <1>0, StoreAssumption
  DEF StoreAssumption, AskApproval, Create, ApprovalId, IInv, TypeOK, StoreTypeOK
<1>2. /\ entries'[new] = [app |-> app, command |-> command, state |-> "Pending", age |-> 0]
      /\ \A id \in ApprovalId \ {new} : entries'[id] = entries[id]
  BY <1>1 DEF AskApproval, Create, IInv, TypeOK, StoreTypeOK
<1>3. uses[new] = 0
  BY <1>1 DEF IInv, Fresh, ApprovalId
<1>4. LifeOf(new) = "unasked" /\ LifeOf(new)' = "waiting"
  <2>1. new > next_id /\ ~(new > next_id') /\ ~(uses'[new] > 0)
    BY <1>1, <1>3
  <2>2. entries'[new] # Absent /\ entries'[new].state # "Approved"
    BY <1>2 DEF Absent
  <2>3. QED
    BY <2>1, <2>2 DEF LifeOf
<1>5. ASSUME NEW id \in ApprovalId \ {new}
      PROVE  LifeOf(id)' = LifeOf(id)
  <2>1. (id > next_id) <=> (id > next_id')
    BY <1>1, <1>5 DEF ApprovalId
  <2>2. QED
    BY <1>1, <1>2, <2>1 DEF LifeOf
<1>6. Consent!AskFor(new)
  BY <1>1, <1>4, <1>5 DEF Consent!AskFor
<1>7. QED
  BY <1>1, <1>6 DEF Consent!Next

LEMMA UseLife ==
    ASSUME IInv, NEW app \in Apps, NEW command \in Commands, NEW id \in ApprovalId,
           RunWithApproval(app, command, id), ConsumeResult(id, app, command) = "Ok"
    PROVE  Consent!Next
<1>1. /\ ConsumeApproved(id, app, command)
      /\ UNCHANGED next_id
      /\ uses' = [uses EXCEPT ![id] = @ + 1]
  BY DEF RunWithApproval, ConsumeApproved
<1>2. entries \in Store
  BY EntriesInStore
<1>3. /\ entries[id] # Absent
      /\ entries[id].state = "Approved"
  BY <1>1, <1>2, ConsumeOne, AbsentState
<1>4. ~(id > next_id) /\ uses[id] = 0
  BY <1>3 DEF IInv, Fresh, RecordsAccounted
<1>5. uses'[id] = 1 /\ \A i \in ApprovalId \ {id} : uses'[i] = uses[i]
  BY <1>1, <1>4 DEF IInv, TypeOK
<1>6. LifeOf(id) = "granted" /\ LifeOf(id)' = "used"
  BY <1>1, <1>3, <1>4, <1>5 DEF LifeOf
<1>7. ASSUME NEW i \in ApprovalId \ {id}
      PROVE  LifeOf(i)' = LifeOf(i)
  <2>1. \/ entries'[i] = entries[i]
        \/ /\ entries[i] \in ApprovalRecord
           /\ entries[i].state = "Pending"
           /\ entries'[i] = [entries[i] EXCEPT !.state = "Expired"]
    BY <1>1, <1>2, ConsumeOne
  <2>2. CASE entries'[i] = entries[i]
    BY <1>1, <1>5, <2>2 DEF LifeOf
  <2>3. CASE /\ entries[i] \in ApprovalRecord
             /\ entries[i].state = "Pending"
             /\ entries'[i] = [entries[i] EXCEPT !.state = "Expired"]
    <3>1. entries'[i] \in ApprovalRecord /\ entries'[i].state = "Expired"
      BY <2>3 DEF ApprovalRecord, ApprovalState
    <3>2. /\ entries[i] # Absent /\ entries'[i] # Absent
          /\ entries[i].state # "Approved" /\ entries'[i].state # "Approved"
      BY <2>3, <3>1, AbsentState
    <3>3. QED
      BY <1>1, <1>5, <3>2 DEF LifeOf
  <2>4. QED
    BY <2>1, <2>2, <2>3
<1>8. Consent!Use(id)
  BY <1>6, <1>7 DEF Consent!Use
<1>9. QED
  BY <1>8 DEF Consent!Next

LEMMA RunLife ==
    ASSUME IInv, NEW app \in Apps, NEW command \in Commands, NEW id \in ApprovalId,
           RunWithApproval(app, command, id)
    PROVE  Consent!Next
<1>1. CASE ConsumeResult(id, app, command) = "Ok"
  BY <1>1, UseLife
<1>2. CASE ConsumeResult(id, app, command) # "Ok"
  <2>1. ConsumeApproved(id, app, command) /\ UNCHANGED <<next_id, uses>>
    BY <1>2 DEF RunWithApproval, ConsumeApproved
  <2>2. \A i \in ApprovalId : Wanes(i) /\ Kept(i)
    BY <1>2, <2>1, EntriesInStore, ConsumeWanes
  <2>3. QED
    BY <2>1, <2>2, QuietLife
<1>3. QED
  BY <1>1, <1>2

\* The identifiers a decision on id sweeps out of the store with it.
LEMMA OthersLife ==
    ASSUME entries \in Store, NEW id \in ApprovalId, NEW s, UNCHANGED <<next_id, uses>>,
           entries' = DropTerminal(SetState(ExpirePending(entries), id, s)),
           NEW i \in ApprovalId \ {id}
    PROVE  \/ LifeOf(i)' = LifeOf(i)
           \/ LifeOf(i) = "waiting" /\ LifeOf(i)' = "closed"
<1>1. \/ entries'[i] = entries[i]
      \/ entries'[i] = Absent /\ entries[i].state # "Approved"
  BY OthersSwept
<1>2. Wanes(i) /\ Kept(i)
  BY <1>1, KeptWanes DEF Wanes, Kept
<1>3. QED
  BY <1>2, WaneLife

LEMMA GrantLife ==
    ASSUME IInv, NEW id \in ApprovalId, ApprovePending(id)
    PROVE  Consent!Next
<1> DEFINE S == {i \in ApprovalId \ {id} : LifeOf(i) = "waiting" /\ LifeOf(i)' = "closed"}
<1>1. entries \in Store
  BY EntriesInStore
<1>2. /\ entries' = DropTerminal(SetState(ExpirePending(entries), id, "Approved"))
      /\ UNCHANGED <<next_id, uses>>
  BY DEF ApprovePending, Approve
<1>3. \A i \in ApprovalId \ {id} :
         \/ LifeOf(i)' = LifeOf(i)
         \/ LifeOf(i) = "waiting" /\ LifeOf(i)' = "closed"
  BY <1>1, <1>2, OthersLife
<1>4. /\ entries[id] = Absent => entries'[id] = Absent
      /\ entries[id] # Absent => entries'[id] = [entries[id] EXCEPT !.state = "Approved"]
  BY <1>1, <1>2, DecideOne
<1>5. CASE entries[id] = Absent
  <2>1. LifeOf(id)' = LifeOf(id)
    BY <1>2, <1>4, <1>5 DEF LifeOf
  <2>2. QED
    BY <1>3, <2>1, LapseStep
<1>6. CASE entries[id] # Absent
  <2>1. entries[id] \in ApprovalRecord
    BY <1>1, <1>6 DEF Store
  <2>2. entries'[id] = [entries[id] EXCEPT !.state = "Approved"]
    BY <1>4, <1>6
  <2>3. entries'[id] # Absent /\ entries'[id].state = "Approved"
    BY <2>1, <2>2 DEF ApprovalRecord, Absent
  <2>4. ~(id > next_id) /\ uses[id] = 0
    BY <1>6 DEF IInv, Fresh, RecordsAccounted
  <2>5. LifeOf(id)' = "granted"
    BY <1>2, <2>3, <2>4 DEF LifeOf
  <2>6. CASE entries[id].state = "Approved"
    <3>1. LifeOf(id) = "granted"
      BY <1>6, <2>4, <2>6 DEF LifeOf
    <3>2. QED
      BY <1>3, <2>5, <3>1, LapseStep
  <2>7. CASE entries[id].state # "Approved"
    <3>1. LifeOf(id) = "waiting"
      BY <1>6, <2>4, <2>7 DEF LifeOf
    <3>2. S \in SUBSET Consent!Waiting
      BY DEF Consent!Waiting
    <3>3. Consent!Grant(id, S)
      BY <1>3, <2>5, <3>1 DEF Consent!Grant
    <3>4. QED
      BY <3>2, <3>3 DEF Consent!Next
  <2>8. QED
    BY <2>6, <2>7
<1>7. QED
  BY <1>5, <1>6

LEMMA RefuseLife ==
    ASSUME IInv, NEW id \in ApprovalId, RejectPending(id)
    PROVE  Consent!Next
<1> DEFINE S == {i \in ApprovalId \ {id} : LifeOf(i) = "waiting" /\ LifeOf(i)' = "closed"}
<1>1. entries \in Store
  BY EntriesInStore
<1>2. /\ entries' = DropTerminal(SetState(ExpirePending(entries), id, "Rejected"))
      /\ UNCHANGED <<next_id, uses>>
  BY DEF RejectPending, Reject
<1>3. \A i \in ApprovalId \ {id} :
         \/ LifeOf(i)' = LifeOf(i)
         \/ LifeOf(i) = "waiting" /\ LifeOf(i)' = "closed"
  BY <1>1, <1>2, OthersLife
<1>4. entries'[id] = Absent
  BY <1>1, <1>2, RejectOne
<1>5. CASE entries[id] = Absent
  <2>1. LifeOf(id)' = LifeOf(id)
    BY <1>2, <1>4, <1>5 DEF LifeOf
  <2>2. QED
    BY <1>3, <2>1, LapseStep
<1>6. CASE entries[id] # Absent
  <2>1. ~(id > next_id) /\ uses[id] = 0
    BY <1>6 DEF IInv, Fresh, RecordsAccounted
  <2>2. LifeOf(id) \in {"waiting", "granted"} /\ LifeOf(id)' = "closed"
    BY <1>2, <1>4, <1>6, <2>1 DEF LifeOf
  <2>3. S \in SUBSET Consent!Waiting
    BY DEF Consent!Waiting
  <2>4. Consent!Refuse(id, S)
    BY <1>3, <2>2 DEF Consent!Refuse
  <2>5. QED
    BY <2>3, <2>4 DEF Consent!Next
<1>7. QED
  BY <1>5, <1>6

LEMMA NextLife == IInv /\ [Next]_vars => [Consent!Next]_Life
<1>1. SUFFICES ASSUME IInv, [Next]_vars
               PROVE  Consent!Next \/ Life' = Life
  OBVIOUS
<1>2. ASSUME NEW app \in Apps, NEW command \in Commands
      PROVE  /\ RunAllowed(app, command) => Life' = Life
             /\ AskApproval(app, command) => Consent!Next
             /\ \A id \in ApprovalId : RunWithApproval(app, command, id) => Consent!Next
  BY <1>1, AskLife, RunLife DEF RunAllowed, storeVars, Life, LifeOf
<1>3. ASSUME NEW id \in ApprovalId
      PROVE  ApprovePending(id) \/ RejectPending(id) => Consent!Next
  BY <1>1, GrantLife, RefuseLife
<1>4. ListApprovals \/ Reap => Consent!Next
  BY <1>1, EntriesInStore, SweepWanes, QuietLife
  DEF ListApprovals, ListPending, Reap, ReapExpired, shellVars
<1>5. TimePasses => Consent!Next
  BY <1>1, EntriesInStore, TickWanes, QuietLife DEF TimePasses, Tick, shellVars
<1>6. UNCHANGED vars => Life' = Life
  BY DEF vars, storeVars, shellVars, Life, LifeOf
<1>7. QED
  BY <1>1, <1>2, <1>3, <1>4, <1>5, <1>6 DEF Next

\* An approved record leaves the store only by letting its command run or by
\* being rejected (approval.rs:122-124 and 143-151).
THEOREM ApprovalsAreKept == Spec => ApprovedIsKept
<1> DEFINE KeptOrDone == \A id \in ApprovalId :
                            /\ entries[id].state = "Approved"
                            /\ entries'[id].state # "Approved"
                            => uses'[id] = uses[id] + 1 \/ id \in refused'
<1>1. IInv /\ [Next]_vars => [KeptOrDone]_vars
  <2>1. SUFFICES ASSUME IInv, Next, NEW id \in ApprovalId, ~Kept(id)
                 PROVE  uses'[id] = uses[id] + 1 \/ id \in refused'
    BY DEF Kept
  <2>2. ASSUME NEW app \in Apps, NEW command \in Commands
        PROVE  ~RunAllowed(app, command)
    BY <2>1, KeptWanes, EntriesInStore DEF RunAllowed, storeVars
  <2>3. ASSUME NEW app \in Apps, NEW command \in Commands
        PROVE  ~AskApproval(app, command)
    <3>1. SUFFICES ASSUME AskApproval(app, command) PROVE FALSE
      OBVIOUS
    <3>2. PICK new \in ApprovalId : new = next_id + 1 /\ new > next_id
      BY <2>1, <3>1, StoreAssumption
      DEF StoreAssumption, AskApproval, Create, ApprovalId, IInv, TypeOK, StoreTypeOK
    <3>3. entries[new] = Absent
      BY <2>1, <3>2 DEF IInv, Fresh
    <3>4. \A i \in ApprovalId \ {new} : entries'[i] = entries[i]
      BY <2>1, <3>1, <3>2 DEF AskApproval, Create, IInv, TypeOK, StoreTypeOK
    <3>5. QED
      BY <2>1, <3>3, <3>4 DEF Kept, Absent
  <2>4. ASSUME NEW app \in Apps, NEW command \in Commands, NEW i \in ApprovalId,
               RunWithApproval(app, command, i)
        PROVE  uses'[id] = uses[id] + 1
    <3>1. i = id /\ ConsumeResult(i, app, command) = "Ok"
      BY <2>1, <2>4, EntriesInStore, ConsumeWanes DEF RunWithApproval
    <3>2. QED
      BY <2>1, <2>4, <3>1 DEF RunWithApproval, IInv, TypeOK
  <2>5. ASSUME NEW i \in ApprovalId, ApprovePending(i)
        PROVE  FALSE
    <3>1. /\ entries' = DropTerminal(SetState(ExpirePending(entries), i, "Approved"))
          /\ entries \in Store
      BY <2>1, <2>5, EntriesInStore DEF ApprovePending, Approve
    <3>2. id = i
      BY <2>1, <3>1, OthersSwept DEF Kept
    <3>3. entries[i] # Absent => entries'[i] = [entries[i] EXCEPT !.state = "Approved"]
      BY <3>1, DecideOne
    <3>4. entries[id] \in ApprovalRecord /\ entries[id] # Absent
      BY <2>1, <3>1 DEF Kept, Store, Absent
    <3>5. QED
      BY <2>1, <3>2, <3>3, <3>4 DEF Kept, ApprovalRecord
  <2>6. ASSUME NEW i \in ApprovalId, RejectPending(i)
        PROVE  id \in refused'
    <3>1. /\ entries' = DropTerminal(SetState(ExpirePending(entries), i, "Rejected"))
          /\ entries \in Store
      BY <2>1, <2>6, EntriesInStore DEF RejectPending, Reject
    <3>2. id = i
      BY <2>1, <3>1, OthersSwept DEF Kept
    <3>3. entries[id] # Absent
      BY <2>1 DEF Kept, Absent
    <3>4. QED
      BY <2>6, <3>2, <3>3 DEF RejectPending
  <2>7. ~ListApprovals /\ ~Reap
    BY <2>1, EntriesInStore, SweepWanes DEF ListApprovals, ListPending, Reap, ReapExpired
  <2>8. ~TimePasses
    BY <2>1, EntriesInStore, TickWanes DEF TimePasses
  <2>9. QED
    BY <2>1, <2>2, <2>3, <2>4, <2>5, <2>6, <2>7, <2>8 DEF Next
<1>2. QED
  BY <1>1, InitIInv, NextIInv, PTL DEF Spec, ApprovedIsKept

\* The store under the shell handler implements the life cycle: what a
\* frontend is promised of an identifier holds for every number of apps,
\* commands and approvals, and however the sweeps fall.
THEOREM Refinement == Spec => ImplementsLifeCycle
BY InitLife, InitIInv, NextIInv, NextLife, PTL
DEF Spec, ImplementsLifeCycle, Consent!Spec, Life
=============================================================================
