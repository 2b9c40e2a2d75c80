----------------------- MODULE TerminalInterfaceProofs -----------------------
(***************************************************************************)
(* That consent is informed within a life of the core, for every set of    *)
(* apps, commands and manifests, any number of tasks and any bounds.       *)
(***************************************************************************)
EXTENDS TerminalInterface, ShellCapabilityProofs

-----------------------------------------------------------------------------
(* What a step of the core leaves of what it said before. *)

\* A step of the shell capability keeps what an identifier was asked for.
LEMMA AskedIsKept ==
    ASSUME IInv, [Next]_vars
    PROVE  /\ next_id \in Nat /\ next_id' \in Nat
           /\ next_id <= next_id'
           /\ \A id \in ApprovalId : id <= next_id => asked'[id] = asked[id]
<1> USE DEF IInv, TypeOK, StoreTypeOK
<1>0. next_id \in Nat
  OBVIOUS
<1>1. ASSUME NEW app \in Apps, NEW command \in Commands, AskApproval(app, command)
      PROVE  /\ next_id' = next_id + 1
             /\ \A id \in ApprovalId : id <= next_id => asked'[id] = asked[id]
  BY <1>0, <1>1 DEF AskApproval, Create, ApprovalId
<1>2. ASSUME UNCHANGED <<next_id, asked>>
      PROVE  /\ next_id' = next_id
             /\ \A id \in ApprovalId : id <= next_id => asked'[id] = asked[id]
  BY <1>2
<1>3. CASE Next
  BY <1>0, <1>1, <1>2, <1>3 DEF Next, RunAllowed, RunWithApproval, ConsumeApproved,
     ApprovePending, Approve, RejectPending, Reject, ListApprovals, ListPending,
     Reap, ReapExpired, TimePasses, Tick, shellVars, storeVars
<1>4. CASE UNCHANGED vars
  BY <1>0, <1>2, <1>4 DEF vars, storeVars, shellVars
<1>5. QED
  BY <1>3, <1>4

\* So a true line stays true over such a step.
LEMMA TruthIsKept ==
    ASSUME IInv, [Next]_vars, life' = life, life \in Nat,
           NEW item \in Item, Truthful(item)
    PROVE  Truthful(item)'
<1>1. item.id \in ApprovalId /\ item.id \in Nat /\ item.life \in Nat
  BY TerminalAssumption DEF Item, ApprovalId, TerminalAssumption
<1>2. QED
  BY <1>1, AskedIsKept DEF Truthful

\* A restart leaves every line behind.
LEMMA TruthIsPast ==
    ASSUME life \in Nat, life' = life + 1, NEW item \in Item, Truthful(item)
    PROVE  Truthful(item)'
<1>1. item.life \in Nat
  BY TerminalAssumption DEF Item, TerminalAssumption
<1>2. QED
  BY <1>1 DEF Truthful

\* A line of a new list is true.
LEMMA NewLinesAreTrue ==
    ASSUME IInv, life \in 0..MaxLife, NEW id \in PendingIds
    PROVE  LineOf(id) \in Item /\ Truthful(LineOf(id))
<1>1. entries \in Store /\ id \in ApprovalId
  BY EntriesInStore DEF PendingIds
<1>2. entries[id] # Absent
  <2>1. ExpirePending(entries)[id].state = "Pending"
    BY DEF PendingIds
  <2>2. \/ ExpirePending(entries)[id] = entries[id]
        \/ entries[id] \in ApprovalRecord
    BY <1>1, ExpireOne
  <2>3. QED
    BY <2>1, <2>2, AbsentState DEF Absent
<1>3. entries[id] \in ApprovalRecord
  BY <1>1, <1>2 DEF Store
<1>4. id <= next_id
  BY <1>1, <1>2 DEF IInv, Fresh, TypeOK, StoreTypeOK, ApprovalId
<1>5. asked[id] = [app |-> entries[id].app, command |-> entries[id].command]
  BY <1>1, <1>2 DEF IInv, RecordsAccounted
<1>6. LineOf(id) \in Item
  BY <1>1, <1>3 DEF LineOf, Item, ApprovalRecord
<1>7. Truthful(LineOf(id))
  BY <1>4, <1>5 DEF Truthful, LineOf
<1>8. QED
  BY <1>6, <1>7

LEMMA NewListIsTrue ==
    ASSUME IInv, life \in 0..MaxLife, NEW ids \in Listings,
           NEW items, items = [i \in DOMAIN ids |-> LineOf(ids[i])]
    PROVE  /\ items \in Seq(Item)
           /\ \A i \in DOMAIN items : Truthful(items[i])
<1>1. PICK n \in 0..MaxApprovals : ids \in [1..n -> PendingIds]
  BY DEF Listings
<1>2. \A i \in 1..n : LineOf(ids[i]) \in Item /\ Truthful(LineOf(ids[i]))
  BY <1>1, NewLinesAreTrue
<1>3. items \in [1..n -> Item] /\ n \in Nat
  BY <1>1, <1>2, StoreAssumption DEF StoreAssumption
<1>4. items \in Seq(Item)
  BY <1>3
<1>5. QED
  BY <1>1, <1>2, <1>3, <1>4

-----------------------------------------------------------------------------
(* What one task does to the lines, and to the promise of a list. *)

\* Every line that is true stays true.
KeepsTruth == \A item \in Item : Truthful(item) => Truthful(item)'

\* A task is what its stage says.
LEMMA StageOf ==
    ASSUME NEW task \in Task \cup {Free}
    PROVE  /\ task.stage \in {"approve", "reject"} <=> task \in Deciding
           /\ task.stage = "loaded" <=> task \in Loaded
           /\ task.stage = "decided" <=> task \in Decided
           /\ task \in Deciding \cup Decided \cup {Free} => ~BringsList(task)
<1>1. task \in Deciding => task.stage \in {"approve", "reject"}
  BY DEF Deciding
<1>2. task \in Loaded => task.stage = "loaded"
  BY DEF Loaded
<1>3. task \in Decided => task.stage = "decided"
  BY DEF Decided
<1>4. /\ Listing.stage = "listing"
      /\ NotLoaded.stage = "not loaded"
      /\ Free.stage = "free"
  BY DEF Listing, NotLoaded, Free
<1>5. task \in {Listing, NotLoaded, Free} \cup Deciding \cup Loaded \cup Decided
  BY DEF Task
<1>6. QED
  BY <1>1, <1>2, <1>3, <1>4, <1>5 DEF BringsList

LEMMA TrueTaskKept ==
    ASSUME KeepsTruth, NEW task \in Task \cup {Free}, TrueTask(task)
    PROVE  TrueTask(task)'
<1>1. task \in Deciding => task.item \in Item
  BY DEF Deciding
<1>2. task \in Loaded => \A i \in DOMAIN task.items : task.items[i] \in Item
  BY DEF Loaded
<1>3. task \in Deciding => Truthful(task.item)'
  BY <1>1 DEF KeepsTruth, TrueTask
<1>4. task \in Loaded => \A i \in DOMAIN task.items : Truthful(task.items[i])'
  BY <1>2 DEF KeepsTruth, TrueTask
<1>5. QED
  BY <1>3, <1>4 DEF TrueTask

\* When one slot changes, the tasks stay true if its new task is.
LEMMA TasksStep ==
    ASSUME TerminalTypeOK, LinesAreTrue, KeepsTruth, NEW slot \in Slots,
           NEW task \in Task \cup {Free}, TrueTask(task)', Becomes(slot, task)
    PROVE  /\ tasks' \in [Slots -> Task \cup {Free}]
           /\ tasks'[slot] = task
           /\ \A s \in Slots \ {slot} : tasks'[s] = tasks[s]
           /\ \A s \in Slots : TrueTask(tasks[s])'
<1>1. /\ tasks' \in [Slots -> Task \cup {Free}]
      /\ tasks'[slot] = task
      /\ \A s \in Slots \ {slot} : tasks'[s] = tasks[s]
  BY DEF Becomes, TerminalTypeOK
<1>2. TrueTask(tasks[slot])'
  BY <1>1 DEF TrueTask, Truthful
<1>3. ASSUME NEW s \in Slots \ {slot}
      PROVE  TrueTask(tasks[s])'
  <2>1. PICK old \in Task \cup {Free} : old = tasks[s]
    BY DEF TerminalTypeOK
  <2>2. TrueTask(old)
    BY <2>1 DEF LinesAreTrue
  <2>3. TrueTask(old)' /\ tasks'[s] = old
    BY <1>1, <2>1, <2>2, TrueTaskKept
  <2>4. QED
    BY <2>3 DEF TrueTask, Truthful
<1>4. QED
  BY <1>1, <1>2, <1>3

\* The lines of the screen and the lines agreed to, left alone, stay true.
LEMMA LinesStep ==
    ASSUME TerminalTypeOK, LinesAreTrue, KeepsTruth
    PROVE  /\ UNCHANGED approvals => \A i \in DOMAIN approvals' : Truthful(approvals[i])'
           /\ UNCHANGED consents => \A c \in consents' : Truthful(c)'
           /\ UNCHANGED tasks => \A slot \in Slots : TrueTask(tasks[slot])'
<1>1. ASSUME UNCHANGED approvals, NEW i \in DOMAIN approvals
      PROVE  Truthful(approvals[i])'
  <2>1. PICK line \in Item : line = approvals[i]
    BY DEF TerminalTypeOK
  <2>2. Truthful(line)' /\ approvals'[i] = line
    BY <1>1, <2>1 DEF LinesAreTrue, KeepsTruth
  <2>3. QED
    BY <2>2 DEF Truthful
<1>2. ASSUME UNCHANGED consents, NEW c \in consents'
      PROVE  Truthful(c)'
  BY <1>2 DEF TerminalTypeOK, LinesAreTrue, KeepsTruth
<1>3. ASSUME UNCHANGED tasks, NEW slot \in Slots
      PROVE  TrueTask(tasks[slot])'
  <2>1. PICK old \in Task \cup {Free} : old = tasks[slot]
    BY DEF TerminalTypeOK
  <2>2. TrueTask(old)' /\ tasks'[slot] = old
    BY <1>3, <2>1, TrueTaskKept DEF LinesAreTrue
  <2>3. QED
    BY <2>2 DEF TrueTask, Truthful
<1>4. QED
  BY <1>1, <1>2, <1>3

-----------------------------------------------------------------------------
(* The store and the manifest under the steps of this module. *)

\* Every step is one of the shell capability, or a restart.
LEMMA CoreStep ==
    ASSUME TerminalIInv, [TerminalNext]_allVars
    PROVE  (life' = life /\ [Next]_vars) \/ Restart
<1>1. UNCHANGED coreVars => life' = life /\ UNCHANGED vars
  BY DEF coreVars
<1>2. ASSUME NEW slot \in Slots, ServeList(slot)
      PROVE  life' = life /\ Next
  BY <1>2 DEF ServeList, Next
<1>3. ASSUME NEW slot \in Slots, ServeApprove(slot) \/ ServeReject(slot)
      PROVE  life' = life /\ Next
  <2>1. tasks[slot] \in Deciding
    BY <1>3, StageOf DEF ServeApprove, ServeReject, TerminalIInv, TerminalTypeOK
  <2>2. tasks[slot].item.id \in ApprovalId
    BY <2>1 DEF Deciding, Item
  <2>3. QED
    BY <1>3, <2>2 DEF ServeApprove, ServeReject, Next
<1>4. Elsewhere => life' = life /\ Next
  BY DEF Elsewhere, Next
<1>5. TabKey \/ ArrowKey \/ DecisionKey("approve") \/ DecisionKey("reject")
         => UNCHANGED coreVars
  BY DEF TabKey, ArrowKey, DecisionKey
<1>6. ASSUME NEW slot \in Slots,
             Unreachable(slot) \/ ListArrives(slot) \/ DecisionArrives(slot)
      PROVE  UNCHANGED coreVars
  BY <1>6 DEF Unreachable, ListArrives, DecisionArrives
<1>7. UNCHANGED allVars => UNCHANGED coreVars
  BY DEF allVars
<1>8. QED
  BY <1>1, <1>2, <1>3, <1>4, <1>5, <1>6, <1>7 DEF TerminalNext

LEMMA RestartIInv == Restart => IInv'
BY StoreAssumption DEF StoreAssumption, Restart, IInv, TypeOK, StoreTypeOK, Fresh,
   RecordsAccounted, ExecutionsAccounted, SingleUse, RejectionIsFinal, ApprovalId,
   Absent, Nothing

LEMMA CoreInvariance ==
    ASSUME TerminalIInv, [TerminalNext]_allVars
    PROVE  IInv' /\ life' \in 0..MaxLife /\ KeepsTruth
<1>1. IInv /\ life \in 0..MaxLife /\ life \in Nat
  BY TerminalAssumption DEF TerminalAssumption, TerminalIInv, TerminalTypeOK
<1>2. CASE life' = life /\ [Next]_vars
  <2>1. IInv'
    BY <1>1, <1>2, NextIInv
  <2>2. KeepsTruth
    BY <1>1, <1>2, TruthIsKept DEF KeepsTruth
  <2>3. QED
    BY <1>1, <1>2, <2>1, <2>2
<1>3. CASE Restart
  <2>1. life' = life + 1 /\ life' \in 0..MaxLife
    BY <1>1, <1>3, TerminalAssumption DEF TerminalAssumption, Restart
  <2>2. KeepsTruth
    BY <1>1, <2>1, TruthIsPast DEF KeepsTruth
  <2>3. QED
    BY <1>3, <2>1, <2>2, RestartIInv
<1>4. QED
  BY <1>2, <1>3, CoreStep

LEMMA TerminalInitIInv == TerminalInit => TerminalIInv
<1>1. SUFFICES ASSUME TerminalInit
               PROVE  TerminalIInv
  OBVIOUS
<1>2. IInv /\ granted = {}
  BY <1>1, InitIInv DEF TerminalInit, Init
<1>3. TerminalTypeOK
  BY <1>1, <1>2, TerminalAssumption DEF TerminalAssumption, TerminalInit, IInv, TerminalTypeOK
<1>4. \A slot \in Slots : tasks[slot] = Free
  BY <1>1 DEF TerminalInit
<1>5. Free \notin Deciding /\ Free \notin Loaded
  BY StageOf DEF Free
<1>6. LinesAreTrue
  BY <1>1, <1>4, <1>5 DEF TerminalInit, LinesAreTrue, TrueTask
<1>7. SelectionInList /\ LoadingIsServed /\ GrantsHaveConsent
  BY <1>1, <1>2 DEF TerminalInit, SelectionInList, LoadingIsServed, GrantsHaveConsent
<1>8. QED
  BY <1>2, <1>3, <1>6, <1>7 DEF TerminalIInv

-----------------------------------------------------------------------------
(* The invariant is preserved, action by action. *)

\* What every step below starts from: the core's part is done.
LEMMA TerminalParts ==
    ASSUME TerminalIInv, [TerminalNext]_allVars
    PROVE  /\ IInv' /\ TypeOK' /\ life' \in 0..MaxLife /\ KeepsTruth
           /\ TerminalTypeOK /\ LinesAreTrue /\ SelectionInList
           /\ LoadingIsServed /\ GrantsHaveConsent
           /\ UNCHANGED <<granted, consents>> => GrantsHaveConsent'
           /\ UNCHANGED <<approvals, selected_index>> => SelectionInList'
           /\ UNCHANGED <<approvals_status, tasks>> => LoadingIsServed'
<1>1. IInv' /\ life' \in 0..MaxLife /\ KeepsTruth
  BY CoreInvariance
<1>2. TypeOK'
  BY <1>1 DEF IInv
<1>3. /\ TerminalTypeOK /\ LinesAreTrue /\ SelectionInList
      /\ LoadingIsServed /\ GrantsHaveConsent
  BY DEF TerminalIInv
<1>4. UNCHANGED <<granted, consents>> => GrantsHaveConsent'
  BY <1>3 DEF GrantsHaveConsent
<1>5. UNCHANGED <<approvals, selected_index>> => SelectionInList'
  BY <1>3 DEF SelectionInList
<1>6. UNCHANGED <<approvals_status, tasks>> => LoadingIsServed'
  BY <1>3 DEF LoadingIsServed, BringsList
<1>7. QED
  BY <1>1, <1>2, <1>3, <1>4, <1>5, <1>6

\* A key that spawns a task uses a free slot.
LEMMA SpawnStep ==
    ASSUME TerminalIInv, [TerminalNext]_allVars, NEW task \in Task,
           TrueTask(task), Spawn(task), UNCHANGED <<coreVars, approvals, selected_index>>,
           current_view' \in {"Ping", "Approvals"},
           \/ UNCHANGED approvals_status
           \/ approvals_status' = "Loading" /\ BringsList(task)
    PROVE  TerminalIInv'
<1>1. PICK slot \in Slots : tasks[slot] = Free /\ Becomes(slot, task)
  BY DEF Spawn, Becomes
<1>2. UNCHANGED <<granted, consents>>
  BY DEF coreVars, vars, shellVars
<1>3. /\ tasks' \in [Slots -> Task \cup {Free}]
      /\ tasks'[slot] = task
      /\ \A s \in Slots \ {slot} : tasks'[s] = tasks[s]
      /\ \A s \in Slots : TrueTask(tasks[s])'
  <2>1. TrueTask(task)'
    BY TrueTaskKept, TerminalParts
  <2>2. QED
    BY <1>1, <2>1, TasksStep, TerminalParts
<1>4. TerminalTypeOK'
  BY <1>2, <1>3, TerminalParts DEF TerminalTypeOK
<1>5. LinesAreTrue'
  BY <1>2, <1>3, LinesStep, TerminalParts DEF LinesAreTrue
<1>6. LoadingIsServed'
  <2>1. CASE approvals_status' = "Loading" /\ BringsList(task)
    BY <1>3, <2>1 DEF LoadingIsServed, BringsList
  <2>2. CASE UNCHANGED approvals_status
    <3>1. ~BringsList(Free)
      BY StageOf
    <3>2. QED
      BY <1>1, <1>3, <2>2, <3>1, TerminalParts DEF LoadingIsServed, BringsList
  <2>3. QED
    BY <2>1, <2>2
<1>7. QED
  BY <1>2, <1>4, <1>5, <1>6, TerminalParts DEF TerminalIInv

LEMMA TabKeyStep ==
    ASSUME TerminalIInv, TabKey
    PROVE  TerminalIInv'
<1>1. [TerminalNext]_allVars
  BY DEF TerminalNext
<1>2. current_view' \in {"Ping", "Approvals"} /\ UNCHANGED <<coreVars, approvals, selected_index>>
  BY DEF TabKey
<1>3. CASE Spawn(Listing) /\ approvals_status' = "Loading"
  <2>1. Listing \in Task /\ TrueTask(Listing) /\ BringsList(Listing)
    <3>1. Listing \in Task /\ Listing.stage = "listing"
      BY DEF Listing, Task
    <3>2. QED
      BY <3>1, StageOf DEF TrueTask, BringsList
  <2>2. QED
    BY <1>1, <1>2, <1>3, <2>1, SpawnStep
<1>4. CASE UNCHANGED <<approvals_status, tasks>>
  <2>1. UNCHANGED <<granted, consents>>
    BY <1>2 DEF coreVars, vars, shellVars
  <2>2. TerminalTypeOK'
    BY <1>1, <1>2, <1>4, <2>1, TerminalParts DEF TerminalTypeOK
  <2>3. LinesAreTrue'
    BY <1>1, <1>2, <1>4, <2>1, LinesStep, TerminalParts DEF LinesAreTrue
  <2>4. QED
    BY <1>1, <1>2, <1>4, <2>1, <2>2, <2>3, TerminalParts DEF TerminalIInv
<1>5. QED
  BY <1>3, <1>4 DEF TabKey

LEMMA ArrowKeyStep ==
    ASSUME TerminalIInv, ArrowKey
    PROVE  TerminalIInv'
<1>1. [TerminalNext]_allVars
  BY DEF TerminalNext
<1>2. UNCHANGED <<granted, consents, approvals, approvals_status, tasks, current_view>>
  BY DEF ArrowKey, coreVars, vars, shellVars
<1>3. selected_index \in Nat /\ Len(approvals) \in Nat
  BY <1>1, TerminalParts DEF TerminalTypeOK
<1>4. selected_index' \in Nat /\ SelectionInList'
  BY <1>1, <1>2, <1>3, TerminalParts DEF ArrowKey, SelectionInList
<1>5. TerminalTypeOK'
  BY <1>1, <1>2, <1>4, TerminalParts DEF TerminalTypeOK
<1>6. LinesAreTrue'
  BY <1>1, <1>2, LinesStep, TerminalParts DEF LinesAreTrue
<1>7. QED
  BY <1>1, <1>2, <1>4, <1>5, <1>6, TerminalParts DEF TerminalIInv

LEMMA DecisionKeyStep ==
    ASSUME TerminalIInv, NEW decision \in {"approve", "reject"}, DecisionKey(decision)
    PROVE  TerminalIInv'
<1>1. [TerminalNext]_allVars
  BY DEF TerminalNext
<1>2. PICK line \in Item : line = approvals[selected_index + 1] /\ Truthful(line)
  <2>1. selected_index \in Nat /\ approvals \in Seq(Item) /\ selected_index < Len(approvals)
    BY <1>1, TerminalParts DEF TerminalTypeOK, DecisionKey
  <2>2. selected_index + 1 \in DOMAIN approvals
    BY <2>1
  <2>3. QED
    BY <1>1, <2>1, <2>2, TerminalParts DEF LinesAreTrue
<1>3. PICK task : task = [stage |-> decision, item |-> line]
  OBVIOUS
<1>4. task \in Deciding /\ task.item = line
  BY <1>3 DEF Deciding
<1>5. task \in Task /\ TrueTask(task)
  <2>1. task \in Task
    BY <1>4 DEF Task
  <2>2. task \notin Loaded
    BY <1>3, <2>1, StageOf
  <2>3. QED
    BY <1>2, <1>4, <2>1, <2>2 DEF TrueTask
<1>6. Spawn(task) /\ UNCHANGED <<coreVars, screenVars>>
  BY <1>2, <1>3 DEF DecisionKey
<1>7. UNCHANGED <<approvals, selected_index, approvals_status, current_view>>
  BY <1>6 DEF screenVars
<1>8. current_view' \in {"Ping", "Approvals"}
  BY <1>1, <1>7, TerminalParts DEF TerminalTypeOK
<1>9. QED
  BY <1>1, <1>5, <1>6, <1>7, <1>8, SpawnStep

\* A task that goes on, the screen left as it is.
LEMMA SlotStep ==
    ASSUME TerminalIInv, [TerminalNext]_allVars, NEW slot \in Slots,
           NEW task \in Task \cup {Free}, Becomes(slot, task), TrueTask(task)',
           BringsList(tasks[slot]) => BringsList(task),
           UNCHANGED screenVars, consents' \subseteq Item,
           \A c \in consents' : Truthful(c)', GrantsHaveConsent'
    PROVE  TerminalIInv'
<1>1. UNCHANGED <<current_view, approvals_status, approvals, selected_index>>
  BY DEF screenVars
<1>2. /\ tasks' \in [Slots -> Task \cup {Free}]
      /\ tasks'[slot] = task
      /\ \A s \in Slots \ {slot} : tasks'[s] = tasks[s]
      /\ \A s \in Slots : TrueTask(tasks[s])'
  BY TasksStep, TerminalParts
<1>3. TerminalTypeOK'
  BY <1>1, <1>2, TerminalParts DEF TerminalTypeOK
<1>4. LinesAreTrue'
  BY <1>1, <1>2, LinesStep, TerminalParts DEF LinesAreTrue
<1>5. LoadingIsServed'
  BY <1>1, <1>2, TerminalParts DEF LoadingIsServed, BringsList
<1>6. QED
  BY <1>1, <1>3, <1>4, <1>5, TerminalParts DEF TerminalIInv

\* The same, when the core records no consent.
LEMMA QuietSlotStep ==
    ASSUME TerminalIInv, [TerminalNext]_allVars, NEW slot \in Slots,
           NEW task \in Task \cup {Free}, Becomes(slot, task), TrueTask(task)',
           BringsList(tasks[slot]) => BringsList(task),
           UNCHANGED screenVars, UNCHANGED <<granted, consents>>
    PROVE  TerminalIInv'
<1>1. consents' \subseteq Item /\ GrantsHaveConsent'
  BY TerminalParts DEF TerminalTypeOK
<1>2. \A c \in consents' : Truthful(c)'
  BY LinesStep, TerminalParts
<1>3. QED
  BY <1>1, <1>2, SlotStep

\* A task that holds no line holds no false one.
LEMMA PlainTask ==
    /\ \A ok \in BOOLEAN : [stage |-> "decided", ok |-> ok] \in Decided
    /\ \A task \in {Listing, NotLoaded, Free} \cup Decided :
          /\ task \in Task \cup {Free}
          /\ task \notin Deciding \cup Loaded
<1>1. ASSUME NEW ok \in BOOLEAN
      PROVE  [stage |-> "decided", ok |-> ok] \in Decided
  BY DEF Decided
<1>2. ASSUME NEW task \in {Listing, NotLoaded, Free} \cup Decided
      PROVE  /\ task \in Task \cup {Free}
             /\ task \notin Deciding \cup Loaded
  <2>1. task \in Task \cup {Free}
    BY DEF Task
  <2>2. Listing.stage = "listing" /\ NotLoaded.stage = "not loaded" /\ Free.stage = "free"
    BY DEF Listing, NotLoaded, Free
  <2>3. task.stage \in {"listing", "not loaded", "free", "decided"}
    BY <2>1, <2>2, StageOf
  <2>4. QED
    BY <2>1, <2>3, StageOf
<1>3. QED
  BY <1>1, <1>2

LEMMA ServeListStep ==
    ASSUME TerminalIInv, NEW slot \in Slots, ServeList(slot)
    PROVE  TerminalIInv'
<1>1. [TerminalNext]_allVars
  BY DEF TerminalNext
<1>2. UNCHANGED screenVars /\ UNCHANGED <<granted, consents>>
  BY DEF ServeList, ListApprovals, shellVars
<1>3. CASE Becomes(slot, NotLoaded)
  <2>1. TrueTask(NotLoaded)' /\ NotLoaded \in Task \cup {Free} /\ BringsList(NotLoaded)
    BY PlainTask DEF TrueTask, BringsList
  <2>2. QED
    BY <1>1, <1>2, <1>3, <2>1, QuietSlotStep
<1>4. ASSUME NEW ids \in Listings,
             Becomes(slot, [stage |-> "loaded",
                            items |-> [i \in DOMAIN ids |-> LineOf(ids[i])]])
      PROVE  TerminalIInv'
  <2>1. PICK items : items = [i \in DOMAIN ids |-> LineOf(ids[i])]
    OBVIOUS
  <2>2. items \in Seq(Item) /\ \A i \in DOMAIN items : Truthful(items[i])
    BY <2>1, NewListIsTrue DEF TerminalIInv, TerminalTypeOK
  <2>3. PICK task : task = [stage |-> "loaded", items |-> items]
    OBVIOUS
  <2>4. task \in Loaded /\ task.items = items
    BY <2>2, <2>3 DEF Loaded
  <2>5. task \in Task /\ task \notin Deciding /\ BringsList(task)
    BY <2>3, <2>4, StageOf DEF Task, BringsList
  <2>6. TrueTask(task)
    BY <2>2, <2>4, <2>5 DEF TrueTask
  <2>7. TrueTask(task)'
    BY <1>1, <2>5, <2>6, TrueTaskKept, TerminalParts
  <2>8. Becomes(slot, task)
    BY <1>4, <2>1, <2>3
  <2>9. QED
    BY <1>1, <1>2, <2>5, <2>7, <2>8, QuietSlotStep
<1>5. QED
  BY <1>3, <1>4 DEF ServeList

LEMMA ServeRejectStep ==
    ASSUME TerminalIInv, NEW slot \in Slots, ServeReject(slot)
    PROVE  TerminalIInv'
<1>1. [TerminalNext]_allVars
  BY DEF TerminalNext
<1>2. UNCHANGED screenVars /\ UNCHANGED <<granted, consents>>
  BY DEF ServeReject, RejectPending
<1>3. PICK ok \in BOOLEAN : Becomes(slot, [stage |-> "decided", ok |-> ok])
  BY DEF ServeReject
<1>4. PICK task \in Decided : task = [stage |-> "decided", ok |-> ok]
  BY PlainTask
<1>5. TrueTask(task)' /\ task \in Task \cup {Free} /\ Becomes(slot, task)
  BY <1>3, <1>4, PlainTask DEF TrueTask
<1>6. ~BringsList(tasks[slot])
  BY <1>1, StageOf, TerminalParts DEF ServeReject, TerminalTypeOK
<1>7. QED
  BY <1>1, <1>2, <1>5, <1>6, QuietSlotStep

LEMMA ServeApproveStep ==
    ASSUME TerminalIInv, NEW slot \in Slots, ServeApprove(slot)
    PROVE  TerminalIInv'
<1>1. [TerminalNext]_allVars
  BY DEF TerminalNext
<1>2. UNCHANGED screenVars
  BY DEF ServeApprove
<1>3. PICK ok \in BOOLEAN : Becomes(slot, [stage |-> "decided", ok |-> ok])
  BY DEF ServeApprove
<1>4. PICK task \in Decided : task = [stage |-> "decided", ok |-> ok]
  BY PlainTask
<1>5. TrueTask(task)' /\ task \in Task \cup {Free} /\ Becomes(slot, task)
  BY <1>3, <1>4, PlainTask DEF TrueTask
<1>6. tasks[slot] \in Deciding /\ ~BringsList(tasks[slot])
  BY <1>1, StageOf, TerminalParts DEF ServeApprove, TerminalTypeOK
<1>7. PICK line \in Item : line = tasks[slot].item /\ Truthful(line)
  BY <1>1, <1>6, TerminalParts DEF Deciding, LinesAreTrue, TrueTask
<1>8. /\ granted' = IF entries[line.id] = Absent THEN granted ELSE granted \cup {line.id}
      /\ consents' = IF entries[line.id] = Absent THEN consents ELSE consents \cup {line}
  BY <1>7 DEF ServeApprove, ApprovePending
<1>9. consents' \subseteq Item
  BY <1>1, <1>8, TerminalParts DEF TerminalTypeOK
<1>10. \A c \in consents : Truthful(c)
  BY <1>1, TerminalParts DEF LinesAreTrue
<1>11. \A c \in consents' : Truthful(c)'
  BY <1>1, <1>7, <1>8, <1>9, <1>10, TerminalParts DEF KeepsTruth
<1>12. GrantsHaveConsent'
  BY <1>1, <1>8, TerminalParts DEF GrantsHaveConsent
<1>13. QED
  BY <1>1, <1>2, <1>5, <1>6, <1>9, <1>11, <1>12, SlotStep

LEMMA UnreachableStep ==
    ASSUME TerminalIInv, NEW slot \in Slots, Unreachable(slot)
    PROVE  TerminalIInv'
<1>1. [TerminalNext]_allVars
  BY DEF TerminalNext
<1>2. UNCHANGED screenVars /\ UNCHANGED <<granted, consents>>
  BY DEF Unreachable, coreVars, vars, shellVars
<1>3. CASE Becomes(slot, NotLoaded)
  <2>1. TrueTask(NotLoaded)' /\ NotLoaded \in Task \cup {Free} /\ BringsList(NotLoaded)
    BY PlainTask DEF TrueTask, BringsList
  <2>2. QED
    BY <1>1, <1>2, <1>3, <2>1, QuietSlotStep
<1>4. CASE /\ tasks[slot].stage \in {"approve", "reject"}
           /\ Becomes(slot, [stage |-> "decided", ok |-> FALSE])
  <2>1. PICK task \in Decided : task = [stage |-> "decided", ok |-> FALSE]
    BY PlainTask
  <2>2. TrueTask(task)' /\ task \in Task \cup {Free} /\ Becomes(slot, task)
    BY <1>4, <2>1, PlainTask DEF TrueTask
  <2>3. ~BringsList(tasks[slot])
    BY <1>1, <1>4, StageOf, TerminalParts DEF TerminalTypeOK
  <2>4. QED
    BY <1>1, <1>2, <2>2, <2>3, QuietSlotStep
<1>5. QED
  BY <1>3, <1>4 DEF Unreachable

\* The clamp of set_approvals keeps the selection in the list.
LEMMA SetApprovalsSelects ==
    ASSUME NEW items \in Seq(Item), selected_index \in Nat, SetApprovals(items)
    PROVE  selected_index' \in Nat /\ SelectionInList'
<1>1. Len(items) \in Nat /\ approvals' = items
  BY DEF SetApprovals
<1>2. items # <<>> => Len(items) > 0
  BY <1>1
<1>3. QED
  BY <1>1, <1>2 DEF SetApprovals, SelectionInList

LEMMA ListArrivesStep ==
    ASSUME TerminalIInv, NEW slot \in Slots, ListArrives(slot)
    PROVE  TerminalIInv'
<1>1. [TerminalNext]_allVars
  BY DEF TerminalNext
<1>2. UNCHANGED <<granted, consents, current_view>> /\ Becomes(slot, Free)
  BY DEF ListArrives, coreVars, vars, shellVars
<1>3. /\ tasks' \in [Slots -> Task \cup {Free}]
      /\ \A s \in Slots : TrueTask(tasks[s])'
  <2>1. TrueTask(Free)' /\ Free \in Task \cup {Free}
    BY PlainTask DEF TrueTask
  <2>2. QED
    BY <1>1, <1>2, <2>1, TasksStep, TerminalParts
<1>4. approvals_status' \in {"Loaded", "Error"} /\ LoadingIsServed'
  BY DEF ListArrives, SetApprovals, LoadingIsServed
<1>5. /\ approvals' \in Seq(Item)
      /\ \A i \in DOMAIN approvals' : Truthful(approvals[i])'
      /\ selected_index' \in Nat /\ SelectionInList'
  <2>1. CASE tasks[slot].stage = "loaded" /\ SetApprovals(tasks[slot].items)
    <3>1. tasks[slot] \in Loaded
      BY <1>1, <2>1, StageOf, TerminalParts DEF TerminalTypeOK
    <3>2. PICK items \in Seq(Item) : items = tasks[slot].items
      BY <3>1 DEF Loaded
    <3>3. \A i \in DOMAIN items : items[i] \in Item /\ Truthful(items[i])
      BY <1>1, <3>1, <3>2, TerminalParts DEF LinesAreTrue, TrueTask
    <3>4. SetApprovals(items) /\ approvals' = items
      BY <2>1, <3>2 DEF SetApprovals
    <3>5. ASSUME NEW i \in DOMAIN approvals'
          PROVE  Truthful(approvals[i])'
      <4>1. PICK line \in Item : line = items[i] /\ Truthful(line)
        BY <3>3, <3>4
      <4>2. Truthful(line)' /\ approvals'[i] = line
        BY <1>1, <3>4, <4>1, TerminalParts DEF KeepsTruth
      <4>3. QED
        BY <4>2 DEF Truthful
    <3>6. selected_index \in Nat
      BY <1>1, TerminalParts DEF TerminalTypeOK
    <3>7. QED
      BY <3>4, <3>5, <3>6, SetApprovalsSelects
  <2>2. CASE UNCHANGED <<approvals, selected_index>>
    BY <1>1, <2>2, LinesStep, TerminalParts DEF TerminalTypeOK
  <2>3. QED
    BY <2>1, <2>2 DEF ListArrives
<1>6. TerminalTypeOK'
  BY <1>1, <1>2, <1>3, <1>4, <1>5, TerminalParts DEF TerminalTypeOK
<1>7. LinesAreTrue'
  BY <1>1, <1>2, <1>3, <1>5, LinesStep, TerminalParts DEF LinesAreTrue
<1>8. QED
  BY <1>1, <1>2, <1>4, <1>5, <1>6, <1>7, TerminalParts DEF TerminalIInv

LEMMA DecisionArrivesStep ==
    ASSUME TerminalIInv, NEW slot \in Slots, DecisionArrives(slot)
    PROVE  TerminalIInv'
<1>1. [TerminalNext]_allVars
  BY DEF TerminalNext
<1>2. UNCHANGED <<granted, consents, current_view, approvals, selected_index>>
  BY DEF DecisionArrives, coreVars, vars, shellVars
<1>3. approvals_status' = IF tasks[slot].ok THEN "Loading" ELSE "Error"
  BY DEF DecisionArrives
<1>4. PICK task \in {Listing, Free} :
         /\ task = (IF tasks[slot].ok THEN Listing ELSE Free)
         /\ Becomes(slot, task)
  BY DEF DecisionArrives
<1>5. /\ tasks' \in [Slots -> Task \cup {Free}]
      /\ tasks'[slot] = task
      /\ \A s \in Slots : TrueTask(tasks[s])'
  <2>1. TrueTask(task)' /\ task \in Task \cup {Free}
    BY PlainTask DEF TrueTask
  <2>2. QED
    BY <1>1, <1>4, <2>1, TasksStep, TerminalParts
<1>6. LoadingIsServed'
  BY <1>3, <1>4, <1>5 DEF LoadingIsServed, BringsList
<1>7. TerminalTypeOK'
  BY <1>1, <1>2, <1>3, <1>5, TerminalParts DEF TerminalTypeOK
<1>8. LinesAreTrue'
  BY <1>1, <1>2, <1>5, LinesStep, TerminalParts DEF LinesAreTrue
<1>9. QED
  BY <1>1, <1>2, <1>6, <1>7, <1>8, TerminalParts DEF TerminalIInv

\* Steps of the core alone leave the interface as it is.
LEMMA ElsewhereStep ==
    ASSUME TerminalIInv, [TerminalNext]_allVars, UNCHANGED <<screenVars, tasks>>,
           consents' \subseteq Item, \A c \in consents' : Truthful(c)',
           GrantsHaveConsent'
    PROVE  TerminalIInv'
<1>1. UNCHANGED <<current_view, approvals_status, approvals, selected_index, tasks>>
  BY DEF screenVars
<1>2. TerminalTypeOK'
  BY <1>1, TerminalParts DEF TerminalTypeOK
<1>3. LinesAreTrue'
  BY <1>1, LinesStep, TerminalParts DEF LinesAreTrue
<1>4. QED
  BY <1>1, <1>2, <1>3, TerminalParts DEF TerminalIInv

LEMMA TerminalNextIInv == TerminalIInv /\ [TerminalNext]_allVars => TerminalIInv'
<1>1. SUFFICES ASSUME TerminalIInv, [TerminalNext]_allVars
               PROVE  TerminalIInv'
  OBVIOUS
<1>2. CASE TabKey \/ ArrowKey \/ DecisionKey("approve") \/ DecisionKey("reject")
  BY <1>1, <1>2, TabKeyStep, ArrowKeyStep, DecisionKeyStep
<1>3. CASE \E slot \in Slots :
              \/ ServeList(slot) \/ ServeApprove(slot) \/ ServeReject(slot)
              \/ Unreachable(slot)
              \/ ListArrives(slot) \/ DecisionArrives(slot)
  BY <1>1, <1>3, ServeListStep, ServeApproveStep, ServeRejectStep, UnreachableStep,
     ListArrivesStep, DecisionArrivesStep
<1>4. CASE UNCHANGED <<granted, consents, screenVars, tasks>>
  <2>1. consents' \subseteq Item /\ GrantsHaveConsent'
    BY <1>1, <1>4, TerminalParts DEF TerminalTypeOK
  <2>2. \A c \in consents' : Truthful(c)'
    BY <1>1, <1>4, LinesStep, TerminalParts
  <2>3. QED
    BY <1>1, <1>4, <2>1, <2>2, ElsewhereStep
<1>5. CASE Restart
  <2>1. consents' = {} /\ granted' = {} /\ UNCHANGED <<screenVars, tasks>>
    BY <1>5 DEF Restart
  <2>2. GrantsHaveConsent'
    BY <2>1 DEF GrantsHaveConsent
  <2>3. QED
    BY <1>1, <2>1, <2>2, ElsewhereStep
<1>6. Elsewhere => UNCHANGED <<granted, consents, screenVars, tasks>>
  BY DEF Elsewhere, AskApproval, RunWithApproval, Reap, TimePasses, shellVars
<1>7. UNCHANGED allVars => UNCHANGED <<granted, consents, screenVars, tasks>>
  BY DEF allVars, coreVars, vars, shellVars
<1>8. QED
  BY <1>1, <1>2, <1>3, <1>4, <1>5, <1>6, <1>7 DEF TerminalNext

-----------------------------------------------------------------------------

\* The invariant of the terminal interface and the core, for any number of
\* tasks, approvals and restarts.
THEOREM TerminalInvariance == TerminalSpec => []TerminalIInv
BY TerminalInitIInv, TerminalNextIInv, PTL DEF TerminalSpec

\* Whoever agreed to a command that ran had seen that command, unless the core
\* restarted in between (event.rs:103-117, app.rs:103-105).
THEOREM ConsentIsInformed == TerminalSpec => []ConsentWasInformed
<1>1. TerminalIInv => ConsentWasInformed
  <2>1. SUFFICES ASSUME TerminalIInv, NEW e \in executed, e.approval # NoApproval
                 PROVE  \E c \in consents :
                           /\ c.id = e.approval
                           /\ c.life = life => c.app = e.app /\ c.command = e.command
    BY DEF ConsentWasInformed
  <2>2. /\ e.approval \in granted
        /\ asked[e.approval] = [app |-> e.app, command |-> e.command]
    BY <2>1 DEF TerminalIInv, IInv, ExecutionsAccounted
  <2>3. PICK c \in consents : c.id = e.approval /\ Truthful(c)
    BY <2>1, <2>2 DEF TerminalIInv, GrantsHaveConsent, LinesAreTrue
  <2>4. ASSUME c.life = life
        PROVE  c.app = e.app /\ c.command = e.command
    <3>1. [app |-> c.app, command |-> c.command] = [app |-> e.app, command |-> e.command]
      BY <2>2, <2>3, <2>4 DEF Truthful
    <3>2. QED
      BY <3>1
  <2>5. QED
    BY <2>3, <2>4
<1>2. QED
  BY <1>1, TerminalInvariance, PTL

\* A screen that says it is loading has a list on its way (event.rs:38-52).
THEOREM LoadingIsAlwaysServed == TerminalSpec => []LoadingIsServed
<1>1. TerminalIInv => LoadingIsServed
  BY DEF TerminalIInv
<1>2. QED
  BY <1>1, TerminalInvariance, PTL
=============================================================================
