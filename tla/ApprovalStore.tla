---------------------------- MODULE ApprovalStore ----------------------------
(***************************************************************************)
(* The in-memory store of shell approvals (kunkka-core, approval.rs).      *)
(*                                                                         *)
(* A worker whose shell command the manifest marks as "ask" gets a record  *)
(* in this store; a frontend approves or rejects it by its identifier; the *)
(* worker then presents the identifier again and consumes the record.      *)
(*                                                                         *)
(* created_at and Instant::now() are only ever compared through            *)
(* now - created_at >= APPROVAL_TTL, so a record keeps its age in units    *)
(* of the tick, saturated at Ttl, in place of its creation instant.        *)
(* The capability field is always "shell" and is left out.                 *)
(***************************************************************************)
EXTENDS Naturals

CONSTANTS
    Apps,          \* application identifiers
    Commands,      \* full command strings
    MaxApprovals,  \* bound on the approvals created in one life of the core
    Ttl            \* APPROVAL_TTL, in ticks

ASSUME StoreAssumption ==
    /\ MaxApprovals \in Nat
    /\ Ttl \in Nat \ {0}

VARIABLES
    entries,       \* BTreeMap<String, ApprovalRecord>
    next_id        \* the last identifier handed out (0: none yet)

storeVars == <<entries, next_id>>

ApprovalId == 1..MaxApprovals

ApprovalState == {"Pending", "Approved", "Rejected", "Expired"}

ApprovalRecord ==
    [app: Apps, command: Commands, state: ApprovalState, age: 0..Ttl]

\* What a lookup of an identifier without a record finds.
Absent == [state |-> "Absent"]

StoreTypeOK ==
    /\ entries \in [ApprovalId -> ApprovalRecord \cup {Absent}]
    /\ next_id \in 0..MaxApprovals

StoreInit ==
    /\ entries = [id \in ApprovalId |-> Absent]
    /\ next_id = 0

-----------------------------------------------------------------------------
(* The two sweeps every access path is built from.                         *)
(*                                                                         *)
(* An operator named ...Variant is the operator after it with one mistake; *)
(* no action uses it.  It shows that a property tells the two apart.       *)

ExpireAnyVariant(es) ==
    [id \in ApprovalId |->
        IF es[id] # Absent /\ es[id].age >= Ttl
        THEN [es[id] EXCEPT !.state = "Expired"]
        ELSE es[id]]

\* expire_pending_entries: only a pending record grows stale.
ExpirePending(es) ==
    [id \in ApprovalId |->
        IF es[id].state = "Pending" /\ es[id].age >= Ttl
        THEN [es[id] EXCEPT !.state = "Expired"]
        ELSE es[id]]

\* drop_terminal_entries: keep what is pending or approved.
DropTerminal(es) ==
    [id \in ApprovalId |->
        IF es[id].state \in {"Rejected", "Expired"} THEN Absent ELSE es[id]]

\* get_mut(id) followed by an assignment of the state, if there is a record.
SetState(es, id, s) ==
    IF es[id] = Absent THEN es ELSE [es EXCEPT ![id].state = s]

-----------------------------------------------------------------------------
(* The operations. *)

CreateReusingVariant(app, command) ==
    /\ next_id < MaxApprovals
    /\ next_id' = next_id + 1
    /\ \E id \in ApprovalId :
          /\ entries[id] = Absent /\ \A other \in 1..(id - 1) : entries[other] # Absent
          /\ entries' = [entries EXCEPT ![id] =
                            [app |-> app, command |-> command,
                             state |-> "Pending", age |-> 0]]

\* create: the counter goes up, whatever has left the store.
Create(app, command) ==
    /\ next_id < MaxApprovals
    /\ next_id' = next_id + 1
    /\ entries' = [entries EXCEPT ![next_id + 1] =
                      [app |-> app, command |-> command,
                       state |-> "Pending", age |-> 0]]

\* What list_pending answers: the records still pending after the sweep.
PendingIds == {id \in ApprovalId : ExpirePending(entries)[id].state = "Pending"}

ListPending ==
    /\ entries' = DropTerminal(ExpirePending(entries))
    /\ UNCHANGED next_id

Approve(id) ==
    /\ entries' = DropTerminal(SetState(ExpirePending(entries), id, "Approved"))
    /\ UNCHANGED next_id

RejectPendingOnlyVariant(id) ==
    /\ entries' = DropTerminal(
                      IF ExpirePending(entries)[id].state = "Pending"
                      THEN SetState(ExpirePending(entries), id, "Rejected")
                      ELSE ExpirePending(entries))
    /\ UNCHANGED next_id

Reject(id) ==
    /\ entries' = DropTerminal(SetState(ExpirePending(entries), id, "Rejected"))
    /\ UNCHANGED next_id

ReapWithoutDropVariant ==
    /\ entries' = ExpirePending(entries)
    /\ UNCHANGED next_id

ReapExpired ==
    /\ entries' = DropTerminal(ExpirePending(entries))
    /\ UNCHANGED next_id

ConsumeAnyAppVariant(id, app, command) ==
    LET entry == ExpirePending(entries)[id]
    IN  CASE entry = Absent -> "NotFound"
          [] entry # Absent /\ entry.command # command -> "Mismatch"
          [] OTHER -> IF entry.state = "Approved" THEN "Ok" ELSE entry.state

ConsumeAnyCommandVariant(id, app, command) ==
    LET entry == ExpirePending(entries)[id]
    IN  CASE entry = Absent -> "NotFound"
          [] entry # Absent /\ entry.app # app -> "Mismatch"
          [] OTHER -> IF entry.state = "Approved" THEN "Ok" ELSE entry.state

ConsumePendingVariant(id, app, command) ==
    LET entry == ExpirePending(entries)[id]
    IN  CASE entry = Absent -> "NotFound"
          [] entry # Absent /\ (entry.app # app \/ entry.command # command)
                -> "Mismatch"
          [] OTHER -> IF entry.state \in {"Approved", "Pending"} THEN "Ok"
                      ELSE entry.state

\* The Result of consume_approved: "Ok" or the ApprovalConsumeError.  The
\* match with the request is tested before the state of the record.
ConsumeResult(id, app, command) ==
    LET entry == ExpirePending(entries)[id]
    IN  CASE entry = Absent -> "NotFound"
          [] entry # Absent /\ (entry.app # app \/ entry.command # command)
                -> "Mismatch"
          [] OTHER -> IF entry.state = "Approved" THEN "Ok" ELSE entry.state

ConsumeKeepingVariant(id, app, command) ==
    /\ entries' = ExpirePending(entries)
    /\ UNCHANGED next_id

\* The store after consume_approved: a mismatch and a pending record stay,
\* every other answer removes the record.
ConsumeApproved(id, app, command) ==
    /\ entries' =
         IF ConsumeResult(id, app, command) \in {"NotFound", "Mismatch", "Pending"}
         THEN ExpirePending(entries)
         ELSE [ExpirePending(entries) EXCEPT ![id] = Absent]
    /\ UNCHANGED next_id

\* Time passes for every record.
Tick ==
    /\ entries' = [id \in ApprovalId |->
                      IF entries[id] = Absent \/ entries[id].age = Ttl
                      THEN entries[id]
                      ELSE [entries[id] EXCEPT !.age = @ + 1]]
    /\ UNCHANGED next_id
=============================================================================
