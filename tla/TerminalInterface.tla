-------------------------- MODULE TerminalInterface --------------------------
(***************************************************************************)
(* The terminal interface (kunkka-tui, app.rs and event.rs) in its view of *)
(* approvals, deciding over the store of ShellCapability while workers ask *)
(* and retry, and while the core may restart.                              *)
(*                                                                         *)
(* Each request goes out from a task of its own, over a connection of its  *)
(* own: the core serves tasks in any order, and their answers reach the    *)
(* screen in any order (the channel of one place makes a task wait its     *)
(* turn, which any order already covers).  An answer may be lost after the *)
(* core has acted.                                                         *)
(*                                                                         *)
(* life counts the restarts of the core; a line of a list carries the life *)
(* it was read in.  life, consents and the history variables of            *)
(* ShellCapability are observations, about the present life of the core.   *)
(***************************************************************************)
EXTENDS ShellCapability, Sequences

CONSTANTS
    KeyOrder,      \* pairs of identifiers in the order of their strings, in
                   \* which approval-10 comes before approval-2
    Slots,         \* bound: tasks at one time
    MaxLife        \* bound: restarts of the core

ASSUME TerminalAssumption ==
    /\ MaxLife \in Nat
    /\ KeyOrder \subseteq ApprovalId \X ApprovalId

VARIABLES
    life,              \* restarts so far
    consents,          \* the lines that were agreed to, as the core met them
    current_view,      \* App::current_view
    approvals_status,  \* App::approvals_status
    approvals,         \* App::approvals
    selected_index,    \* App::selected_index
    tasks              \* the tasks spawned by handle_key_event

coreVars == <<vars, life, consents>>
screenVars == <<current_view, approvals_status, approvals, selected_index>>
allVars == <<coreVars, screenVars, tasks>>

Item == [id: ApprovalId, app: Apps, command: Commands, life: 0..MaxLife]

\* A task on its way to the core, or back with what it will send the screen.
Listing == [stage |-> "listing"]
Deciding == [stage: {"approve", "reject"}, item: Item]
Loaded == [stage: {"loaded"}, items: Seq(Item)]
NotLoaded == [stage |-> "not loaded"]
Decided == [stage: {"decided"}, ok: BOOLEAN]
Task == {Listing} \cup Deciding \cup Loaded \cup {NotLoaded} \cup Decided
Free == [stage |-> "free"]

TerminalTypeOK ==
    /\ TypeOK
    /\ life \in 0..MaxLife
    /\ consents \subseteq Item
    /\ current_view \in {"Ping", "Approvals"}
    /\ approvals_status \in {"Idle", "Loading", "Loaded", "Error"}
    /\ approvals \in Seq(Item)
    /\ selected_index \in Nat
    /\ tasks \in [Slots -> Task \cup {Free}]

TerminalInit ==
    /\ Init
    /\ life = 0
    /\ consents = {}
    /\ current_view = "Approvals"
    /\ approvals_status = "Idle"
    /\ approvals = <<>>
    /\ selected_index = 0
    /\ tasks = [slot \in Slots |-> Free]

-----------------------------------------------------------------------------
(* The keys: handle_key_event.                                             *)
(*                                                                         *)
(* An operator named ...Variant is the operator after it with one mistake; *)
(* no action uses it.  It shows that a property tells the two apart.       *)

Spawn(task) ==
    \E slot \in Slots :
        /\ tasks[slot] = Free
        /\ tasks' = [tasks EXCEPT ![slot] = task]

\* Tab, to a list that was never asked for, asks for it.
TabKey ==
    /\ current_view' = IF current_view = "Ping" THEN "Approvals" ELSE "Ping"
    /\ IF current_view = "Ping" /\ approvals_status = "Idle"
       THEN approvals_status' = "Loading" /\ Spawn(Listing)
       ELSE UNCHANGED <<approvals_status, tasks>>
    /\ UNCHANGED <<coreVars, approvals, selected_index>>

ArrowKey ==
    /\ current_view = "Approvals"
    /\ \/ /\ selected_index > 0
          /\ selected_index' = selected_index - 1
       \/ /\ selected_index + 1 < Len(approvals)
          /\ selected_index' = selected_index + 1
    /\ UNCHANGED <<coreVars, current_view, approvals_status, approvals, tasks>>

\* 'a' and 'r' take the selected line of the list, whether or not the screen
\* shows the list at the moment.
DecisionKey(decision) ==
    /\ current_view = "Approvals"
    /\ selected_index < Len(approvals)
    /\ Spawn([stage |-> decision, item |-> approvals[selected_index + 1]])
    /\ UNCHANGED <<coreVars, screenVars>>

-----------------------------------------------------------------------------
(* The tasks: one request on one connection each.  The core acts; whether  *)
(* its answer arrives is another question.                                 *)

LineOf(id) ==
    [id |-> id, app |-> entries[id].app, command |-> entries[id].command,
     life |-> life]

\* The identifiers list_pending answers with, in the order of the map.
Listings ==
    {ids \in UNION {[1..n -> PendingIds] : n \in 0..MaxApprovals} :
        /\ \A id \in PendingIds : \E i \in DOMAIN ids : ids[i] = id
        /\ \A i, j \in DOMAIN ids : i < j => <<ids[i], ids[j]>> \in KeyOrder}

Becomes(slot, task) == tasks' = [tasks EXCEPT ![slot] = task]

ServeList(slot) ==
    /\ tasks[slot] = Listing
    /\ ListApprovals
    /\ \/ \E ids \in Listings :
             Becomes(slot, [stage |-> "loaded",
                            items |-> [i \in DOMAIN ids |-> LineOf(ids[i])]])
       \/ Becomes(slot, NotLoaded)
    /\ UNCHANGED <<life, consents, screenVars>>

ServeApprove(slot) ==
    /\ tasks[slot].stage = "approve"
    /\ LET item == tasks[slot].item
       IN  /\ ApprovePending(item.id)
           /\ consents' = IF entries[item.id] = Absent THEN consents
                          ELSE consents \cup {item}
    /\ \E ok \in BOOLEAN : Becomes(slot, [stage |-> "decided", ok |-> ok])
    /\ UNCHANGED <<life, screenVars>>

ServeReject(slot) ==
    /\ tasks[slot].stage = "reject"
    /\ RejectPending(tasks[slot].item.id)
    /\ \E ok \in BOOLEAN : Becomes(slot, [stage |-> "decided", ok |-> ok])
    /\ UNCHANGED <<life, consents, screenVars>>

\* No core, or one that closes the connection before it acts.
Unreachable(slot) ==
    /\ \/ tasks[slot] = Listing /\ Becomes(slot, NotLoaded)
       \/ /\ tasks[slot].stage \in {"approve", "reject"}
          /\ Becomes(slot, [stage |-> "decided", ok |-> FALSE])
    /\ UNCHANGED <<coreVars, screenVars>>

-----------------------------------------------------------------------------
(* What the tasks bring back: the inner loop of run_event_loop *)

SetApprovalsUnclampedVariant(items) ==
    /\ approvals' = items
    /\ approvals_status' = "Loaded"
    /\ UNCHANGED selected_index

\* set_approvals: the selection keeps its place, not its line.
SetApprovals(items) ==
    /\ approvals' = items
    /\ approvals_status' = "Loaded"
    /\ selected_index' = IF selected_index < Len(items) THEN selected_index
                         ELSE IF items = <<>> THEN 0 ELSE Len(items) - 1

ListArrives(slot) ==
    /\ \/ tasks[slot].stage = "loaded" /\ SetApprovals(tasks[slot].items)
       \/ /\ tasks[slot] = NotLoaded
          /\ approvals_status' = "Error"
          /\ UNCHANGED <<approvals, selected_index>>
    /\ Becomes(slot, Free)
    /\ UNCHANGED <<coreVars, current_view>>

DecisionWithoutRefreshVariant(slot) ==
    /\ tasks[slot].stage = "decided"
    /\ approvals_status' = IF tasks[slot].ok THEN "Loading" ELSE "Error"
    /\ Becomes(slot, Free)
    /\ UNCHANGED <<coreVars, current_view, approvals, selected_index>>

\* apply_approval_result, and a decision that went well asks for the list.
DecisionArrives(slot) ==
    /\ tasks[slot].stage = "decided"
    /\ approvals_status' = IF tasks[slot].ok THEN "Loading" ELSE "Error"
    /\ Becomes(slot, IF tasks[slot].ok THEN Listing ELSE Free)
    /\ UNCHANGED <<coreVars, current_view, approvals, selected_index>>

-----------------------------------------------------------------------------
(* The core, the workers, and the process of the core.  A command the      *)
(* manifest allows outright touches no approval and is left out.           *)

Elsewhere ==
    /\ \/ \E app \in Apps, command \in Commands :
             \/ AskApproval(app, command)
             \/ \E id \in ApprovalId : RunWithApproval(app, command, id)
       \/ Reap
       \/ TimePasses
    /\ UNCHANGED <<life, consents, screenVars, tasks>>

\* The core ends and starts again: the store is empty and its identifiers
\* start again at the first.  The terminal interface notices nothing.
Restart ==
    /\ life < MaxLife
    /\ life' = life + 1
    /\ entries' = [id \in ApprovalId |-> Absent]
    /\ next_id' = 0
    /\ executed' = {}
    /\ uses' = [id \in ApprovalId |-> 0]
    /\ granted' = {}
    /\ refused' = {}
    /\ asked' = [id \in ApprovalId |-> Nothing]
    /\ consents' = {}
    /\ UNCHANGED <<screenVars, tasks>>

TerminalNext ==
    \/ TabKey \/ ArrowKey \/ DecisionKey("approve") \/ DecisionKey("reject")
    \/ \E slot \in Slots :
          \/ ServeList(slot) \/ ServeApprove(slot) \/ ServeReject(slot)
          \/ Unreachable(slot)
          \/ ListArrives(slot) \/ DecisionArrives(slot)
    \/ Elsewhere
    \/ Restart

TerminalSpec == TerminalInit /\ [][TerminalNext]_allVars

-----------------------------------------------------------------------------
(* Safety *)

\* A line says what its identifier was asked for, as long as the core lives
\* that the line was read from; and no line comes from the future.
Truthful(item) ==
    /\ item.life <= life
    /\ item.life = life =>
          /\ item.id <= next_id
          /\ asked[item.id] = [app |-> item.app, command |-> item.command]

TrueTask(task) ==
    /\ task \in Deciding => Truthful(task.item)
    /\ task \in Loaded => \A i \in DOMAIN task.items : Truthful(task.items[i])

LinesAreTrue ==
    /\ \A i \in DOMAIN approvals : Truthful(approvals[i])
    /\ \A slot \in Slots : TrueTask(tasks[slot])
    /\ \A c \in consents : Truthful(c)

\* The selection is a line of the list, or the first place of an empty one.
SelectionInList == selected_index = 0 \/ selected_index < Len(approvals)

BringsList(task) == task \in {Listing, NotLoaded} \cup Loaded

\* The screen says it is loading only while a task is on its way to bring a
\* list, whatever decisions and lists overtake each other (event.rs:38-52).
LoadingIsServed ==
    approvals_status = "Loading" => \E slot \in Slots : BringsList(tasks[slot])

GrantsHaveConsent == \A id \in granted : \E c \in consents : c.id = id

\* The inductive invariant.
TerminalIInv ==
    /\ TerminalTypeOK
    /\ IInv
    /\ LinesAreTrue
    /\ SelectionInList
    /\ LoadingIsServed
    /\ GrantsHaveConsent

\* Whoever said yes had seen what they said yes to: a command that ran under
\* an approval ran because a line with that identifier was agreed to, and the
\* line named that app and that command, unless it was read from an earlier
\* life of the core (event.rs:103-117, app.rs:103-105).
ConsentWasInformed ==
    \A e \in executed : e.approval # NoApproval =>
        \E c \in consents :
            /\ c.id = e.approval
            /\ c.life = life => c.app = e.app /\ c.command = e.command

\* The design of the terminal interface (docs/superpowers/specs/
\* 2026-06-17-tui-approval-design.md:64): the key approves the selected line.
\* So a command that ran is on a line that was agreed to, core restarted or not.
ApprovedIsTheSelected ==
    \A e \in executed : e.approval # NoApproval =>
        \E c \in consents :
            c.id = e.approval /\ c.app = e.app /\ c.command = e.command
=============================================================================
