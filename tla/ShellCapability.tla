--------------------------- MODULE ShellCapability ---------------------------
(***************************************************************************)
(* The shell capability (kunkka-core, capability/shell.rs) over the store  *)
(* of approvals.  The core handles one request at a time, so a handler is  *)
(* one step: only the passing of time and the reaper come between.         *)
(*                                                                         *)
(* A command string is a member of Commands.  Stages[c] is the set of      *)
(* program names parse_pipeline extracts from it, the empty set for a      *)
(* string it refuses.  Allow and Ask are the two lists of the manifest.    *)
(* The history variables executed, uses, granted, refused and asked are    *)
(* observations of the steps; no guard reads them.                         *)
(***************************************************************************)
EXTENDS ApprovalStore

CONSTANTS
    Programs,      \* program names a pipeline stage can start with
    Stages,        \* Commands -> SUBSET Programs
    Allow,         \* Apps -> SUBSET Programs
    Ask            \* Apps -> SUBSET Programs

ASSUME ShellAssumption ==
    /\ Stages \in [Commands -> SUBSET Programs]
    /\ Allow \in [Apps -> SUBSET Programs]
    /\ Ask \in [Apps -> SUBSET Programs]

VARIABLES
    executed,      \* commands handed to /bin/sh: app, command, approval used
    uses,          \* how often an identifier let a command through
    granted,       \* identifiers of records a frontend approved
    refused,       \* identifiers of records a frontend rejected
    asked          \* what was asked for under an identifier

shellVars == <<executed, uses, granted, refused, asked>>
vars == <<storeVars, shellVars>>

NoApproval == 0    \* ShellRunParams.approval_id = None
Nothing == [app |-> "none"]

Request == [app: Apps, command: Commands]
Execution == [app: Apps, command: Commands, approval: ApprovalId \cup {NoApproval}]

TypeOK ==
    /\ StoreTypeOK
    /\ executed \subseteq Execution
    /\ uses \in [ApprovalId -> Nat]
    /\ granted \subseteq ApprovalId
    /\ refused \subseteq ApprovalId
    /\ asked \in [ApprovalId -> Request \cup {Nothing}]

Init ==
    /\ StoreInit
    /\ executed = {}
    /\ uses = [id \in ApprovalId |-> 0]
    /\ granted = {}
    /\ refused = {}
    /\ asked = [id \in ApprovalId |-> Nothing]

-----------------------------------------------------------------------------
(* decide_shell_policy: a program in neither list denies the whole         *)
(* pipeline; allow wins over ask for one program; one ask asks for all.    *)
Policy(app, command) ==
    IF Stages[command] \ (Allow[app] \cup Ask[app]) # {} THEN "Deny"
    ELSE IF Stages[command] \subseteq Allow[app] THEN "Allow"
    ELSE "Ask"

WellFormed(command) == Stages[command] # {}

(* handle_shell_request without an approval_id *)

RunAllowed(app, command) ==
    /\ WellFormed(command)
    /\ Policy(app, command) = "Allow"
    /\ executed' = executed \cup
          {[app |-> app, command |-> command, approval |-> NoApproval]}
    /\ UNCHANGED <<storeVars, uses, granted, refused, asked>>

AskApproval(app, command) ==
    /\ WellFormed(command)
    /\ Policy(app, command) = "Ask"
    /\ Create(app, command)
    /\ asked' = [asked EXCEPT ![next_id + 1] = [app |-> app, command |-> command]]
    /\ UNCHANGED <<executed, uses, granted, refused>>

(* handle_shell_request with an approval_id: the record is consumed before *)
(* the command runs, whatever becomes of the run; the policy is not asked  *)
(* again.                                                                  *)

RunWithApproval(app, command, id) ==
    /\ WellFormed(command)
    /\ ConsumeApproved(id, app, command)
    /\ IF ConsumeResult(id, app, command) = "Ok"
       THEN /\ executed' = executed \cup
                 {[app |-> app, command |-> command, approval |-> id]}
            /\ uses' = [uses EXCEPT ![id] = @ + 1]
       ELSE UNCHANGED <<executed, uses>>
    /\ UNCHANGED <<granted, refused, asked>>

(* The approval messages of core control; any identifier may be named. *)

ListApprovals == ListPending /\ UNCHANGED shellVars

ApprovePending(id) ==
    /\ Approve(id)
    /\ granted' = IF entries[id] = Absent THEN granted ELSE granted \cup {id}
    /\ UNCHANGED <<executed, uses, refused, asked>>

RejectPending(id) ==
    /\ Reject(id)
    /\ refused' = IF entries[id] = Absent THEN refused ELSE refused \cup {id}
    /\ UNCHANGED <<executed, uses, granted, asked>>

(* The core's own timer, and time. *)

Reap == ReapExpired /\ UNCHANGED shellVars

TimePasses == Tick /\ UNCHANGED shellVars

Next ==
    \/ \E app \in Apps, command \in Commands :
          \/ RunAllowed(app, command)
          \/ AskApproval(app, command)
          \/ \E id \in ApprovalId : RunWithApproval(app, command, id)
    \/ \E id \in ApprovalId : ApprovePending(id) \/ RejectPending(id)
    \/ ListApprovals
    \/ Reap
    \/ TimePasses

Spec == Init /\ [][Next]_vars

-----------------------------------------------------------------------------
(* Safety *)

\* A command the manifest only lets run with consent ran under an approval
\* that a frontend granted, and that was asked for by the same app for the
\* same command string (shell.rs:85-95 never asks the policy again).
RunsHadConsent ==
    \A e \in executed :
        Policy(e.app, e.command) = "Ask" =>
            /\ e.approval \in granted
            /\ asked[e.approval] = [app |-> e.app, command |-> e.command]

\* A pipeline with a program the manifest does not name never reaches the
\* shell, although the path with an approval_id does not consult the
\* manifest (shell.rs:85-95): the store holds no approval for it.
DeniedNeverRuns ==
    \A e \in executed : Policy(e.app, e.command) # "Deny"

\* One grant lets one command through: an identifier is consumed at most
\* once, however often and by whomever it is presented (approval.rs:136-139).
SingleUse == \A id \in ApprovalId : uses[id] <= 1

\* A rejection is final, also when it follows an approval: no command runs
\* afterwards under a rejected identifier (approval.rs:96-102).
RejectionIsFinal == \A id \in refused : uses[id] = 0

\* The inductive invariant behind the three properties above.  An identifier
\* not handed out yet has left no trace; a record is the unused, unrejected
\* request it was created for, needs consent, and is approved only if granted;
\* every execution is either plainly allowed or accounted for by a grant.
Fresh ==
    \A id \in ApprovalId :
        id > next_id => /\ entries[id] = Absent
                        /\ uses[id] = 0
                        /\ id \notin granted \cup refused

RecordsAccounted ==
    \A id \in ApprovalId :
        entries[id] # Absent =>
            /\ asked[id] = [app |-> entries[id].app, command |-> entries[id].command]
            /\ Policy(entries[id].app, entries[id].command) = "Ask"
            /\ uses[id] = 0
            /\ id \notin refused
            /\ entries[id].state = "Approved" => id \in granted

ExecutionsAccounted ==
    \A e \in executed :
        \/ /\ e.approval = NoApproval
           /\ Policy(e.app, e.command) = "Allow"
        \/ /\ e.approval \in granted
           /\ asked[e.approval] = [app |-> e.app, command |-> e.command]
           /\ Policy(e.app, e.command) = "Ask"

IInv ==
    /\ TypeOK
    /\ Fresh
    /\ RecordsAccounted
    /\ ExecutionsAccounted
    /\ SingleUse
    /\ RejectionIsFinal

\* An approved record leaves the store in two ways only: its command ran, or
\* a frontend rejected it.  Age, sweeps and requests that do not match it
\* leave it alone (approval.rs:122-124 and 143-151).
ApprovedIsKept ==
    [][\A id \in ApprovalId :
          /\ entries[id].state = "Approved"
          /\ entries'[id].state # "Approved"
          => uses'[id] = uses[id] + 1 \/ id \in refused']_vars

\* The approval design note (docs/superpowers/specs/
\* 2026-06-17-shell-capability-approval-design.md:214): approving a record
\* whose TTL has run out fails.
ApproveAfterTtlFails ==
    [][\A id \in ApprovalId :
          /\ entries[id].state \in {"Pending", "Expired"}
          /\ entries[id].age = Ttl
          => entries'[id].state # "Approved"]_vars

-----------------------------------------------------------------------------
(* What the store promises to a frontend, as a life cycle per identifier. *)

LifeOf(id) ==
    IF id > next_id THEN "unasked"
    ELSE IF uses[id] > 0 THEN "used"
    ELSE IF entries[id] = Absent THEN "closed"
    ELSE IF entries[id].state = "Approved" THEN "granted"
    ELSE "waiting"

Consent == INSTANCE ApprovalLifeCycle
               WITH Ids <- ApprovalId, life <- [id \in ApprovalId |-> LifeOf(id)]

\* The store implements the life cycle.
ImplementsLifeCycle == Consent!Spec
=============================================================================
