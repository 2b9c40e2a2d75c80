----------------------------- MODULE CommandLine -----------------------------
(***************************************************************************)
(* One run of the command line (kunkka-cli, lib.rs and client.rs) against  *)
(* the core.  Every request has a connection of its own: the core may be   *)
(* out of reach, or act and end before it answers, and the run then ends   *)
(* with an error.                                                          *)
(*                                                                         *)
(* A shell command that needs consent is five requests: run, list, approve *)
(* or reject, and run again with the approval.  Between them other         *)
(* frontends decide, approvals lapse and the core may start anew, with its *)
(* identifiers.  The approvals are those of ApprovalLifeCycle, which the   *)
(* store implements (module ShellCapability).                              *)
(*                                                                         *)
(* The answers to the LLM commands are decoded by the index of their       *)
(* variant, and the two programs number the variants each in its own way.  *)
(*                                                                         *)
(* ran, done and sameLife are observations.                                *)
(***************************************************************************)
EXTENDS Naturals, Sequences, SequencesExt, FiniteSets

CONSTANTS
    MaxIds,          \* bound: approvals of one life of the core
    MaxRestarts      \* bound: restarts of the core

ASSUME CommandLineAssumption == MaxIds \in Nat /\ MaxRestarts \in Nat

VARIABLES
    cli,             \* the command, where the run is, and what it reports
    life,            \* the approvals, as ApprovalLifeCycle has them
    requester,       \* who asked for each: this run, one like it, or another
    restarts,
    sameLife,        \* the core has not been restarted since the approval
    ran,             \* times the core ran the shell command for this run
    done             \* the core made the change an LLM command asked for

cliVars == <<cli, life, requester, restarts, sameLife, ran, done>>
worldVars == <<life, requester, restarts, sameLife>>

AnyId == 1..MaxIds
NoId == 0

Approvals == INSTANCE ApprovalLifeCycle WITH Ids <- AnyId

-----------------------------------------------------------------------------
(* The LLM commands: what the core answers, and what the command expects.  *)

CoreVariants ==    \* enum LlmResponse of kunkka-core
    <<"Chat", "Embeddings", "Images", "Providers", "Models", "Roles", "Presets",
      "ProviderDetails", "RoleDetails", "ProviderTestResult", "UsageSummary",
      "UsageRecords", "DefaultRole", "Success">>

CliVariants ==     \* enum LlmResponse of kunkka-cli
    <<"Presets", "Providers", "Roles", "ProviderDetails", "RoleDetails", "Models",
      "ProviderTestResult", "UsageSummary", "UsageRecords", "DefaultRole", "Success">>

LlmReads ==
    [list_presets |-> [answer |-> "Presets", expects |-> {"Presets"}],
     list_role_presets |-> [answer |-> "Presets", expects |-> {"Presets"}],
     list_providers |-> [answer |-> "ProviderDetails", expects |-> {"Providers"}],
     list_roles |-> [answer |-> "RoleDetails", expects |-> {"Roles", "RoleDetails"}],
     test_provider |-> [answer |-> "ProviderTestResult", expects |-> {"ProviderTestResult"}],
     usage_summary |-> [answer |-> "UsageSummary", expects |-> {"UsageSummary"}],
     usage_records |-> [answer |-> "UsageRecords", expects |-> {"UsageRecords"}],
     get_default_role |-> [answer |-> "DefaultRole", expects |-> {"DefaultRole"}]]

LlmChanges == {"apply_preset", "add_provider", "update_provider", "remove_provider",
               "add_role", "update_role", "remove_role", "apply_role_preset",
               "clear_usage", "set_default_role"}

\* add_provider sends the type as a text where the core wants an index.
Undecodable == {"add_provider"}

\* What postcard makes of the answer, when its fields happen to decode.
DecodedAs(answer) ==
    LET index == SelectInSeq(CoreVariants, LAMBDA variant : variant = answer)
    IN  IF index \in DOMAIN CliVariants THEN CliVariants[index] ELSE "none"

-----------------------------------------------------------------------------
Command == {"shell", "control"} \cup LlmChanges \cup DOMAIN LlmReads

CommandLineTypeOK ==
    /\ cli \in [command: Command,
                at: {"run", "list", "prompt", "approve", "reject", "retry", "end"},
                id: 0..MaxIds, consent: BOOLEAN,
                result: {"none", "ok", "error", "rejected"}]
    /\ Approvals!TypeOK
    /\ requester \in [AnyId -> {"nobody", "cli", "twin", "other"}]
    /\ restarts \in 0..MaxRestarts
    /\ sameLife \in BOOLEAN
    /\ ran \in Nat
    /\ done \in BOOLEAN

CommandLineInit ==
    /\ cli \in [command: Command, at: {"run"}, id: {NoId}, consent: {FALSE}, result: {"none"}]
    /\ life = [id \in AnyId |-> "unasked"]
    /\ requester = [id \in AnyId |-> "nobody"]
    /\ restarts = 0
    /\ sameLife = TRUE
    /\ ran = 0
    /\ done = FALSE

GoTo(step) == cli' = [cli EXCEPT !.at = step]
Report(result) == cli' = [cli EXCEPT !.at = "end", !.result = result]

(* send_core_control, send_frontend_dispatch, send_shell_request and       *)
(* send_llm_request before the core acts: no socket, no connection, or one *)
(* that closes with the request unread.                                    *)
RequestFails ==
    /\ cli.at \in {"run", "list", "approve", "reject", "retry"}
    /\ Report("error")
    /\ UNCHANGED <<worldVars, ran, done>>

\* The request is carried out: its answer arrives, or the connection closes
\* first.
Then(answered) == answered \/ Report("error")

-----------------------------------------------------------------------------
(* Commands of one request.                                                *)

\* Ping, status, a dispatch, and the list and the decisions of approvals.
RunControl ==
    /\ cli.at = "run"
    /\ cli.command = "control"
    /\ \/ UNCHANGED life
       \/ \E id \in AnyId : Approvals!Grant(id, {}) \/ Approvals!Refuse(id, {})
    /\ \E result \in {"ok", "error"} : Report(result)
    /\ UNCHANGED <<requester, restarts, sameLife, ran, done>>

\* The body of the answer to a change is not looked at.
RunLlmChange ==
    /\ cli.at = "run"
    /\ cli.command \in LlmChanges
    /\ \/ Report("error") /\ UNCHANGED done       \* the core refuses
       \/ /\ cli.command \notin Undecodable
          /\ Then(Report("ok"))
          /\ done' = TRUE
    /\ UNCHANGED <<worldVars, ran>>

RunLlmRead ==
    /\ cli.at = "run"
    /\ cli.command \in DOMAIN LlmReads
    /\ LET read == LlmReads[cli.command]
       IN  Report(IF DecodedAs(read.answer) \in read.expects THEN "ok" ELSE "error")
    /\ UNCHANGED <<worldVars, ran, done>>

-----------------------------------------------------------------------------
(* The shell command.                                                      *)

\* The manifest allows the command, or refuses it.
RunShellAtOnce ==
    /\ cli.at = "run"
    /\ cli.command = "shell"
    /\ \/ Report("error") /\ UNCHANGED ran
       \/ Then(Report("ok")) /\ ran' = ran + 1
    /\ UNCHANGED <<worldVars, done>>

NextId == Cardinality({id \in AnyId : life[id] # "unasked"}) + 1

Ask(who) ==
    /\ NextId \in AnyId
    /\ Approvals!AskFor(NextId)
    /\ requester' = [requester EXCEPT ![NextId] = who]

\* The manifest wants consent: the answer is a receipt.
RunShellAsks ==
    /\ cli.at = "run"
    /\ cli.command = "shell"
    /\ Ask("cli")
    /\ Then(cli' = [cli EXCEPT !.at = "list", !.id = NextId])
    /\ sameLife' = TRUE
    /\ UNCHANGED <<restarts, ran, done>>

Lapses(S) == S \subseteq Approvals!Waiting /\ Approvals!Lapse(S)

\* handle_shell_approval: only what is listed is put before the user.
ListPendingApprovals ==
    /\ cli.at = "list"
    /\ \E S \in SUBSET Approvals!Waiting : Lapses(S)
    /\ Then(IF life'[cli.id] = "waiting" THEN GoTo("prompt") ELSE Report("error"))
    /\ UNCHANGED <<requester, restarts, sameLife, ran, done>>

\* A variant for the checks: without consent the run just ends.
PromptVariant ==
    /\ cli.at = "prompt"
    /\ \/ cli' = [cli EXCEPT !.at = "approve", !.consent = TRUE]
       \/ Report("rejected")
    /\ UNCHANGED <<worldVars, ran, done>>

\* Anything but "y" or "yes", and the end of the input, is a refusal.
Prompt ==
    /\ cli.at = "prompt"
    /\ \E consent \in BOOLEAN :
          cli' = [cli EXCEPT !.at = IF consent THEN "approve" ELSE "reject",
                             !.consent = consent]
    /\ UNCHANGED <<worldVars, ran, done>>

(* approve and reject answer alike whether or not the approval is there.   *)
ApprovePendingApproval ==
    /\ cli.at = "approve"
    /\ \E S \in SUBSET (Approvals!Waiting \ {cli.id}) :
          IF life[cli.id] = "waiting" THEN Approvals!Grant(cli.id, S) ELSE Lapses(S)
    /\ Then(GoTo("retry"))
    /\ UNCHANGED <<requester, restarts, sameLife, ran, done>>

RejectPendingApproval ==
    /\ cli.at = "reject"
    /\ \E S \in SUBSET Approvals!Waiting :
          IF life[cli.id] \in {"waiting", "granted"} THEN Approvals!Refuse(cli.id, S) ELSE Lapses(S)
    /\ Then(Report("rejected"))
    /\ UNCHANGED <<requester, restarts, sameLife, ran, done>>

\* The approval has to be of the same app and command.
RetryShell ==
    /\ cli.at = "retry"
    /\ IF life[cli.id] = "granted" /\ requester[cli.id] \in {"cli", "twin"}
       THEN /\ Approvals!Use(cli.id)
            /\ \/ Report("error") /\ UNCHANGED ran     \* it cannot be started
               \/ Then(Report("ok")) /\ ran' = ran + 1
       ELSE /\ Report("error")
            /\ UNCHANGED <<life, ran>>
    /\ UNCHANGED <<requester, restarts, sameLife, done>>

-----------------------------------------------------------------------------
(* The others: workers that ask and come back, frontends that decide, the  *)
(* clock, and the end of the core.                                         *)

OthersAsk ==
    /\ \E who \in {"twin", "other"} : Ask(who)
    /\ UNCHANGED <<cli, restarts, sameLife, ran, done>>

OthersDecide ==
    /\ \E id \in AnyId : Approvals!Grant(id, {}) \/ Approvals!Refuse(id, {})
    /\ UNCHANGED <<cli, requester, restarts, sameLife, ran, done>>

OthersUse ==
    /\ \E id \in AnyId : requester[id] # "cli" /\ Approvals!Use(id)
    /\ UNCHANGED <<cli, requester, restarts, sameLife, ran, done>>

ApprovalsLapse ==
    /\ \E S \in SUBSET Approvals!Waiting : S # {} /\ Lapses(S)
    /\ UNCHANGED <<cli, requester, restarts, sameLife, ran, done>>

CoreStartsAnew ==
    /\ restarts < MaxRestarts
    /\ restarts' = restarts + 1
    /\ life' = [id \in AnyId |-> "unasked"]
    /\ requester' = [id \in AnyId |-> "nobody"]
    /\ sameLife' = FALSE
    /\ UNCHANGED <<cli, ran, done>>

CommandLineNext ==
    \/ RequestFails
    \/ RunControl \/ RunLlmChange \/ RunLlmRead
    \/ RunShellAtOnce \/ RunShellAsks
    \/ ListPendingApprovals \/ Prompt
    \/ ApprovePendingApproval \/ RejectPendingApproval \/ RetryShell
    \/ OthersAsk \/ OthersDecide \/ OthersUse \/ ApprovalsLapse \/ CoreStartsAnew

CommandLineSpec == CommandLineInit /\ [][CommandLineNext]_cliVars

-----------------------------------------------------------------------------
(* What the command line reports is what happened: "ok" when the command   *)
(* ran once or the change was made, data only as the core meant it, and    *)
(* "approval rejected" when the command did not run and its approval is    *)
(* closed for everybody, even if another frontend had granted it while the *)
(* user was asked.  No run of it runs the command twice.                   *)
ReportIsTrue ==
    /\ CommandLineTypeOK
    /\ ran <= 1
    /\ cli.result = "ok" =>
         /\ cli.command = "shell" => ran = 1
         /\ cli.command \in LlmChanges => done
         /\ cli.command \in DOMAIN LlmReads =>
              DecodedAs(LlmReads[cli.command].answer) = LlmReads[cli.command].answer
    /\ cli.result = "rejected" =>
         /\ ran = 0
         /\ sameLife => life[cli.id] = "closed"
    /\ ran = 1 /\ cli.id # NoId => cli.consent

(* What is behind it.  While the run is on, the command has not run for it, *)
(* and in the life of the core that gave it its approval the approval is    *)
(* still its own and unused: what it asked for can be closed or granted by  *)
(* others, never spent.                                                     *)
CommandLineIInv ==
    /\ ReportIsTrue
    /\ cli.at = "run" => cli.id = NoId
    /\ cli.at \in {"list", "prompt", "approve", "reject", "retry"} => cli.id # NoId
    /\ cli.at # "end" => ran = 0 /\ cli.result = "none"
    /\ cli.at \in {"approve", "retry"} => cli.consent
    /\ cli.id # NoId => cli.command = "shell"
    /\ cli.result = "rejected" => cli.id # NoId
    /\ cli.id # NoId /\ sameLife =>
         /\ requester[cli.id] = "cli"
         /\ life[cli.id] # "unasked"
         /\ cli.at # "end" => life[cli.id] # "used"
=============================================================================
