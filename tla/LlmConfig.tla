------------------------------ MODULE LlmConfig ------------------------------
(***************************************************************************)
(* The LLM capability's tables of providers and roles (kunkka-core,        *)
(* capability/llm.rs, llm/role.rs, llm/provider.rs, llm/config.rs): a copy *)
(* in memory, a copy in a file, and the requests that change them.         *)
(*                                                                         *)
(* Providers are written to the file first and then reloaded, with the     *)
(* roles; roles are changed in memory first (add, remove, default) or in   *)
(* the file first (update).  fs::write is not atomic: it may fail before   *)
(* the file is touched or leave it cut off, which no longer parses.        *)
(*                                                                         *)
(* A ProviderConfig is the set of its available models: keys and addresses *)
(* never decide anything here.  The name "" resolves as Default does, and  *)
(* is one with it.  unsaved and vouched are observations of the steps; no  *)
(* guard reads them.  While the core is down, manager and roles hold what  *)
(* the process held last, for the properties to compare with.              *)
(***************************************************************************)
EXTENDS Naturals, FiniteSets

CONSTANTS
    Provider, Model, Role,   \* names
    ProviderPresets,         \* the provider names presets.rs knows
    PresetModels,            \* the models a preset offers
    RolePresets,             \* the role names presets.rs knows
    AllowedRoles,            \* capabilities.llm.roles of the app's manifest
    Default,                 \* the role name "default"
    Absent,                  \* None, or no such key
    Corrupt                  \* a file that does not parse

ASSUME LlmAssumption ==
    /\ ProviderPresets \subseteq Provider
    /\ PresetModels \subseteq Model
    /\ RolePresets \subseteq Role
    /\ Default \in Role
    /\ \A name \in Role \cup Provider \cup Model : name # Absent
    /\ \A models \in SUBSET Model : models # Absent
    /\ \A config \in [provider: Provider, model: Model] : config # Absent
    /\ \A table \in [Provider -> {Absent} \cup SUBSET Model] : table # Corrupt
    /\ \A config \in [roles: [Role -> {Absent} \cup [provider: Provider, model: Model]],
                       default_role: {Absent} \cup Role] : config # Corrupt

VARIABLES
    running,         \* the core is up
    manager,         \* LlmState::provider_manager
    roles,           \* RoleManager::roles_config
    providersFile,   \* llm-providers.json
    rolesFile,       \* llm-roles.json
    llmReply,        \* "ok", or the code of the last CapabilityError
    unsaved,         \* files that missed a change, or lost their content
    vouched          \* roles an add_role acknowledged, nothing undoing it since

tables == <<manager, roles, providersFile, rolesFile>>
llmVars == <<running, tables, llmReply, unsaved, vouched>>

RoleConfig == [provider: Provider, model: Model]
ProviderTable == [Provider -> {Absent} \cup SUBSET Model]
RolesConfig == [roles: [Role -> {Absent} \cup RoleConfig], default_role: {Absent} \cup Role]

Reply == {"none", "ok", "permission_denied", "invalid_params", "config_error",
          "provider_not_found", "role_not_found", "role_error", "llm_error"}

LlmTypeOK ==
    /\ running \in BOOLEAN
    /\ manager \in ProviderTable
    /\ roles \in RolesConfig
    /\ providersFile \in ProviderTable \cup {Corrupt}
    /\ rolesFile \in RolesConfig \cup {Corrupt}
    /\ llmReply \in Reply
    /\ unsaved \subseteq {"providers", "roles"}
    /\ vouched \subseteq Role

NoProviders == [p \in Provider |-> Absent]
NoRoles == [roles |-> [r \in Role |-> Absent], default_role |-> Absent]

\* The files may have been written by hand before the first start.
LlmInit ==
    /\ running = FALSE
    /\ providersFile \in ProviderTable
    /\ rolesFile \in RolesConfig
    /\ manager = NoProviders
    /\ roles = NoRoles
    /\ llmReply = "none"
    /\ unsaved = {"providers", "roles"}
    /\ vouched = {}

Answer(code) == llmReply' = code

AnswerOnly(code) ==
    /\ Answer(code)
    /\ UNCHANGED <<running, tables, unsaved, vouched>>

-----------------------------------------------------------------------------
(* The loader of llm/config.rs.  A missing file reads as an empty table.   *)

WriteOutcome == {"saved", "unopened", "truncated"}

Stored(outcome, old, new) ==
    CASE outcome = "saved" -> new
      [] outcome = "unopened" -> old
      [] OTHER -> Corrupt

\* A variant for the checks: the old adapters stay.
InitializeKeepingAdaptersVariant(table) ==
    /\ UNCHANGED manager
    /\ IF rolesFile = Corrupt
       THEN Answer("config_error") /\ unsaved' = unsaved \ {"providers"} /\ UNCHANGED roles
       ELSE Answer("ok") /\ unsaved' = {} /\ roles' = rolesFile

\* A variant for the checks: the role manager starts anew instead of loading.
InitializeResettingRolesVariant(table) ==
    /\ manager' = table
    /\ Answer("ok")
    /\ unsaved' = {}
    /\ roles' = NoRoles

(* LlmState::initialize, after the providers' file was read as "table":    *)
(* the roles follow, and when their file does not parse the new providers  *)
(* stay with the old roles.                                                *)
Initialize(table) ==
    /\ manager' = table
    /\ IF rolesFile = Corrupt
       THEN /\ Answer("config_error")
            /\ unsaved' = unsaved \ {"providers"}
            /\ UNCHANGED roles
       ELSE /\ Answer("ok")
            /\ unsaved' = {}
            /\ roles' = rolesFile

Users(p) == {r \in Role : roles.roles[r] # Absent /\ roles.roles[r].provider = p}

(* add_provider, remove_provider, apply_preset and update_provider differ  *)
(* in what they make of provider p; each loads the file, saves the changed *)
(* table and initializes again.                                            *)
RewriteProvider(p, config) ==
    LET new == [providersFile EXCEPT ![p] = config]
    IN  /\ vouched' = vouched \ Users(p)
        /\ UNCHANGED rolesFile
        /\ \/ /\ providersFile' = new
              /\ Initialize(new)
              /\ UNCHANGED running
           \/ \E outcome \in WriteOutcome \ {"saved"} :
                 /\ providersFile' = Stored(outcome, providersFile, new)
                 /\ unsaved' = IF outcome = "truncated"
                               THEN unsaved \cup {"providers"} ELSE unsaved
                 /\ Answer("config_error")
                 /\ UNCHANGED <<running, manager, roles>>
           \/ /\ providersFile' = new    \* the core ends before it reloads
              /\ running' = FALSE
              /\ unsaved' = unsaved \cup {"providers"}
              /\ UNCHANGED <<manager, roles, llmReply>>

AddProvider(p, models) ==
    IF providersFile = Corrupt THEN AnswerOnly("config_error") ELSE RewriteProvider(p, models)

RemoveProvider(p) ==
    IF providersFile = Corrupt THEN AnswerOnly("config_error") ELSE RewriteProvider(p, Absent)

ApplyPreset(p) ==
    IF p \notin ProviderPresets THEN AnswerOnly("invalid_params")
    ELSE IF providersFile = Corrupt THEN AnswerOnly("config_error")
    ELSE RewriteProvider(p, PresetModels)

\* models = Absent stands for a request that leaves available_models alone.
UpdateProvider(p, models) ==
    IF providersFile = Corrupt THEN AnswerOnly("config_error")
    ELSE IF providersFile[p] = Absent THEN AnswerOnly("provider_not_found")
    ELSE RewriteProvider(p, IF models = Absent THEN providersFile[p] ELSE models)

-----------------------------------------------------------------------------
(* RoleManager.  KeepRoles is its "change memory, then save".              *)

\* A variant for the checks: the change never reaches the file.
KeepRolesInMemoryVariant(new, outcome) ==
    /\ roles' = new
    /\ unsaved' = IF outcome = "saved" THEN unsaved \ {"roles"} ELSE unsaved \cup {"roles"}
    /\ Answer("ok")
    /\ UNCHANGED <<running, manager, providersFile, rolesFile>>

KeepRoles(new, outcome) ==
    /\ roles' = new
    /\ rolesFile' = Stored(outcome, rolesFile, new)
    /\ unsaved' = IF outcome = "saved" THEN unsaved \ {"roles"} ELSE unsaved \cup {"roles"}
    /\ Answer(IF outcome = "saved" THEN "ok" ELSE "config_error")
    /\ UNCHANGED <<running, manager, providersFile>>

\* A variant for the checks: the model is not looked at.
OfferedByNameVariant(config) == manager[config.provider] # Absent

Offered(config) ==
    /\ manager[config.provider] # Absent
    /\ config.model \in manager[config.provider]

AddRole(name, config) ==
    IF ~Offered(config) THEN AnswerOnly("config_error")
    ELSE \E outcome \in WriteOutcome :
           /\ KeepRoles([roles EXCEPT !.roles[name] = config], outcome)
           /\ vouched' = IF outcome = "saved" THEN vouched \cup {name} ELSE vouched \ {name}

ApplyRolePreset(name, config) ==
    IF name \notin RolePresets THEN AnswerOnly("invalid_params") ELSE AddRole(name, config)

RemoveRole(name) ==
    \E outcome \in WriteOutcome :
       /\ KeepRoles([roles EXCEPT !.roles[name] = Absent], outcome)
       /\ vouched' = vouched \ {name}

SetDefaultRole(name) ==
    IF name # Absent /\ roles.roles[name] = Absent
    THEN AnswerOnly("config_error")
    ELSE \E outcome \in WriteOutcome :
           /\ KeepRoles([roles EXCEPT !.default_role = name], outcome)
           /\ UNCHANGED vouched

Changed(config, provider, model) ==
    [provider |-> IF provider = Absent THEN config.provider ELSE provider,
     model |-> IF model = Absent THEN config.model ELSE model]

(* update_role works on the file and reloads it; nothing is validated.     *)
UpdateRole(name, provider, model) ==
    IF rolesFile = Corrupt THEN AnswerOnly("config_error")
    ELSE IF rolesFile.roles[name] = Absent THEN AnswerOnly("role_not_found")
    ELSE LET new == [rolesFile EXCEPT !.roles[name] = Changed(@, provider, model)]
         IN  /\ vouched' = vouched \ {name}
             /\ UNCHANGED <<manager, providersFile>>
             /\ \/ /\ roles' = new
                   /\ rolesFile' = new
                   /\ unsaved' = unsaved \ {"roles"}
                   /\ Answer("ok")
                   /\ UNCHANGED running
                \/ \E outcome \in WriteOutcome \ {"saved"} :
                      /\ rolesFile' = Stored(outcome, rolesFile, new)
                      /\ unsaved' = IF outcome = "truncated"
                                    THEN unsaved \cup {"roles"} ELSE unsaved
                      /\ Answer("config_error")
                      /\ UNCHANGED <<running, roles>>
                \/ /\ rolesFile' = new    \* the core ends before it reloads
                   /\ running' = FALSE
                   /\ unsaved' = unsaved \cup {"roles"}
                   /\ UNCHANGED <<roles, llmReply>>

-----------------------------------------------------------------------------
(* Calls.  The manifest's list is asked about the name in the request, the *)
(* default is put in its place afterwards.                                 *)

CheckRoleAllowed(role) == role \in AllowedRoles

EffectiveRole(role) ==
    IF role = Default /\ roles.default_role # Absent THEN roles.default_role ELSE role

Route(role) ==
    LET config == roles.roles[EffectiveRole(role)]
    IN  IF config = Absent THEN "role_error"
        ELSE IF manager[config.provider] = Absent THEN "provider_not_found"
        ELSE "sent"

\* The service answers or fails; neither changes a table.
CallProvider(role) ==
    IF Route(role) # "sent" THEN AnswerOnly(Route(role))
    ELSE \E code \in {"ok", "llm_error"} : AnswerOnly(code)

HandleChat(role) ==
    IF ~CheckRoleAllowed(role) THEN AnswerOnly("permission_denied") ELSE CallProvider(role)

HandleEmbeddings(role) == HandleChat(role)
HandleImages(role) == HandleChat(role)

\* The stream of a chat is opened without a look at the manifest.
CreateChatStream(role) == CallProvider(role)

TestProvider(p) ==
    AnswerOnly(IF manager[p] = Absent THEN "provider_not_found" ELSE "ok")

-----------------------------------------------------------------------------
(* Lists: from memory, and in detail from the files.                       *)

ListProviders == {p \in Provider : manager[p] # Absent}
ListModels == {pair \in Provider \X Model :
                 manager[pair[1]] # Absent /\ pair[2] \in manager[pair[1]]}
ListRoles == {r \in Role : roles.roles[r] # Absent}

ProvidersDetail == {[name |-> p, models |-> providersFile[p]] :
                      p \in {q \in Provider : providersFile[q] # Absent}}
RolesDetail == {[name |-> r, config |-> rolesFile.roles[r]] :
                  r \in {s \in Role : rolesFile.roles[s] # Absent}}

ListFromMemory == AnswerOnly("ok")
ListProvidersDetail == AnswerOnly(IF providersFile = Corrupt THEN "config_error" ELSE "ok")
ListRolesDetail == AnswerOnly(IF rolesFile = Corrupt THEN "config_error" ELSE "ok")

-----------------------------------------------------------------------------
(* The process.  CoreRuntime::prepare ends in an error when either file    *)
(* does not parse; the user then has to remove it.                         *)

Prepare ==
    /\ ~running
    /\ providersFile # Corrupt
    /\ rolesFile # Corrupt
    /\ running' = TRUE
    /\ manager' = providersFile
    /\ roles' = rolesFile
    /\ unsaved' = {}
    /\ Answer("none")
    /\ UNCHANGED <<providersFile, rolesFile, vouched>>

CoreEnds ==
    /\ running
    /\ running' = FALSE
    /\ UNCHANGED <<tables, llmReply, unsaved, vouched>>

Repair ==
    /\ ~running
    /\ \/ /\ providersFile = Corrupt
          /\ providersFile' = NoProviders
          /\ UNCHANGED rolesFile
       \/ /\ rolesFile = Corrupt
          /\ rolesFile' = NoRoles
          /\ UNCHANGED providersFile
    /\ vouched' = {}
    /\ UNCHANGED <<running, manager, roles, llmReply, unsaved>>

ProviderRequest ==
    \E p \in Provider :
       \/ \E models \in SUBSET Model : AddProvider(p, models)
       \/ RemoveProvider(p)
       \/ ApplyPreset(p)
       \/ \E models \in {Absent} \cup SUBSET Model : UpdateProvider(p, models)
       \/ TestProvider(p)

RoleRequest ==
    \E name \in Role :
       \/ \E config \in RoleConfig :
             AddRole(name, config) \/ ApplyRolePreset(name, config)
       \/ RemoveRole(name)
       \/ \E provider \in {Absent} \cup Provider, model \in {Absent} \cup Model :
             UpdateRole(name, provider, model)

DefaultRequest == \E name \in {Absent} \cup Role : SetDefaultRole(name)

Call ==
    \E role \in Role :
       \/ HandleChat(role)
       \/ HandleEmbeddings(role)
       \/ HandleImages(role)
       \/ CreateChatStream(role)

ListRequest == ListFromMemory \/ ListProvidersDetail \/ ListRolesDetail

HandleLlmRequest ==
    /\ running
    /\ ProviderRequest \/ RoleRequest \/ DefaultRequest \/ Call \/ ListRequest

LlmNext == HandleLlmRequest \/ Prepare \/ CoreEnds \/ Repair

LlmSpec == LlmInit /\ [][LlmNext]_llmVars

-----------------------------------------------------------------------------
(* Memory and file.  Providers in memory are what the file says or said    *)
(* before it was cut off; a table that differs from its file is one whose  *)
(* file missed a change.                                                   *)
InSync ==
    /\ "providers" \notin unsaved => providersFile = manager
    /\ "roles" \notin unsaved => rolesFile = roles
    /\ running => providersFile \in {manager, Corrupt}

(* A role an add_role acknowledged is the same in both copies, and its     *)
(* provider offers its model in both copies.                               *)
VouchedIsKept ==
    \A r \in vouched :
       LET config == roles.roles[r]
       IN  /\ config # Absent
           /\ Offered(config)
           /\ rolesFile # Corrupt => rolesFile.roles[r] = config
           /\ providersFile # Corrupt =>
                 providersFile[config.provider] = manager[config.provider]

(* The inductive invariant of the tables: llm-providers.json and           *)
(* llm-roles.json against LlmState's copies, over every failure of a save. *)
LlmIInv == LlmTypeOK /\ InSync /\ VouchedIsKept

(* Once add_role has answered ok, a chat with that role is sent to a       *)
(* provider that offers its model, across failed saves, reloads and        *)
(* restarts of the core, until a request removes or rewrites the role or   *)
(* its provider.  A role named "default" is hidden by a default that is    *)
(* set.                                                                    *)
VouchedRolesResolve ==
    running => \A r \in vouched : EffectiveRole(r) = r =>
       /\ Route(r) = "sent"
       /\ roles.roles[r].model \in manager[roles.roles[r].provider]

(* When no save has failed, a restart brings back the tables that were in  *)
(* memory: each acknowledged request had reached the file that prepare     *)
(* reads.                                                                  *)
RestartStep == ~running /\ running' /\ unsaved = {} => UNCHANGED <<manager, roles>>
RestartKeepsTheTables == [][RestartStep]_llmVars

(* No request loses another's change: while no save has failed, one        *)
(* request alters one provider at most and one role at most, although some *)
(* start from the file and some from memory, and a change of a provider    *)
(* reads the roles again.                                                  *)
OneEntryStep ==
    running /\ running' /\ unsaved = {} =>
       /\ \A p, q \in Provider :
             manager'[p] # manager[p] /\ manager'[q] # manager[q] => p = q
       /\ \A r, s \in Role :
             roles'.roles[r] # roles.roles[r] /\ roles'.roles[s] # roles.roles[s] => r = s
OneEntryAtATime == [][OneEntryStep]_llmVars
=============================================================================
