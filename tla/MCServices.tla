----------------------------- MODULE MCServices -----------------------------
(* Small instances of the parts around the event loop.  No step of one of    *)
(* them reads the state of another, so each behaviour moves one part and     *)
(* leaves the others at an initial state.                                    *)
EXTENDS LlmConfig, LlmUsage, CapabilityStream, NativeBridge, ThemeManager, SqlitePools,
        CommandLine, AppAccess

CONSTANTS openai, local, gpt, chat    \* two providers, a model, a role

VARIABLE part

MCRoles == {chat, Default}

Parts == {"llm", "usage", "stream", "bridge", "theme", "sqlite", "cli", "access"}

\* Paths and manifests that use each kind of entry and of detour.
AbsoluteFile(names) == [absolute |-> TRUE, names |-> names, slash |-> FALSE]
AbsoluteDir(names) == [absolute |-> TRUE, names |-> names, slash |-> TRUE]
Relative(names) == [absolute |-> FALSE, names |-> names, slash |-> FALSE]

MCPath ==
    {AbsoluteDir(<<>>), AbsoluteFile(<<"n">>), AbsoluteDir(<<"n">>),
     AbsoluteFile(<<"n", "a">>), AbsoluteDir(<<"n", "a">>),
     AbsoluteFile(<<"n", "..", "o">>), AbsoluteFile(<<"..", "n", "a">>),
     AbsoluteFile(<<"n", "..", "..", "o", "..", "n">>), AbsoluteFile(<<"o">>),
     AbsoluteDir(<<"n", "..">>),
     Relative(<<>>), Relative(<<"n", "a">>), Relative(<<"..", "n">>),
     Relative(<<"..", "..">>)}

ManifestOf(app, paths, domains) ==
    [app |-> app, paths |-> paths, domains |-> domains,
     methods |-> {}, allow |-> {}, ask |-> {}, roles |-> {}]

MCManifest ==
    {ManifestOf("notes", {AbsoluteDir(<<"n">>)}, {"h1"}),
     ManifestOf("notes", {AbsoluteFile(<<"n", "a">>), AbsoluteDir(<<"n", "..", "o">>),
                          AbsoluteFile(<<"..">>)}, {"h1", "h2"}),
     ManifestOf("clock", {AbsoluteDir(<<>>)}, {"h2"}),
     ManifestOf("clock", {Relative(<<"n">>)}, {}),
     [ManifestOf("clock", {}, {}) EXCEPT !.allow = {"ls"}, !.ask = {"ls"}]}

MCCwd == <<"home">>

\* One app reaches the other's database by a name with ".." in it, and the
\* other is refused a name outside of the directory.
MCFileOf ==
    [notes |-> [app |-> "notes", other |-> "todo"], todo |-> [app |-> "todo", other |-> NoFile]]

ServicesInit ==
    /\ part \in Parts
    /\ LlmInit
    /\ part # "llm" => providersFile = NoProviders /\ rolesFile = NoRoles
    /\ UsageInit
    /\ StreamInit
    /\ part # "stream" => caller.stream /\ caller.params = "chat"
    /\ BridgeInit
    /\ part # "bridge" => coreUp
    /\ ThemeInit
    /\ part # "theme" => themeFile = "missing"
    /\ SqliteInit
    /\ CommandLineInit
    /\ part # "cli" => cli.command = "control"
    /\ AccessInit

Only(name, unmoved) == part = name /\ UNCHANGED <<part, unmoved>>

ServicesNext ==
    \/ /\ LlmNext
       /\ Only("llm", <<usageVars, streamVars, bridgeVars, themeVars, sqliteVars, cliVars,
                    accessVars>>)
    \/ /\ UsageNext
       /\ Only("usage", <<llmVars, streamVars, bridgeVars, themeVars, sqliteVars, cliVars,
                    accessVars>>)
    \/ /\ StreamNext
       /\ Only("stream", <<llmVars, usageVars, bridgeVars, themeVars, sqliteVars, cliVars,
                    accessVars>>)
    \/ /\ BridgeNext
       /\ Only("bridge", <<llmVars, usageVars, streamVars, themeVars, sqliteVars, cliVars,
                    accessVars>>)
    \/ /\ ThemeNext
       /\ Only("theme", <<llmVars, usageVars, streamVars, bridgeVars, sqliteVars, cliVars,
                    accessVars>>)
    \/ /\ SqliteNext
       /\ Only("sqlite", <<llmVars, usageVars, streamVars, bridgeVars, themeVars, cliVars,
                    accessVars>>)
    \/ /\ CommandLineNext
       /\ Only("cli", <<llmVars, usageVars, streamVars, bridgeVars, themeVars, sqliteVars,
                       accessVars>>)
    \/ /\ AccessNext
       /\ Only("access", <<llmVars, usageVars, streamVars, bridgeVars, themeVars, sqliteVars,
                          cliVars>>)

servicesVars ==
    <<part, llmVars, usageVars, streamVars, bridgeVars, themeVars, sqliteVars, cliVars,
      accessVars>>

ServicesSpec ==
    ServicesInit /\ [][ServicesNext]_servicesVars /\ StreamFairness /\ BridgeFairness
=============================================================================
