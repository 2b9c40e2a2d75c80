---------------------------- MODULE MCCoreRuntime ----------------------------
(* Two frontends and one capability call; an app with a manifest, and one   *)
(* without.                                                                 *)
EXTENDS CoreRuntime

MCFrontends == {"tui", "cli"}
MCCallers == {"ask"}
MCOwner == [c \in MCCallers |-> "notes"]
MCApps == {"notes", "ghost"}
MCMethods == {"list", "purge"}
MCAllowed == [a \in {"notes"} |-> {"list"}]
MCOneFrame == [c \in MCFrontends \cup MCCallers |-> 1]
MCMaxFrames == [c \in MCFrontends \cup MCCallers |-> IF c = "tui" THEN 2 ELSE 1]
=============================================================================
