------------------------- MODULE MCShellCapability -------------------------
(* A small instance of ShellCapability: two apps, one of which may ask for *)
(* what the other may not run at all, and four command strings.            *)
EXTENDS ApprovalSessions

MCApps == {"notes", "todo"}
MCPrograms == {"rg", "curl"}
MCCommands == {"rg", "curl", "rg|curl", "&&"}
MCStages == [c \in MCCommands |->
                CASE c = "rg" -> {"rg"}
                  [] c = "curl" -> {"curl"}
                  [] c = "rg|curl" -> {"rg", "curl"}
                  [] c = "&&" -> {}]
MCAllow == [a \in MCApps |-> IF a = "notes" THEN {"rg"} ELSE {}]
MCAsk == [a \in MCApps |-> IF a = "notes" THEN {"curl"} ELSE {"rg"}]
=============================================================================
