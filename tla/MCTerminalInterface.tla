------------------------ MODULE MCTerminalInterface ------------------------
(* A small instance of TerminalInterface: one app whose two commands both  *)
(* need consent.                                                           *)
EXTENDS TerminalInterface, TLC

CONSTANTS c1, c2, s1, s2

MCApps == {"notes"}
MCCommands == {c1, c2}
MCStages == [c \in MCCommands |-> {c}]
MCAllow == [a \in MCApps |-> {}]
MCAsk == [a \in MCApps |-> MCCommands]
MCKeyOrder == {<<1, 2>>}
MCSlots == {s1, s2}
MCSymmetry == Permutations(MCCommands) \cup Permutations(MCSlots)
=============================================================================
