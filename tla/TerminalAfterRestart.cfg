\* Does an approval go to the line it was given for, across a restart?
SPECIFICATION TerminalSpec
CONSTANTS
    c1 = c1
    c2 = c2
    s1 = s1
    s2 = s2
    Apps <- MCApps
    Commands <- MCCommands
    Programs <- MCCommands
    Stages <- MCStages
    Allow <- MCAllow
    Ask <- MCAsk
    KeyOrder <- MCKeyOrder
    Slots <- MCSlots
    MaxApprovals = 2
    Ttl = 1
    MaxLife = 1

INVARIANT
    ApprovedIsTheSelected
