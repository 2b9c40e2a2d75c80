\* The approval store under the shell handler, inside the event loop.
SPECIFICATION SessionSpec
CONSTANTS
    Apps <- MCApps
    Commands <- MCCommands
    Programs <- MCPrograms
    Stages <- MCStages
    Allow <- MCAllow
    Ask <- MCAsk
    MaxApprovals = 3
    Ttl = 2
INVARIANTS
    IInv
    RunsHadConsent
    DeniedNeverRuns
    SingleUse
PROPERTIES
    SettledUnlessHeld
    ApprovedIsKept
    ImplementsLifeCycle
