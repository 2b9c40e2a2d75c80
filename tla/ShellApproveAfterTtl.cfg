\* What the design note says of an approval past its TTL.
SPECIFICATION SessionSpec
CONSTANTS
    Apps <- MCApps
    Commands <- MCCommands
    Programs <- MCPrograms
    Stages <- MCStages
    Allow <- MCAllow
    Ask <- MCAsk
    MaxApprovals = 2
    Ttl = 2
PROPERTIES
    ApproveAfterTtlFails
