\* The clients of the core and the audit of what they ask for.
SPECIFICATION Spec
CONSTANTS
    None = None
    Apps <- MCApps
    Frontends <- MCFrontends
    Callers <- MCCallers
    Owner <- MCOwner
    Blocking = {}
    Methods <- MCMethods
    Allowed <- MCAllowed
    MaxFrames <- MCMaxFrames
INVARIANTS
    IInv
    CallsAreAudited
    RepliesMatchTheAudit
