\* A worker that waits for a capability while it is called.
SPECIFICATION FairSpec
CONSTANTS
    None = None
    Apps <- MCApps
    Frontends <- MCFrontends
    Callers <- MCCallers
    Owner <- MCOwner
    Blocking <- MCCallers
    Methods = {"list"}
    Allowed <- MCAllowed
    MaxFrames <- MCOneFrame
PROPERTIES
    RequestsAreSettled
