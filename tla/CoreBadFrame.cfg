\* What the design says of a frame that cannot be understood.
SPECIFICATION Spec
CONSTANTS
    None = None
    Apps <- MCApps
    Frontends <- MCFrontends
    Callers <- MCCallers
    Owner <- MCOwner
    Blocking = {}
    Methods = {"list"}
    Allowed <- MCAllowed
    MaxFrames <- MCOneFrame
PROPERTIES
    BadFrameClosesItsConnection
