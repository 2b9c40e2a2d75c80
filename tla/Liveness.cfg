\* Every client that asks for something is answered or sent away, unless
\* another one holds the core for ever; calls end, and idle workers go.
SPECIFICATION LivenessSpec
CONSTANTS
    notes = notes
    todo = todo
    p1 = p1
    p2 = p2
    None = None
    Apps <- MCApps
    Frontends <- MCFrontends
    Callers <- MCCallers
    Owner <- MCOwner
    Blocking = {}
    Methods = {"list"}
    Allowed <- MCAllowed
    MaxFrames <- MCOneFrame
PROPERTIES
    
    TheLoopResumes
    
