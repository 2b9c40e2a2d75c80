\* What the design says of a worker that replaces another.
SPECIFICATION Spec
CONSTANTS
    notes = notes
    todo = todo
    p1 = p1
    p2 = p2
    p3 = p3
    None = None
    Apps <- MCApps
    WorkerIds <- MCWorkerIds
    Manifested <- MCManifested
    Procs = {p1, p2}
    MaxRequests = 1
    MaxInbox = 1
PROPERTIES
    ReplacementSparesTheNew
