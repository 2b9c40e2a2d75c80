\* Safety of worker starts, replacements, calls and reaping.
SPECIFICATION Spec
CONSTANTS
    notes = notes
    todo = todo
    p1 = p1
    p2 = p2
    p3 = p3
    None = None
    Apps <- MCApps
    WorkerIds <- MCWorkerIds
    Manifested <- MCManifested
    Procs = {p1, p2, p3}
    MaxRequests = 2
    MaxInbox = 1
SYMMETRY ProcSymmetry
INVARIANTS
    IInv
    ActiveMatchesRegistry
    NoOrphanChild
    OneChildPerApp
    AnswersTheRequest
PROPERTIES
    LossHasACause
    ImplementsService
