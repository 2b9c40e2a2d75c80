-------------------------- MODULE MCWorkerManager --------------------------
(* Two apps, one of them without a manifest, and three processes.          *)
EXTENDS WorkerManager, TLC

CONSTANTS notes, todo, p1, p2, p3

MCApps == {notes, todo}
MCWorkerIds == {notes, todo}
MCManifested == {notes}

ProcSymmetry == Permutations({p1, p2, p3})
=============================================================================
