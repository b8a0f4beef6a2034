---------------------------- MODULE MCManagedRun ----------------------------
(* Small instances of ManagedRun for TLC. *)
EXTENDS ManagedRun, TLC

(* Worker ids are interchangeable: no definition tells them apart.         *)
WorkerSymmetry == Permutations(Workers)
=============================================================================
