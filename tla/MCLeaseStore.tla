---------------------------- MODULE MCLeaseStore ----------------------------
(* LeaseStore with two interchangeable workers.                            *)
EXTENDS LeaseStore, TLC

WorkerSymmetry == Permutations(Workers)
=============================================================================
