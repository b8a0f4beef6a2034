----------------------------- MODULE MCLegacyRun -----------------------------
(* LegacyRun with two or three interchangeable callers.                    *)
EXTENDS LegacyRun, TLC

CallerSymmetry == Permutations(Callers)
=============================================================================
