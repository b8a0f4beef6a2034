----------------------------- MODULE MCSandbox -----------------------------
(* Sandbox for the bounds of the configurations.                           *)
EXTENDS Sandbox, TLC

CONSTANTS p1, p2

=============================================================================
