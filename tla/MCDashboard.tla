----------------------------- MODULE MCDashboard -----------------------------
(* Instances of Dashboard for TLC. *)
EXTENDS Dashboard

CONSTANTS p1, p2

Symmetry == Permutations(Caller)
=============================================================================
