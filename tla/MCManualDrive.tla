--------------------------- MODULE MCManualDrive ---------------------------
(* Instances of ManualDrive for TLC. *)
EXTENDS ManualDrive, TLC

CONSTANTS a, b

\* Session ids are only compared with each other.
Symmetry == Permutations(Ids)
=============================================================================
