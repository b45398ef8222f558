------------------------- MODULE MCCommandExecutor -------------------------
(* Instances of CommandExecutor for TLC. *)
EXTENDS CommandExecutor, TLC

\* Command ids and context values are interchangeable.
Symmetry == Permutations(Command) \cup Permutations(Contexts)

MotionKindsRun == {"navigate_to_pose", "undock", "stop", "motor_disable"}
NavStop        == {"navigate_to_pose", "stop"}
=============================================================================
