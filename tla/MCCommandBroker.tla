-------------------------- MODULE MCCommandBroker --------------------------
(* Instances of CommandBroker for TLC. *)
EXTENDS CommandBroker, TLC

CONSTANTS c1, c2, c3, i1, i2, i3, alice, bob

\* Two operators; a third connection is the first operator's second tab.
Users == [c \in Client |-> IF c = c2 THEN bob ELSE alice]

\* What the ids of a run name, first to last.
Naming(k1, k2, k3) == [i \in Id |-> CASE i = i1 -> k1 [] i = i2 -> k2 [] i = i3 -> k3]
NavLidar      == Naming("navigate_to_pose", "set_lidar_power", "dock_reset")
MapLidarReset == Naming("set_initial_pose", "set_lidar_power", "software_reset")
=============================================================================
