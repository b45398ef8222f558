---------------------------- MODULE MCRobotState ----------------------------
(* Instances of RobotState for TLC. *)
EXTENDS RobotState

CONSTANTS c1, c2

\* A robot ready to drive, and one that charges on its dock.
Ready ==
  [link |-> TRUE, tage |-> 0, valid |-> TRUE, charge |-> "not charging", motors |-> TRUE,
   estop |-> FALSE, fault |-> FALSE, stall |-> FALSE, front |-> FALSE, rear |-> FALSE,
   bumpers |-> "yes", dock |-> "CLEAR_CONFIRMED", observer |-> "yes", undocking |-> FALSE,
   unknown |-> FALSE, profile |-> "yes", epoch |-> TRUE, recovery |-> FALSE, seed |-> TRUE,
   lidar |-> "READY", lidar_power |-> TRUE, scan |-> 0, odom |-> 0, gen |-> 1]
Docked == [Ready EXCEPT !.charge = "bulk", !.motors = FALSE, !.dock = "DOCKED_CONFIRMED"]

\* What may be different about a reading, one field at a time.
Changes ==
  <<[link |-> FALSE], [tage |-> 1], [tage |-> 5], [tage |-> 31], [valid |-> FALSE],
    [charge |-> "not charging"], [charge |-> "bulk"], [charge |-> "charge"], [charge |-> "docked"],
    [charge |-> "on_dock"], [motors |-> FALSE], [motors |-> TRUE], [estop |-> TRUE], [fault |-> TRUE],
    [stall |-> TRUE], [front |-> TRUE], [rear |-> TRUE], [bumpers |-> "no"], [bumpers |-> "unsaid"],
    [dock |-> "CLEAR_CONFIRMED"], [dock |-> "DEPARTING"], [dock |-> "DOCKED_CONFIRMED"],
    [dock |-> "FAULT_STOPPED"], [observer |-> "no"], [observer |-> "unsaid"], [undocking |-> TRUE],
    [unknown |-> TRUE], [profile |-> "no"], [profile |-> "unsaid"], [epoch |-> FALSE],
    [recovery |-> TRUE], [seed |-> FALSE], [lidar |-> "OFF"], [lidar |-> "FAULT"], [lidar |-> "STARTING"],
    [lidar_power |-> FALSE], [scan |-> 1], [scan |-> 2], [odom |-> 2]>>

F(kind) == <<kind>>
D(kind, data) == <<kind, data>>
P(speed, localized) == D("pose", [speed |-> speed, localized |-> localized])
Twist(gen, epoch, still, delay) == [gen |-> gen, epoch |-> epoch, still |-> still, delay |-> delay]
Everything == {"undock", "motor_enable", "motor_disable", "software_reset", "dock_reset",
               "set_lidar_power", "web_teleop_v1"}

Plan(alternatives, sends, n, w, lapses) ==
  [readings |-> alternatives, motions |-> {}, hellos |-> {}, capabilities |-> Everything,
   commands |-> {}, recording |-> FALSE, sessions |-> 1, overlap |-> 0,
   sends |-> sends, frames |-> n, waits |-> w, lapses |-> lapses]

\* Each reading with two changes, against the gates, the status and the mirror.
ReadingPlan ==
  Plan({{Changes[i] @@ Changes[j] @@ b} : i \in DOMAIN Changes, j \in DOMAIN Changes, b \in {Ready, Docked}},
       {P("stopped", TRUE)}, 2, 1, {1, 7})

\* The other facts of the gates.
FactPlan ==
  [Plan({{Ready}, {Docked}}, {P(speed, TRUE) : speed \in {"limit", "driving", "turning"}}
              \cup {P("limit", FALSE), D("path", TRUE)}, 3, 2, {1, 7, 24})
    EXCEPT !.commands = Gated, !.recording = TRUE]

HelloPlan ==
  [Plan({{Ready}, {Docked}}, {P("stopped", TRUE), F("heartbeat"), D("hello", {"undock"})}, 4, 1, {1})
    EXCEPT !.sessions = 2, !.hellos = {{"undock"}}, !.commands = {"undock", "motor_enable"}]

StallPlan ==
  Plan({{Ready, [Ready EXCEPT !.estop = TRUE]}},
       {P("stopped", TRUE), P("driving", TRUE), D("path", TRUE), D("path", FALSE)}, 5, 2, {15, 31})

HazardPlan ==
  [Plan({{Ready, [Ready EXCEPT !.estop = TRUE], [Ready EXCEPT !.front = TRUE], [Ready EXCEPT !.fault = TRUE]}},
       {F("heartbeat"), F("lidar")}, 4, 2, {7, 24}) EXCEPT !.sessions = 2]

BatteryPlan ==
  Plan({{Ready}}, {D("battery", level) : level \in {"ok", "low", "critical", "unsaid", "charging"}}
                \cup {D("resources", TRUE), D("resources", FALSE)}, 4, 2, {7, 121})

DiagnosticsPlan ==
  Plan({{}}, {D("diagnostics", level) : level \in {"OK", "WARN", "ERROR"}} \cup {F("heartbeat")}, 4, 3, {7, 61, 241})

MotionPlan ==
  [Plan({{Ready, [Ready EXCEPT !.gen = 2, !.dock = "FAULT_STOPPED"]}}, {}, 5, 1, {1, 3})
   EXCEPT !.sessions = 3, !.overlap = 1,
          !.motions = {Twist(1, 1, TRUE, 0), Twist(1, 2, FALSE, 2), Twist(2, 1, TRUE, 4), Twist(2, 2, TRUE, 1)},
          !.commands = {"dock_reset"}]

MCPlans == <<ReadingPlan, FactPlan, HelloPlan, StallPlan, HazardPlan, BatteryPlan, DiagnosticsPlan,
             MotionPlan>>
=============================================================================
