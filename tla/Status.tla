------------------------------- MODULE Status -------------------------------
(* The one-line status and the health card, derived from the telemetry slices
   and from how old the server's receipt of each is (telemetry/status.py).
   Ages are half-seconds as in Gates.  Labels, messages and actions are left
   out; what is kept is the status, each subsystem's level and the roll-up.   *)
EXTENDS Gates

MAX_BASE_STATE_AGE == 30
MAX_POSE_AGE == 30
MAX_BATTERY_AGE == 60
MAX_DIAGNOSTICS_AGE == 60
MAX_RESOURCES_AGE == 120
MAX_ROBOT_TELEMETRY_AGE == 30
MAX_LIDAR_AGE == 10

\* status.py keeps its own, narrower sets of charge_state strings.
STATUS_CHARGING == {"charging", "bulk", "overcharge", "float"}
DOCKED_STATES == STATUS_CHARGING \cup {"docked"}

stale_age(age, limit) == age > limit

\* What is wrong in the reading itself, however old it is.
Hazard(b) == b.estop \/ b.fault \/ ~b.link \/ ~b.valid

StatusOnDock(b) ==
  IF b.observer # "unsaid" THEN b.observer = "yes" /\ b.dock = "DOCKED_CONFIRMED"
                           ELSE b.charge \in DOCKED_STATES

(* s is the live state: connection, and for each slice its data and age;
   `levels` is the set of levels the diagnostics slice reports.               *)
derive_status(s) ==
  LET b == s.base IN
  IF s.connection = "offline" THEN "offline"
  ELSE IF \/ ~s.has_base \/ stale_age(s.base_age, MAX_BASE_STATE_AGE)
          \/ Hazard(b) \/ b.tage > MAX_ROBOT_TELEMETRY_AGE
          \/ ~stale_age(s.diagnostics_age, MAX_DIAGNOSTICS_AGE) /\ "ERROR" \in s.levels
       THEN "needs_attention"
  ELSE IF b.undocking THEN "navigating"
  ELSE IF StatusOnDock(b) THEN IF b.charge \in STATUS_CHARGING THEN "charging" ELSE "docked"
  ELSE IF ~epoch_ready(b) THEN "needs_attention"
  ELSE IF ~b.motors THEN "paused"
  ELSE IF s.stalled THEN "stuck"
  ELSE IF s.recording THEN "recording"
  ELSE IF s.goal /\ s.moving /\ ~stale_age(s.pose_age, MAX_POSE_AGE) THEN "navigating"
  ELSE "ready"

LinkHealth(s) ==
  CASE s.connection = "online" -> "healthy"
    [] s.connection = "stale"  -> "warning"
    [] OTHER                   -> "offline"

\* Mutant: a drive base that went silent is offline, whatever it last reported.
SilenceHides(s) ==
  LET b == s.base IN
  IF ~s.has_base \/ s.connection = "offline" THEN "offline"
  ELSE IF stale_age(s.base_age, MAX_BASE_STATE_AGE) THEN "offline"
  ELSE IF Hazard(b) \/ b.tage > MAX_ROBOT_TELEMETRY_AGE THEN "fault"
  ELSE IF b.bumpers = "no" \/ ~b.motors THEN "warning"
  ELSE "healthy"

DriveBaseHealth(s) ==
  LET b == s.base IN
  IF ~s.has_base \/ s.connection = "offline" THEN "offline"
  ELSE IF stale_age(s.base_age, MAX_BASE_STATE_AGE) THEN IF Hazard(b) THEN "fault" ELSE "offline"
  ELSE IF Hazard(b) \/ b.tage > MAX_ROBOT_TELEMETRY_AGE THEN "fault"
  ELSE IF b.bumpers = "no" \/ ~b.motors THEN "warning"
  ELSE "healthy"

BatteryHealth(s) ==
  IF s.battery = "none" \/ s.connection = "offline" \/ stale_age(s.battery_age, MAX_BATTERY_AGE)
  THEN "offline"
  ELSE CASE s.battery = "critical"         -> "fault"
         [] s.battery \in {"low", "unsaid"} -> "warning"
         [] OTHER                          -> "healthy"

SensorHealth(s) ==
  IF s.connection = "offline" \/ s.lidar_age = Never THEN "offline"
  ELSE IF s.lidar_age > MAX_LIDAR_AGE THEN "warning" ELSE "healthy"

LocalizationHealth(s) ==
  IF s.connection = "offline" \/ stale_age(s.pose_age, MAX_POSE_AGE) THEN "offline"
  ELSE IF ~s.has_base \/ stale_age(s.base_age, MAX_BASE_STATE_AGE) \/ ~epoch_ready(s.base) \/ ~s.localized
  THEN "warning" ELSE "healthy"

SystemsHealth(s) ==
  IF stale_age(s.diagnostics_age, MAX_DIAGNOSTICS_AGE) \/ s.levels = {} THEN "offline"
  ELSE IF "ERROR" \in s.levels THEN "fault"
  ELSE IF s.levels \cap {"WARN", "STALE"} # {} THEN "warning" ELSE "healthy"

ComputerHealth(s) ==
  IF s.connection = "offline" \/ stale_age(s.resources_age, MAX_RESOURCES_AGE) THEN "offline"
  ELSE IF s.hot_or_full THEN "warning" ELSE "healthy"

Subsystems(s) ==
  [connection |-> LinkHealth(s), drive_base |-> DriveBaseHealth(s), battery |-> BatteryHealth(s),
   sensors |-> SensorHealth(s), localization |-> LocalizationHealth(s),
   systems |-> SystemsHealth(s), computer |-> ComputerHealth(s)]

\* A subsystem without data is a warning as long as the robot is reachable.
Overall(s) ==
  LET subs == Subsystems(s)
      levels == {subs[id] : id \in DOMAIN subs}
  IN IF s.connection = "offline" THEN "offline"
     ELSE IF "fault" \in levels THEN "fault"
     ELSE IF levels \cap {"warning", "offline"} # {} THEN "warning"
     ELSE "healthy"

derive_health(s) == [subsystems |-> Subsystems(s), overall |-> Overall(s)]
=============================================================================
