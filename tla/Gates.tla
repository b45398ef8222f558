------------------------------- MODULE Gates -------------------------------
(* The preconditions of the gated commands, as four parts of the dashboard ask
   them of the same telemetry: the server's authorization (commands/gates.py),
   the browser's mirror that greys out controls (lib/dockGates.ts), and the
   bridge's own precheck before a command reaches the motion layer
   (commands.py).  Each rule is a predicate: what the refusal says is left out.
   Ages are whole half-seconds, so that the limits 0.5 s, 2 s, 3 s are 1, 4, 6;
   Never stands for a slice that was never received.                        *)
EXTENDS Naturals, Integers

Never == 9999
MAX_TELEMETRY_AGE == 4
MAX_RECEIPT_AGE == 6
MAX_ODOM_AGE == 6
FRESH_SCAN == 1

CHARGING_STATES == {"charging", "charge", "bulk", "float", "overcharge"}
ON_DOCK_STATES == CHARGING_STATES \cup {"docked", "dock", "on_dock"}

\* A base_state that was never received: the fail-closed defaults of StateFacts.
Absent ==
  [link |-> FALSE, tage |-> Never, valid |-> FALSE, charge |-> "unknown", motors |-> FALSE,
   estop |-> FALSE, fault |-> FALSE, stall |-> FALSE, front |-> FALSE, rear |-> FALSE,
   bumpers |-> "unsaid", dock |-> "unsaid", observer |-> "unsaid", undocking |-> FALSE,
   unknown |-> FALSE, profile |-> "unsaid", epoch |-> FALSE, recovery |-> TRUE, seed |-> FALSE,
   lidar |-> "UNKNOWN", lidar_power |-> FALSE, scan |-> Never, odom |-> Never, gen |-> 0]

----------------------------------------------------------------------------
(* What the server's and the browser's facts both derive from a base_state. *)

departed(b) == b.observer = "yes" /\ b.dock \in {"CLEAR_CONFIRMED", "DEPARTING"}
charging(b) == ~departed(b) /\ b.charge \in CHARGING_STATES
on_dock(b)  == IF b.observer = "yes" THEN b.dock = "DOCKED_CONFIRMED"
                                     ELSE b.charge \in ON_DOCK_STATES
telemetry_fresh(b) == b.link /\ b.tage <= MAX_TELEMETRY_AGE
epoch_ready(b) == b.epoch /\ ~b.recovery /\ b.seed

\* What the rear needs before the robot backs off its dock.
rear_clear(b) == b.bumpers = "yes" /\ ~b.rear

----------------------------------------------------------------------------
(* The server: facts f of the live state, as _validate_robot_state makes them. *)

hardware_ok(f) ==
  /\ f.online
  /\ f.base_age <= MAX_RECEIPT_AGE /\ telemetry_fresh(f.base)
  /\ f.base.valid /\ ~f.base.fault

stationary_ok(f) == f.pose_age <= MAX_RECEIPT_AGE /\ f.stationary

lidar_ok(f) ==
  /\ f.online /\ f.base.link /\ f.base.valid
  /\ f.base.tage + f.base_age <= FRESH_SCAN
  /\ f.base.lidar = "READY"
  /\ f.base.scan + f.base_age <= FRESH_SCAN

lidar_power_ok(f) ==
  /\ hardware_ok(f)
  /\ f.base.lidar_power /\ "set_lidar_power" \in f.capabilities
  /\ f.base.lidar \in {"OFF", "READY", "FAULT"}
  /\ f.base.tage + f.base_age <= FRESH_SCAN
  /\ ~f.navigating /\ ~f.undock_active

\* Mutant: the raw charge signal counts even after a proven departure.
NavigateByCharge(f) ==
  /\ hardware_ok(f)
  /\ ~f.base.estop /\ f.base.charge \notin ON_DOCK_STATES /\ f.base.motors
  /\ epoch_ready(f.base)
  /\ f.pose_age <= MAX_RECEIPT_AGE
  /\ f.localized \/ f.allow_unlocalized

navigate_ok(f) ==
  /\ hardware_ok(f)
  /\ ~f.base.estop /\ ~on_dock(f.base) /\ f.base.motors
  /\ epoch_ready(f.base)
  /\ f.pose_age <= MAX_RECEIPT_AGE
  /\ f.localized \/ f.allow_unlocalized

charge_release_ok(f) == hardware_ok(f) /\ charging(f.base) /\ stationary_ok(f)

motor_enable_ok(f)   == f.online /\ "motor_enable" \in f.capabilities
motor_disable_ok(f)  == f.online /\ "motor_disable" \in f.capabilities
software_reset_ok(f) == f.online /\ "software_reset" \in f.capabilities

dock_reset_ok(f) ==
  /\ hardware_ok(f) /\ "dock_reset" \in f.capabilities
  /\ ~f.base.estop /\ ~f.base.unknown /\ ~f.base.stall /\ f.base.lidar # "FAULT"
  /\ ~f.undock_active /\ ~f.navigating
  /\ f.base.observer = "yes" /\ f.base.dock \in {"FAULT_STOPPED", "CLEAR_CONFIRMED", "DOCKED_CONFIRMED"}
  /\ stationary_ok(f)

\* Mutant: an invalid dock observer is not a reason to refuse.
UndockBlind(f) ==
  /\ hardware_ok(f) /\ "undock" \in f.capabilities
  /\ f.base.profile # "no"
  /\ ~f.undock_active /\ on_dock(f.base)
  /\ ~f.base.estop /\ rear_clear(f.base)
  /\ ~f.navigating
  /\ stationary_ok(f)

undock_ok(f) ==
  /\ hardware_ok(f) /\ "undock" \in f.capabilities
  /\ f.base.observer # "no" /\ f.base.profile # "no"
  /\ ~f.undock_active /\ on_dock(f.base)
  /\ ~f.base.estop /\ rear_clear(f.base)
  /\ ~f.navigating
  /\ stationary_ok(f)

teleop_ok(f) ==
  /\ f.online /\ "web_teleop_v1" \in f.capabilities
  /\ f.base_age <= FRESH_SCAN /\ f.base.link /\ f.base.valid
  /\ \A age \in {f.base.tage, f.base.scan, f.base.odom} : age + f.base_age <= FRESH_SCAN
  /\ f.base.epoch /\ f.base.lidar = "READY"
  /\ ~f.base.estop /\ ~f.base.fault
  /\ f.base.bumpers = "yes" /\ ~f.base.front /\ ~f.base.rear
  /\ f.base.motors /\ ~f.base.undocking
  /\ f.base.observer = "yes" /\ f.base.dock = "CLEAR_CONFIRMED"

NEEDS_LIDAR == {"navigate_to_pose", "set_initial_pose", "undock", "charge_release"}

\* rejection_reason is None: the server forwards the command.
Permitted(command, f) ==
  /\ command \in NEEDS_LIDAR => lidar_ok(f)
  /\ CASE command = "set_lidar_power"  -> lidar_power_ok(f)
       [] command = "navigate_to_pose" -> navigate_ok(f)
       [] command = "charge_release"   -> charge_release_ok(f)
       [] command = "motor_enable"     -> motor_enable_ok(f)
       [] command = "motor_disable"    -> motor_disable_ok(f)
       [] command = "dock_reset"       -> dock_reset_ok(f)
       [] command = "undock"           -> undock_ok(f)
       [] command = "software_reset"   -> software_reset_ok(f)
       [] command = "teleop_start"     -> teleop_ok(f)
       [] OTHER                        -> TRUE

----------------------------------------------------------------------------
(* The browser: facts f built from the frames it received, without the
   server's receipt ages.                                                   *)

BrowserHardware(f) ==
  f.online /\ telemetry_fresh(f.base) /\ f.base.valid /\ ~f.base.fault

chargeReleaseOffered(f) == BrowserHardware(f) /\ charging(f.base) /\ f.stationary
motorEnableOffered(f)   == f.online /\ "motor_enable" \in f.capabilities
motorDisableOffered(f)  == f.online /\ "motor_disable" \in f.capabilities
softwareResetOffered(f) == f.online /\ "software_reset" \in f.capabilities

undockOffered(f) ==
  /\ BrowserHardware(f) /\ "undock" \in f.capabilities
  /\ f.base.observer # "no" /\ f.base.profile # "no"
  /\ ~f.base.undocking /\ on_dock(f.base)
  /\ ~f.base.estop /\ rear_clear(f.base)
  /\ ~f.navigating
  /\ f.stationary

MIRRORED == {"charge_release", "motor_enable", "motor_disable", "undock", "software_reset"}

Offered(command, f) ==
  CASE command = "charge_release" -> chargeReleaseOffered(f)
    [] command = "motor_enable"   -> motorEnableOffered(f)
    [] command = "motor_disable"  -> motorDisableOffered(f)
    [] command = "undock"         -> undockOffered(f)
    [] command = "software_reset" -> softwareResetOffered(f)
    [] OTHER                      -> TRUE

----------------------------------------------------------------------------
(* The bridge: the latest base_state it sent, b, received `age` ago from the
   driver, and what it makes of its own localization.                        *)

BridgeLidar(b, age) ==
  /\ b.link /\ b.valid
  /\ b.tage + age <= FRESH_SCAN
  /\ b.lidar = "READY" /\ b.scan + age <= FRESH_SCAN

\* localization_epoch_ready: the fix is younger than the seed of this epoch.
localization_epoch_ready(b, after_seed, age) ==
  /\ b.link /\ b.tage <= MAX_TELEMETRY_AGE /\ age <= MAX_RECEIPT_AGE
  /\ epoch_ready(b) /\ after_seed

BridgeUndock(b) ==
  /\ ~b.fault /\ b.observer # "no" /\ b.profile # "no" /\ ~b.undocking
  /\ charging(b)
  /\ ~b.estop /\ rear_clear(b)

BridgeNavigate(b, age, localized, override, odom_age) ==
  /\ b.link /\ b.tage <= MAX_TELEMETRY_AGE /\ age <= MAX_RECEIPT_AGE
  /\ b.valid /\ ~b.fault /\ ~b.estop
  /\ ~on_dock(b) /\ b.motors
  /\ epoch_ready(b)
  /\ override => odom_age <= MAX_ODOM_AGE
  /\ localized \/ override

\* precheck is None: the executor goes on to the motion layer.  `override` is
\* the operator's flag with the server's stamp of a verified role.
Accepted(command, b, age, localized, override, odom_age) ==
  /\ command \in NEEDS_LIDAR => BridgeLidar(b, age)
  /\ command = "undock" => BridgeUndock(b)
  /\ command = "navigate_to_pose" => BridgeNavigate(b, age, localized, override, odom_age)
=============================================================================
