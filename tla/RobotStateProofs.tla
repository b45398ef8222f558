--------------------------- MODULE RobotStateProofs ---------------------------
(***************************************************************************)
(* Proofs about what the server knows of a robot, for every reading the    *)
(* robot may send, every set of diagnostic sources and every threshold:    *)
(* the gates of server, browser and bridge fit, the published status does  *)
(* not hide what is wrong, and a measured motion is of the drive-base      *)
(* session on record.                                                      *)
(***************************************************************************)
EXTENDS RobotState, TLAPS

Levels == {"OK", "WARN", "ERROR"}
Ages   == 0 .. AgeCap \cup {Never}
Words  == {"nothing", "pressed", "released", "stuck", "low", "started", "stopped", "connected",
           "disconnected", "recovered", "none", "STALE"} \cup Levels
Report == [level : Levels, age : Ages]

\* The types of TypeOK, with the functions' domains and the readings' fields.
AgeTypes ==
  /\ heartbeat \in Ages /\ base_age \in Ages /\ pose_age \in Ages /\ motion_age \in Ages
  /\ lidar_age \in Ages /\ battery_age \in Ages /\ resources_age \in Ages /\ diag_age \in Ages
  /\ still_for \in Ages

PlanTypes ==
  /\ plan \in DOMAIN Plans /\ readings \subseteq Reading
  /\ frames \in 0 .. Plans[plan].frames /\ waits \in 0 .. Plans[plan].waits
  /\ sessions \in 0 .. Plans[plan].sessions

HandlerTypes ==
  /\ gateway \in {"none", "alerting", "greeting", "serving", "storing", "leaving"}
  /\ opening \in 0 .. Plans[plan].overlap + 1
  /\ former \subseteq {"alerting", "greeting", "storing", "leaving"} /\ monitor \in {"idle", "storing"}

SliceTypes ==
  /\ connection \in {"online", "stale", "offline"}
  /\ base \in readings \cup {Absent} /\ base_current \in BOOLEAN
  /\ motion \in Plans[plan].motions \cup {NoMotion}
  /\ motion_from \in {"nobody", "session", "overlap", "before"}
  /\ stalled \in BOOLEAN /\ (stalled => still_for # Never)
  /\ active \in Gated \cup {"none"}

DiagTypes ==
  /\ sources \in [Source -> Report] /\ reported \in [Source -> Report]
  /\ diag_levels \in [Source -> Levels \cup {"none"}]
  /\ said \in [Subjects \cup Source -> Words]

TypeInv == PlanTypes /\ AgeTypes /\ HandlerTypes /\ SliceTypes /\ DiagTypes

----------------------------------------------------------------------------
(* Ages and readings.                                                        *)

\* Every age stays within its cap, only what was received has one, and nothing
\* gets younger while time passes (Slice.age).
LEMMA AgesGrow ==
  ASSUME NEW age \in Ages, NEW d \in Nat
  PROVE  /\ Older(age, d) \in Ages
         /\ Older(age, d) = Never <=> age = Never
         /\ \A n \in 0 .. AgeCap - 1 : Older(age, d) <= n => age <= n
  BY ThresholdAssumption DEF Older, Ages, Never

\* The flags of a reading are flags; so are those of the reading that was never
\* received (StateFacts).
LEMMA Flags ==
  ASSUME NEW b \in Reading \cup {Absent}
  PROVE  /\ b.motors \in BOOLEAN /\ b.estop \in BOOLEAN /\ b.fault \in BOOLEAN
         /\ b.front \in BOOLEAN /\ b.rear \in BOOLEAN
         /\ b.observer \in Optional
<1>1. CASE b \in Reading
  BY <1>1 DEF Reading
<1>2. CASE b = Absent
  BY <1>2 DEF Absent, Optional
<1> QED BY <1>1, <1>2

----------------------------------------------------------------------------
(* The gates.                                                                *)

\* The browser's mirror leaves out what it means to leave out, and nothing else
\* (dockGates.ts against gates.py).
LEMMA MirrorHolds == MirrorAgrees
<1> SUFFICES ASSUME NEW command \in MIRRORED
             PROVE  /\ Permitted(command, Facts) => Offered(command, BrowserFacts)
                    /\ /\ Offered(command, BrowserFacts)
                       /\ base_age <= MAX_RECEIPT_AGE /\ pose_age <= MAX_RECEIPT_AGE
                       /\ command \in NEEDS_LIDAR => lidar_ok(Facts)
                       /\ active \notin {"undock", "set_initial_pose"}
                       => Permitted(command, Facts)
  BY DEF MirrorAgrees
<1> DEFINE f == Facts
           g == BrowserFacts
<1>1. /\ f.online <=> g.online
      /\ f.base = base /\ g.base = base /\ f.base_age = base_age /\ f.pose_age = pose_age
      /\ f.capabilities = g.capabilities /\ (f.stationary <=> g.stationary)
      /\ f.navigating <=> active \in {"navigate_to_pose", "set_initial_pose"}
      /\ g.navigating <=> active = "navigate_to_pose"
      /\ f.undock_active <=> base.undocking \/ active = "undock"
  BY DEF Facts, BrowserFacts
<1> SUFFICES /\ Permitted(command, f) => Offered(command, g)
             /\ /\ Offered(command, g)
                /\ base_age <= MAX_RECEIPT_AGE /\ pose_age <= MAX_RECEIPT_AGE
                /\ command \in NEEDS_LIDAR => lidar_ok(f)
                /\ active \notin {"undock", "set_initial_pose"}
                => Permitted(command, f)
  OBVIOUS
<1> HIDE DEF f, g
<1>2. CASE command = "charge_release"
  <2>1. Permitted(command, f) <=> lidar_ok(f) /\ charge_release_ok(f)
    BY <1>2 DEF Permitted, NEEDS_LIDAR
  <2>2. Offered(command, g) <=> chargeReleaseOffered(g)
    BY <1>2 DEF Offered
  <2> QED BY <1>1, <1>2, <2>1, <2>2 DEF NEEDS_LIDAR, charge_release_ok, chargeReleaseOffered, hardware_ok,
             BrowserHardware, stationary_ok
<1>3. CASE command = "undock"
  <2>1. Permitted(command, f) <=> lidar_ok(f) /\ undock_ok(f)
    BY <1>3 DEF Permitted, NEEDS_LIDAR
  <2>2. Offered(command, g) <=> undockOffered(g)
    BY <1>3 DEF Offered
  <2> QED BY <1>1, <1>3, <2>1, <2>2 DEF NEEDS_LIDAR, undock_ok, undockOffered, hardware_ok,
             BrowserHardware, stationary_ok
<1>4. CASE command \in {"motor_enable", "motor_disable", "software_reset"}
  <2>1. Permitted(command, f) <=> f.online /\ command \in f.capabilities
    BY <1>4 DEF Permitted, NEEDS_LIDAR, motor_enable_ok, motor_disable_ok, software_reset_ok
  <2>2. Offered(command, g) <=> g.online /\ command \in g.capabilities
    BY <1>4 DEF Offered, motorEnableOffered, motorDisableOffered, softwareResetOffered
  <2> QED BY <1>1, <2>1, <2>2
<1> QED BY <1>2, <1>3, <1>4 DEF MIRRORED

\* What the server forwards the bridge does not refuse on the same readings
\* (gates.py against the precheck of commands.py).
LEMMA ServerFirst == ServerRefusesFirst
<1> SUFFICES ASSUME NEW command \in NEEDS_LIDAR, Permitted(command, Facts),
                    command = "undock" => charging(base)
             PROVE  Accepted(command, base, base_age, Facts.localized, FALSE, pose_age)
  BY DEF ServerRefusesFirst
<1> DEFINE f == Facts
<1>1. /\ f.base = base /\ f.base_age = base_age
      /\ ~f.allow_unlocalized
      /\ f.undock_active <=> base.undocking \/ active = "undock"
  BY DEF Facts
<1>2. Permitted(command, f)
  OBVIOUS
<1> HIDE DEF f
<1>3. lidar_ok(f)
  BY <1>2 DEF Permitted
<1>4. BridgeLidar(base, base_age)
  BY <1>1, <1>3 DEF lidar_ok, BridgeLidar
<1>5. command = "undock" => BridgeUndock(base)
  BY <1>1, <1>2 DEF Permitted, undock_ok, hardware_ok, BridgeUndock
<1>6. command = "navigate_to_pose" => BridgeNavigate(base, base_age, f.localized, FALSE, pose_age)
  BY <1>1, <1>2 DEF Permitted, navigate_ok, hardware_ok, telemetry_fresh, BridgeNavigate
<1> QED BY <1>4, <1>5, <1>6 DEF Accepted, f

\* No two gates wait for each other (gates.py).
LEMMA SomeWay == AWayForward
<1> SUFFICES ASSUME active = "none", ~base.undocking,
                    {"undock", "motor_enable"} \subseteq capabilities,
                    hardware_ok(Facts), lidar_ok(Facts), stationary_ok(Facts),
                    Facts.localized, epoch_ready(base),
                    ~base.estop, rear_clear(base), base.observer # "no", base.profile # "no"
             PROVE  \/ Permitted("undock", Facts)
                    \/ Permitted("navigate_to_pose", Facts)
                    \/ Permitted("motor_enable", Facts) /\ ~base.motors /\ ~on_dock(base)
  BY DEF AWayForward
<1> DEFINE f == Facts
<1>1. /\ f.base = base /\ f.capabilities = capabilities
      /\ ~f.undock_active /\ ~f.navigating
  BY DEF Facts
<1>2. hardware_ok(f) /\ lidar_ok(f) /\ stationary_ok(f) /\ f.localized
  OBVIOUS
<1> HIDE DEF f
<1>3. CASE on_dock(base)
  <2>1. undock_ok(f)
    BY <1>1, <1>2, <1>3 DEF undock_ok
  <2> QED BY <1>2, <2>1 DEF Permitted, f
<1>4. CASE ~on_dock(base) /\ base.motors
  <2>1. navigate_ok(f)
    BY <1>1, <1>2, <1>4 DEF navigate_ok, stationary_ok
  <2> QED BY <1>2, <2>1 DEF Permitted, f
<1>5. CASE ~on_dock(base) /\ ~base.motors
  <2>1. motor_enable_ok(f)
    BY <1>1, <1>2 DEF motor_enable_ok, hardware_ok
  <2> QED BY <1>5, <2>1 DEF Permitted, NEEDS_LIDAR, f
<1> QED BY <1>3, <1>4, <1>5

----------------------------------------------------------------------------
(* Status and health of any live state.                                      *)

\* A hazard of the reading shows, however old the reading is (status.py).
LEMMA HazardShows ==
  ASSUME NEW s, s.has_base, Hazard(s.base)
  PROVE  /\ derive_status(s) \in {"needs_attention", "offline"}
         /\ derive_health(s).overall # "healthy"
         /\ s.connection # "offline" => DriveBaseHealth(s) = "fault"
<1>1. derive_status(s) \in {"needs_attention", "offline"}
  BY DEF derive_status
<1>2. s.connection # "offline" => DriveBaseHealth(s) = "fault"
  BY DEF DriveBaseHealth
<1> DEFINE subs == Subsystems(s)
           levels == {subs[id] : id \in DOMAIN subs}
<1>3. "drive_base" \in DOMAIN subs /\ subs["drive_base"] = DriveBaseHealth(s)
  BY DEF Subsystems
<1>4. DriveBaseHealth(s) \in levels
  <2> HIDE DEF subs
  <2> QED BY <1>3
<1>5. Overall(s) = IF s.connection = "offline" THEN "offline"
                   ELSE IF "fault" \in levels THEN "fault"
                   ELSE IF levels \cap {"warning", "offline"} # {} THEN "warning"
                   ELSE "healthy"
  BY DEF Overall
<1> HIDE DEF levels
<1>6. Overall(s) # "healthy"
  BY <1>2, <1>4, <1>5
<1>7. derive_health(s).overall = Overall(s)
  BY DEF derive_health
<1> QED BY <1>1, <1>2, <1>6, <1>7

\* A source that counts for less than "OK" keeps the systems from being healthy.
LEMMA FaultShows ==
  ASSUME NEW s, s.levels \cap {"WARN", "ERROR", "STALE"} # {}
  PROVE  derive_health(s).subsystems.systems # "healthy"
<1>1. SystemsHealth(s) # "healthy"
  BY DEF SystemsHealth
<1>2. derive_health(s).subsystems = Subsystems(s) /\ Subsystems(s).systems = SystemsHealth(s)
  BY DEF derive_health, Subsystems
<1> QED BY <1>1, <1>2

\* A robot called ready is sound, has a reading without hazard, is not where the
\* status sees a dock, and may move.
LEMMA ReadyMeans ==
  ASSUME NEW s, derive_status(s) = "ready"
  PROVE  /\ s.has_base /\ ~Hazard(s.base)
         /\ ~StatusOnDock(s.base) /\ epoch_ready(s.base) /\ s.base.motors
  BY DEF derive_status

----------------------------------------------------------------------------
(* Steps: what every frame does, and what may happen to the diagnostics.     *)

Frame ==
  \/ Heartbeat \/ record_pose \/ record_lidar \/ record_path \/ record_battery \/ record_base_state
  \/ record_motion \/ record_diagnostics \/ record_resources \/ set_capabilities

\* The connection state is applied (_apply_connection), or a handler goes on.
Applied == RobotConnects \/ RobotDisconnects \/ Monitor

HandlerMoves == ConnectBegins \/ Greet \/ DisconnectBegins

\* The parts of `diag` change together, in one of these ways.
Aged(d) ==
  /\ sources' = [c \in Source |-> [sources[c] EXCEPT !.age = Older(@, d)]]
  /\ reported' = [c \in Source |-> [reported[c] EXCEPT !.age = Older(@, d)]]
  /\ UNCHANGED <<diag_levels, said>>

Reset ==
  /\ sources' = [c \in Source |-> NoSource] /\ reported' = [c \in Source |-> NoSource]
  /\ diag_levels' = [c \in Source |-> "none"]

Named(named, level) ==
  /\ sources' = [c \in Source |-> IF c \in named THEN [level |-> level, age |-> 0] ELSE Refreshed(sources)[c]]
  /\ diag_levels' = [c \in Source |-> IF c \in named THEN level
                                      ELSE RefreshedLevels(sources, diag_levels)[c]]
  /\ reported' = [c \in Source |-> IF c \in named THEN [level |-> level, age |-> 0] ELSE reported[c]]
  /\ said' = [x \in DOMAIN said |->
       IF x \notin named \/ ~Notable(RefreshedLevels(sources, diag_levels)[x], level) THEN said[x]
       ELSE IF level = "OK" THEN "recovered" ELSE level]

\* Alerts that are not about a source, or none.
SaidElsewhere ==
  said' \in [Subjects \cup Source -> Words] /\ \A c \in Source : said'[c] = said[c]

\* Every handler publishes the status and health of the state it leaves, or owes
\* that until its alert is stored (recompute).
Published == status' = derive_status(Live') /\ health' = derive_health(Live')

\* Each action is one of these steps.
LEMMA RecomputePublishes == recompute => Published
  BY DEF recompute, Published

\* A frame's handler has derived at its end, or stores an alert.
LEMMA PublishEnds ==
  ASSUME NEW raised, Publish(raised)
  PROVE  /\ gateway' \in {"serving", "storing"}
         /\ recompute \/ Owing'
  BY DEF Publish, Owing, Storing

LEMMA SettleEnds ==
  ASSUME NEW raised, Settle(raised)
  PROVE  /\ gateway' \in {"serving", "storing"}
         /\ recompute \/ Owing'
         /\ RefreshDiagnostics \/ UNCHANGED diag
  BY PublishEnds DEF Settle

\* A frame keeps the connection and counts as a heartbeat (handle_robot_message).
LEMMA FrameIsReceived ==
  Frame => \E f : Receive(f)
<1>1. CASE Heartbeat
  BY <1>1 DEF Heartbeat
<1>2. CASE record_pose
  BY <1>2 DEF record_pose
<1>3. CASE record_lidar
  BY <1>3 DEF record_lidar
<1>4. CASE record_path
  BY <1>4 DEF record_path
<1>5. CASE record_battery
  BY <1>5 DEF record_battery
<1>6. CASE record_base_state
  BY <1>6 DEF record_base_state
<1>7. CASE record_motion
  BY <1>7 DEF record_motion
<1>8. CASE record_diagnostics
  BY <1>8 DEF record_diagnostics
<1>9. CASE record_resources
  BY <1>9 DEF record_resources
<1>10. CASE set_capabilities
  BY <1>10 DEF set_capabilities
<1> QED BY <1>1, <1>2, <1>3, <1>4, <1>5, <1>6, <1>7, <1>8, <1>9, <1>10 DEF Frame

LEMMA NextIs == Next => Applied \/ HandlerMoves \/ Derive \/ Elapse \/ Frame \/ Request \/ Finish
  BY DEF Next, Applied, HandlerMoves, Frame

\* After a frame its gateway serves the next one, or stores the alert it raised.
LEMMA FrameEnds ==
  Frame => gateway' \in {"serving", "storing"}
<1> SUFFICES ASSUME Frame PROVE gateway' \in {"serving", "storing"}
  OBVIOUS
<1>1. CASE \E raised : Settle(raised)
  BY <1>1, SettleEnds
<1>2. CASE \E raised : Publish(raised)
  BY <1>2, PublishEnds
<1>3. CASE record_motion
  BY <1>1, <1>3 DEF record_motion, Receive
<1>4. CASE Heartbeat \/ record_lidar \/ record_path \/ record_resources \/ set_capabilities
  BY <1>1, <1>4 DEF Heartbeat, record_lidar, record_path, record_resources, set_capabilities
<1>5. CASE record_pose
  BY <1>1, <1>5 DEF record_pose
<1>6. CASE record_battery \/ record_base_state
  BY <1>1, <1>6 DEF record_battery, record_base_state
<1>7. CASE record_diagnostics
  BY <1>2, <1>7 DEF record_diagnostics
<1> QED BY <1>3, <1>4, <1>5, <1>6, <1>7 DEF Frame

----------------------------------------------------------------------------
(* Types.                                                                    *)

LEMMA AgeValues == 0 \in Ages /\ Never \in Ages /\ (AgeCap < Never)
  BY ThresholdAssumption DEF Ages

\* The plan is fixed, and its frames and lapses are counted down to nothing.
LEMMA PlanTyped == TypeInv /\ [Next]_vars => PlanTypes'
<1> SUFFICES ASSUME TypeInv, [Next]_vars PROVE PlanTypes'
  OBVIOUS
<1> USE DEF PlanTypes, TypeInv
<1>0. Plans[plan].frames \in Nat /\ Plans[plan].waits \in Nat /\ Plans[plan].sessions \in Nat
  BY PlansAssumption
<1>1. CASE Applied \/ Greet \/ DisconnectBegins \/ Derive
  BY <1>1 DEF Applied, RobotConnects, RobotDisconnects, Monitor, Greet, DisconnectBegins, Derive, script
<1>6. CASE ConnectBegins
  BY <1>0, <1>6 DEF ConnectBegins
<1>2. CASE Elapse
  BY <1>0, <1>2 DEF Elapse
<1>3. CASE Frame
  <2>1. PICK f : Receive(f)
    BY <1>3, FrameIsReceived
  <2> QED BY <1>0, <2>1 DEF Receive
<1>4. CASE Request \/ Finish
  BY <1>4 DEF Request, Finish, script
<1>5. CASE UNCHANGED vars
  BY <1>5 DEF vars, script
<1> QED BY <1>1, <1>2, <1>3, <1>4, <1>5, <1>6, NextIs DEF HandlerMoves

\* A gateway is at one of its awaits, and no more sessions open than may overlap.
LEMMA HandlersTyped == TypeInv /\ [Next]_vars => HandlerTypes'
<1> SUFFICES ASSUME TypeInv, [Next]_vars PROVE HandlerTypes'
  OBVIOUS
<1> USE DEF HandlerTypes, TypeInv
<1>0. Plans[plan].overlap \in Nat
  BY PlansAssumption DEF PlanTypes
<1>1. CASE RobotConnects
  BY <1>0, <1>1 DEF RobotConnects, script
<1>2. CASE RobotDisconnects
  BY <1>2 DEF RobotDisconnects, script
<1>3. CASE Monitor
  BY <1>3 DEF Monitor, script
<1>4. CASE ConnectBegins
  BY <1>0, <1>4 DEF ConnectBegins
<1>5. CASE Greet \/ DisconnectBegins
  BY <1>5 DEF Greet, DisconnectBegins, script
<1>6. CASE Derive
  BY <1>6 DEF Derive, script
<1>7. CASE Elapse
  BY <1>7 DEF Elapse, handlers
<1>8. CASE Frame
  <2>1. PICK f : Receive(f)
    BY <1>8, FrameIsReceived
  <2> QED BY <1>8, <2>1, FrameEnds DEF Receive
<1>9. CASE Request \/ Finish
  BY <1>9 DEF Request, Finish, script, link, handlers
<1>10. CASE UNCHANGED vars
  BY <1>10 DEF vars, script, link, handlers
<1> QED BY <1>1, <1>2, <1>3, <1>4, <1>5, <1>6, <1>7, <1>8, <1>9, <1>10, NextIs DEF Applied, HandlerMoves

\* An age is the time since a receipt, or Never.
LEMMA AgesTyped == TypeInv /\ [Next]_vars => AgeTypes'
<1> SUFFICES ASSUME TypeInv, [Next]_vars PROVE AgeTypes'
  OBVIOUS
<1> USE AgeValues DEF AgeTypes, TypeInv
<1>1. ASSUME NEW state, set_connection(state)
      PROVE  diag_age' \in Ages
  BY <1>1 DEF set_connection, RefreshDiagnostics, diag
<1>2. CASE RobotConnects
  <2>1. diag_age' \in Ages
    BY <1>1, <1>2 DEF RobotConnects, ApplyConnection
  <2> QED BY <1>2, <2>1 DEF RobotConnects, ClearMotion, stall
<1>3. CASE RobotDisconnects
  <2>1. diag_age' \in Ages
    BY <1>1, <1>3 DEF RobotDisconnects, ApplyConnection
  <2> QED BY <1>3, <2>1 DEF RobotDisconnects, ClearMotion, stall
<1>4. CASE Monitor
  <2>1. diag_age' \in Ages
    BY <1>1, <1>4 DEF Monitor, ApplyConnection
  <2> QED BY <1>4, <2>1 DEF Monitor, slices, twist, stall
<1>5. CASE Elapse
  <2>1. PICK d \in Plans[plan].lapses :
          /\ heartbeat' = Older(heartbeat, d)
          /\ base_age' = Older(base_age, d) /\ pose_age' = Older(pose_age, d)
          /\ motion_age' = Older(motion_age, d) /\ lidar_age' = Older(lidar_age, d)
          /\ battery_age' = Older(battery_age, d) /\ resources_age' = Older(resources_age, d)
          /\ diag_age' = Older(diag_age, d) /\ still_for' = Older(still_for, d)
    BY <1>5 DEF Elapse
  <2>2. d \in Nat
    BY PlansAssumption DEF PlanTypes
  <2> QED BY <2>1, <2>2, AgesGrow
<1>6. CASE Heartbeat
  BY <1>6 DEF Heartbeat, Receive, Settle, RefreshDiagnostics, diag, slices, twist, stall
<1>7. CASE record_pose
  BY <1>7 DEF record_pose, Receive, Settle, RefreshDiagnostics, diag, twist
<1>8. CASE record_lidar
  BY <1>8 DEF record_lidar, Receive, Settle, RefreshDiagnostics, diag, twist, stall
<1>9. CASE record_path
  BY <1>9 DEF record_path, Receive, Settle, RefreshDiagnostics, diag, twist, stall
<1>10. CASE record_battery
  BY <1>10 DEF record_battery, Receive, Settle, RefreshDiagnostics, diag, twist, stall
<1>11. CASE record_base_state
  BY <1>11 DEF record_base_state, Receive, Settle, RefreshDiagnostics, diag, twist, ClearMotion, stall
<1>12. CASE record_motion
  BY <1>12 DEF record_motion, Receive, Settle, RefreshDiagnostics, diag, twist, stall
<1>13. CASE record_diagnostics
  BY <1>13 DEF record_diagnostics, Receive, slices, twist, stall
<1>14. CASE record_resources
  BY <1>14 DEF record_resources, Receive, Settle, RefreshDiagnostics, diag, twist, stall
<1>15. CASE set_capabilities
  BY <1>15 DEF set_capabilities, Receive, Settle, RefreshDiagnostics, diag, slices, twist, stall
<1>16. CASE Request \/ Finish
  BY <1>16 DEF Request, Finish, link, slices, twist, diag, stall
<1>17. CASE UNCHANGED vars
  BY <1>17 DEF vars, link, slices, twist, diag, stall
<1>18. CASE ConnectBegins
  BY <1>18 DEF ConnectBegins, ClearMotion, diag, stall
<1>19. CASE Greet \/ DisconnectBegins
  BY <1>19 DEF Greet, DisconnectBegins, slices, twist, diag, stall
<1>20. CASE Derive
  BY <1>20 DEF Derive, RefreshDiagnostics, slices, twist, stall
<1> QED BY <1>2, <1>3, <1>4, <1>5, <1>6, <1>7, <1>8, <1>9, <1>10, <1>11, <1>12, <1>13, <1>14, <1>15,
           <1>16, <1>17, <1>18, <1>19, <1>20 DEF Next

\* The last reading is one the robot may send, the motion one it measured, and
\* a stall has lasted since a known time.
LEMMA SlicesTyped == TypeInv /\ [Next]_vars => SliceTypes'
<1> SUFFICES ASSUME TypeInv, [Next]_vars PROVE SliceTypes'
  OBVIOUS
<1> USE DEF SliceTypes, TypeInv
<1>0. ASSUME NEW state, state \in {"online", "stale", "offline"}, set_connection(state)
      PROVE  connection' \in {"online", "stale", "offline"}
  BY <1>0 DEF set_connection
<1>1. ASSUME NEW has_socket, NEW age
      PROVE  ConnectionFor(has_socket, age) \in {"online", "stale", "offline"}
  BY DEF ConnectionFor
<1>2. CASE RobotConnects
  <2>1. connection' \in {"online", "stale", "offline"}
    BY <1>0, <1>1, <1>2 DEF RobotConnects, ApplyConnection
  <2> QED BY <1>2, <2>1 DEF RobotConnects, script, stall
<1>3. CASE RobotDisconnects
  <2>1. connection' \in {"online", "stale", "offline"}
    BY <1>0, <1>1, <1>3 DEF RobotDisconnects, ApplyConnection
  <2> QED BY <1>3, <2>1 DEF RobotDisconnects, ClearMotion, script, stall
<1>4. CASE Monitor
  <2>1. connection' \in {"online", "stale", "offline"}
    BY <1>0, <1>1, <1>4 DEF Monitor, ApplyConnection
  <2> QED BY <1>4, <2>1 DEF Monitor, script, slices, twist, stall
<1>5. CASE Elapse
  <2>1. PICK d \in Plans[plan].lapses : still_for' = Older(still_for, d)
    BY <1>5 DEF Elapse
  <2>2. d \in Nat
    BY PlansAssumption DEF PlanTypes
  <2>3. still_for' = Never <=> still_for = Never
    BY <2>1, <2>2, AgesGrow DEF AgeTypes
  <2> QED BY <1>5, <2>3 DEF Elapse
<1>6. CASE Heartbeat
  BY <1>6 DEF Heartbeat, Receive, slices, twist, stall
<1>7. CASE record_pose
  <2>1. PICK speed \in {"stopped", "limit", "driving", "turning"}, localized \in BOOLEAN, waiting \in BOOLEAN,
             since \in Ages :
          /\ since # Never
          /\ still_for' = IF waiting THEN since ELSE Never
          /\ stalled' = (waiting /\ (stalled \/ since >= StallWarning))
    <3>1. PICK speed \in {"stopped", "limit", "driving", "turning"}, localized \in BOOLEAN :
            LET p == [speed |-> speed, localized |-> localized]
                explained == base_age # Never /\ (~base.motors \/ base.estop)
                waiting == goal /\ Stopped(p) /\ ~explained
                since == IF still_for = Never THEN 0 ELSE still_for
            IN /\ still_for' = IF waiting THEN since ELSE Never
               /\ stalled' = (waiting /\ (stalled \/ since >= StallWarning))
      BY <1>7 DEF record_pose
    <3> DEFINE p == [speed |-> speed, localized |-> localized]
               waiting == goal /\ Stopped(p) /\ ~(base_age # Never /\ (~base.motors \/ base.estop))
               since == IF still_for = Never THEN 0 ELSE still_for
    <3>2. since \in Ages /\ since # Never
      BY AgeValues DEF AgeTypes, Never
    <3>3. /\ still_for' = IF waiting THEN since ELSE Never
          /\ stalled' = (waiting /\ (stalled \/ since >= StallWarning))
      BY <3>1
    <3>4. waiting \in BOOLEAN
      OBVIOUS
    <3> HIDE DEF waiting, since
    <3> QED BY <3>2, <3>3, <3>4
  <2>2. stalled' \in BOOLEAN /\ (stalled' => still_for' # Never)
    BY <2>1
  <2> QED BY <1>7, <2>2 DEF record_pose, Receive, twist
<1>8. CASE record_lidar
  BY <1>8 DEF record_lidar, Receive, twist, stall
<1>9. CASE record_path
  BY <1>9 DEF record_path, Receive, twist, stall
<1>10. CASE record_battery
  BY <1>10 DEF record_battery, Receive, twist, stall
<1>11. CASE record_base_state
  BY <1>11 DEF record_base_state, Receive, ClearMotion, twist, stall
<1>12. CASE record_motion
  <2>1. /\ motion' \in Plans[plan].motions \cup {NoMotion}
        /\ motion_from' \in {"nobody", "session", "overlap", "before"}
    BY <1>12 DEF record_motion, twist
  <2> QED BY <1>12, <2>1 DEF record_motion, Receive, twist, stall
<1>13. CASE record_diagnostics
  BY <1>13 DEF record_diagnostics, Receive, slices, twist, stall
<1>14. CASE record_resources
  BY <1>14 DEF record_resources, Receive, twist, stall
<1>15. CASE set_capabilities
  BY <1>15 DEF set_capabilities, Receive, slices, twist, stall
<1>16. CASE Request
  <2>1. Plans[plan].commands \subseteq Gated
    BY PlansAssumption DEF PlanTypes
  <2> QED BY <1>16, <2>1 DEF Request, script, link, slices, twist, stall
<1>17. CASE Finish
  BY <1>17 DEF Finish, script, link, slices, twist, stall
<1>18. CASE UNCHANGED vars
  BY <1>18 DEF vars, script, link, slices, twist, stall
<1>19. CASE ConnectBegins
  BY <1>19 DEF ConnectBegins, ClearMotion, stall
<1>20. CASE Greet \/ DisconnectBegins
  BY <1>20 DEF Greet, DisconnectBegins, script, slices, twist, stall
<1>21. CASE Derive
  BY <1>21 DEF Derive, script, slices, twist, stall
<1> QED BY <1>2, <1>3, <1>4, <1>5, <1>6, <1>7, <1>8, <1>9, <1>10, <1>11, <1>12, <1>13, <1>14, <1>15,
           <1>16, <1>17, <1>18, <1>19, <1>20, <1>21 DEF Next

\* An alert raised on a subject leaves what the sources were said to be.
LEMMA OnSubject ==
  ASSUME DiagTypes, NEW x \in Subjects, NEW w \in Words, said' = [said EXCEPT ![x] = w]
  PROVE  SaidElsewhere
  BY PlansAssumption DEF DiagTypes, SaidElsewhere

LEMMA OnTwoSubjects ==
  ASSUME DiagTypes, NEW x \in Subjects, NEW y \in Subjects, NEW v \in Words, NEW w \in Words,
         said' = [said EXCEPT ![x] = v, ![y] = w]
  PROVE  SaidElsewhere
  BY PlansAssumption DEF DiagTypes, SaidElsewhere

\* Nothing changes what is kept of a diagnostic source but a refresh, the reset
\* of a connection that comes back, time, and the report of the source itself.
LEMMA DiagSteps ==
  ASSUME TypeInv, [Next]_vars
  PROVE  \/ RefreshDiagnostics /\ SaidElsewhere
         \/ Reset /\ SaidElsewhere
         \/ \E d \in Nat : Aged(d)
         \/ \E named \in SUBSET Source, level \in Levels : Named(named, level)
         \/ UNCHANGED <<sources, reported, diag_levels>> /\ SaidElsewhere
<1> DiagTypes
  BY DEF TypeInv
<1>0. ASSUME said' = said PROVE SaidElsewhere
  BY <1>0 DEF DiagTypes, SaidElsewhere
<1>1. ASSUME NEW state, set_connection(state)
      PROVE  (RefreshDiagnostics \/ Reset \/ UNCHANGED <<sources, reported, diag_levels>>) /\ SaidElsewhere
  <2>1. RefreshDiagnostics \/ Reset \/ UNCHANGED <<sources, reported, diag_levels>>
    BY <1>1 DEF set_connection, Reset, diag
  <2>2. \/ said' = said
        \/ said' = [said EXCEPT !["connection"] = "connected"]
        \/ said' = [said EXCEPT !["connection"] = "disconnected"]
    BY <1>1 DEF set_connection
  <2>3. "connection" \in Subjects /\ "connected" \in Words /\ "disconnected" \in Words
    BY DEF Subjects, Words
  <2> QED BY <1>0, <2>1, <2>2, <2>3, OnSubject
<1>2. CASE Applied
  <2>1. PICK state : set_connection(state)
    BY <1>2 DEF Applied, RobotConnects, RobotDisconnects, Monitor, ApplyConnection
  <2> QED BY <1>1, <2>1
<1>3. CASE Elapse
  <2>1. PICK d \in Plans[plan].lapses : Aged(d)
    BY <1>3 DEF Elapse, Aged
  <2>2. d \in Nat
    BY PlansAssumption DEF PlanTypes, TypeInv
  <2> QED BY <2>1, <2>2
<1>4. CASE Heartbeat \/ record_lidar \/ record_path \/ record_resources \/ set_capabilities
  BY <1>0, <1>4 DEF Heartbeat, record_lidar, record_path, record_resources, set_capabilities, Settle, diag
<1>5. CASE record_pose
  <2>1. said' = said \/ said' = [said EXCEPT !["stall"] = "stuck"]
    BY <1>5 DEF record_pose
  <2>2. "stall" \in Subjects /\ "stuck" \in Words
    BY DEF Subjects, Words
  <2>3. RefreshDiagnostics \/ UNCHANGED <<sources, reported, diag_levels>>
    BY <1>5 DEF record_pose, Settle, diag
  <2> QED BY <1>0, <2>1, <2>2, <2>3, OnSubject
<1>6. CASE record_battery
  <2>1. said["battery"] \in Words /\ said["charger"] \in Words /\ {"battery", "charger"} \subseteq Subjects
    BY DEF DiagTypes, Subjects
  <2>2. PICK level \in {"ok", "low", "critical", "unsaid", "charging"} :
          said' = [said EXCEPT
            !["battery"] = IF RunsLow(level) THEN "low" ELSE @,
            !["charger"] = IF ~Replugged(level) THEN @
                           ELSE IF level = "charging" THEN "started" ELSE "stopped"]
    BY <1>6 DEF record_battery
  <2>3. PICK v, w : v \in Words /\ w \in Words /\ said' = [said EXCEPT !["battery"] = v, !["charger"] = w]
    BY <2>1, <2>2 DEF Words
  <2>4. SaidElsewhere
    BY <2>1, <2>3, OnTwoSubjects
  <2>5. RefreshDiagnostics \/ UNCHANGED <<sources, reported, diag_levels>>
    BY <1>6 DEF record_battery, Settle, diag
  <2> QED BY <2>4, <2>5
<1>7. CASE record_base_state
  <2>1. said["estop"] \in Words /\ said["bumper"] \in Words /\ {"estop", "bumper"} \subseteq Subjects
    BY DEF DiagTypes, Subjects
  <2>2. PICK b \in readings :
          said' = [said EXCEPT
            !["estop"]  = IF b.estop THEN "pressed" ELSE IF base.estop THEN "released" ELSE @,
            !["bumper"] = IF Touched(b) THEN "pressed" ELSE @]
    BY <1>7 DEF record_base_state
  <2>3. PICK v, w : v \in Words /\ w \in Words /\ said' = [said EXCEPT !["estop"] = v, !["bumper"] = w]
    BY <2>1, <2>2 DEF Words
  <2>4. SaidElsewhere
    BY <2>1, <2>3, OnTwoSubjects
  <2>5. RefreshDiagnostics \/ UNCHANGED <<sources, reported, diag_levels>>
    BY <1>7 DEF record_base_state, Settle, diag
  <2> QED BY <2>4, <2>5
<1>8. CASE record_motion
  BY <1>0, <1>8 DEF record_motion, Settle, diag
<1>9. CASE record_diagnostics
  BY <1>9 DEF record_diagnostics, Named, Levels
<1>10. CASE Request \/ Finish
  BY <1>0, <1>10 DEF Request, Finish, diag
<1>11. CASE UNCHANGED vars
  BY <1>0, <1>11 DEF vars, diag
<1>12. CASE HandlerMoves
  BY <1>0, <1>12 DEF HandlerMoves, ConnectBegins, Greet, DisconnectBegins, diag
<1>13. CASE Derive
  BY <1>0, <1>13 DEF Derive
<1> QED BY <1>2, <1>3, <1>4, <1>5, <1>6, <1>7, <1>8, <1>9, <1>10, <1>11, <1>12, <1>13, NextIs DEF Frame

\* Sources, levels and alerts keep their types.
LEMMA DiagTyped == TypeInv /\ [Next]_vars => DiagTypes'
<1> SUFFICES ASSUME TypeInv, [Next]_vars PROVE DiagTypes'
  OBVIOUS
<1> USE AgeValues DEF DiagTypes, TypeInv
<1>0. NoSource \in Report
  BY DEF NoSource, Report, Levels
<1>1. CASE RefreshDiagnostics /\ SaidElsewhere
  <2>1. sources' \in [Source -> Report] /\ reported' = reported
    BY <1>0, <1>1 DEF RefreshDiagnostics, Refreshed
  <2>2. diag_levels' \in [Source -> Levels \cup {"none"}]
    BY <1>1 DEF RefreshDiagnostics, RefreshedLevels
  <2> QED BY <1>1, <2>1, <2>2 DEF SaidElsewhere
<1>2. CASE Reset /\ SaidElsewhere
  BY <1>0, <1>2 DEF Reset, SaidElsewhere
<1>3. CASE \E d \in Nat : Aged(d)
  <2>1. PICK d \in Nat : Aged(d)
    BY <1>3
  <2>2. ASSUME NEW r \in Report PROVE [r EXCEPT !.age = Older(@, d)] \in Report
    BY AgesGrow DEF Report
  <2>3. sources' \in [Source -> Report] /\ reported' \in [Source -> Report]
    BY <2>1, <2>2 DEF Aged
  <2> QED BY <2>1, <2>3 DEF Aged
<1>4. CASE \E named \in SUBSET Source, level \in Levels : Named(named, level)
  <2>1. PICK named \in SUBSET Source, level \in Levels : Named(named, level)
    BY <1>4
  <2> DEFINE r == [level |-> level, age |-> 0]
  <2>2. r \in Report
    BY DEF Report
  <2>3. Refreshed(sources) \in [Source -> Report]
    BY <1>0 DEF Refreshed
  <2>4. sources' \in [Source -> Report]
    <3> HIDE DEF r
    <3>1. sources' = [c \in Source |-> IF c \in named THEN r ELSE Refreshed(sources)[c]]
      BY <2>1 DEF Named, r
    <3> QED BY <2>2, <2>3, <3>1
  <2>5. reported' \in [Source -> Report]
    <3> HIDE DEF r
    <3>1. reported' = [c \in Source |-> IF c \in named THEN r ELSE reported[c]]
      BY <2>1 DEF Named, r
    <3> QED BY <2>2, <3>1
  <2>6. diag_levels' \in [Source -> Levels \cup {"none"}]
    <3>1. RefreshedLevels(sources, diag_levels) \in [Source -> Levels \cup {"none"}]
      BY DEF RefreshedLevels
    <3> QED BY <2>1, <3>1 DEF Named
  <2>7. said' \in [Subjects \cup Source -> Words]
    <3>1. DOMAIN said = Subjects \cup Source /\ level \in Words /\ "recovered" \in Words
      BY DEF Words
    <3> QED BY <2>1, <3>1 DEF Named
  <2> QED BY <2>4, <2>5, <2>6, <2>7
<1>5. CASE UNCHANGED <<sources, reported, diag_levels>> /\ SaidElsewhere
  BY <1>5 DEF SaidElsewhere
<1> QED BY <1>1, <1>2, <1>3, <1>4, <1>5, DiagSteps

\* Initially everything is of its type.
LEMMA InitTyped == Init => TypeInv
<1> SUFFICES ASSUME Init PROVE TypeInv
  OBVIOUS
<1> USE AgeValues DEF Init
<1>1. PlanTypes
  BY PlansAssumption DEF PlanTypes
<1>2. AgeTypes
  BY DEF AgeTypes
<1>3. SliceTypes
  BY DEF SliceTypes
<1>4. DiagTypes
  BY DEF DiagTypes, NoSource, Report, Levels, Words
<1>5. HandlerTypes
  BY PlansAssumption DEF HandlerTypes
<1> QED BY <1>1, <1>2, <1>3, <1>4, <1>5 DEF TypeInv

\* Every variable keeps its type; the ages stay within their cap (the state
\* store, whatever the frames and the lapses between them).
THEOREM TypesHold == Spec => []TypeOK
<1>1. TypeInv /\ [Next]_vars => TypeInv'
  BY PlanTyped, AgesTyped, HandlersTyped, SlicesTyped, DiagTyped DEF TypeInv
<1>2. TypeInv => TypeOK
  <2> SUFFICES ASSUME TypeInv PROVE TypeOK
    OBVIOUS
  <2>1. \A c \in Source : diag_levels[c] \in {"none", "OK", "WARN", "ERROR"}
    BY DEF TypeInv, DiagTypes, Levels
  <2> QED BY <2>1 DEF TypeInv, PlanTypes, AgeTypes, HandlerTypes, SliceTypes, Ages, TypeOK
<1> QED BY <1>1, <1>2, InitTyped, PTL DEF Spec

----------------------------------------------------------------------------
(* Motion.                                                                   *)

\* While a session opens, the motion on record was recorded since it began to.
MotionInv ==
  /\ MotionIsOfThisBase
  /\ motion_age # Never /\ opening > 0 => motion_from = "overlap"

\* A measured motion is of the drive-base session on record; it was received on
\* the connection of the base_state, unless the session before recorded it while
\* the present one opened (record_base_state, record_motion, robot_connected,
\* robot_disconnected).
THEOREM MotionIsCurrent == Spec => []MotionIsOfThisBase
<1>1. Init => MotionInv
  BY DEF Init, MotionInv, MotionIsOfThisBase
<1>2. TypeInv /\ MotionInv /\ [Next]_vars => MotionInv'
  <2> SUFFICES ASSUME TypeInv, MotionInv, [Next]_vars PROVE MotionInv'
    OBVIOUS
  <2> USE DEF MotionInv, MotionIsOfThisBase, socket
  <2>0. opening \in Nat
    BY PlansAssumption DEF TypeInv, HandlerTypes, PlanTypes
  <2>1. CASE ConnectBegins \/ RobotDisconnects
    BY <2>1 DEF ConnectBegins, RobotDisconnects, ClearMotion
  <2>2. CASE RobotConnects
    <3>1. motion_age # Never => motion_from = "overlap"
      BY <2>2 DEF RobotConnects
    <3>2. gateway' # "none" /\ motion_from' = IF motion_from = "session" THEN "before" ELSE motion_from
      BY <2>2 DEF RobotConnects
    <3> QED BY <2>2, <3>1, <3>2 DEF RobotConnects
  <2>3. CASE Greet \/ DisconnectBegins \/ Monitor \/ Derive
    BY <2>3 DEF Greet, DisconnectBegins, Monitor, Derive, slices, twist
  <2>4. CASE Elapse
    <3>1. PICK d \in Plans[plan].lapses : motion_age' = Older(motion_age, d)
      BY <2>4 DEF Elapse
    <3>2. d \in Nat
      BY PlansAssumption DEF PlanTypes, TypeInv
    <3>3. motion_age' = Never <=> motion_age = Never
      BY <3>1, <3>2, AgesGrow DEF AgeTypes, TypeInv
    <3> QED BY <2>4, <3>3 DEF Elapse, handlers
  <2>5. CASE Frame
    <3>1. PICK f : Receive(f)
      BY <2>5, FrameIsReceived
    <3>2. gateway' # "none" /\ opening' = opening
      BY <2>5, <3>1, FrameEnds DEF Receive
    <3>3. CASE Heartbeat \/ record_diagnostics \/ set_capabilities
      BY <3>1, <3>2, <3>3 DEF Heartbeat, record_diagnostics, set_capabilities, Receive, slices, twist
    <3>4. CASE record_pose \/ record_lidar \/ record_path \/ record_battery \/ record_resources
      BY <3>1, <3>2, <3>4 DEF record_pose, record_lidar, record_path, record_battery, record_resources,
         Receive, twist
    <3>5. CASE record_base_state
      BY <3>1, <3>2, <3>5 DEF record_base_state, Receive, ClearMotion, twist
    <3>6. CASE record_motion
      <4>1. base' = base /\ base_current' = base_current
        BY <3>6 DEF record_motion
      <4>2. CASE UNCHANGED twist
        BY <3>1, <3>2, <4>1, <4>2 DEF Receive, twist
      <4>3. CASE motion_from' = IF opening = 0 THEN "session" ELSE "overlap"
        <5>1. (motion'.gen = base.gen /\ base_current) \/ UNCHANGED twist
          BY <3>6 DEF record_motion
        <5> QED BY <2>0, <3>2, <4>1, <4>2, <4>3, <5>1
      <4> QED BY <3>6, <4>2, <4>3 DEF record_motion
    <3> QED BY <2>5, <3>3, <3>4, <3>5, <3>6 DEF Frame
  <2>6. CASE Request \/ Finish
    BY <2>6 DEF Request, Finish, link, handlers, slices, twist
  <2>7. CASE UNCHANGED vars
    BY <2>7 DEF vars, link, handlers, slices, twist
  <2> QED BY <2>1, <2>2, <2>3, <2>4, <2>5, <2>6, <2>7, NextIs DEF Applied, HandlerMoves
<1>3. TypeInv /\ [Next]_vars => TypeInv'
  BY PlanTyped, AgesTyped, HandlersTyped, SlicesTyped, DiagTyped DEF TypeInv
<1>4. MotionInv => MotionIsOfThisBase
  BY DEF MotionInv
<1> QED BY <1>1, <1>2, <1>3, <1>4, InitTyped, PTL DEF Spec

----------------------------------------------------------------------------
(* Gates, over the behaviours.                                               *)

\* The gates of server, browser and bridge contradict neither each other nor
\* themselves, whatever the robot reported and whenever it is asked (gates.py,
\* dockGates.ts, the precheck of commands.py).
THEOREM GatesAlwaysFit == Spec => []GatesFit
<1>1. GatesFit
  BY MirrorHolds, ServerFirst, SomeWay DEF GatesFit, GatesAgree
<1> QED BY <1>1, PTL

----------------------------------------------------------------------------
(* What was published, and what the sources reported.                        *)

\* What is kept of a source is what it last said, until that is too old to
\* count; and the level the next report is compared with is the one it said.
SourceFits(c) ==
  /\ \/ sources[c] = reported[c]
     \/ sources[c] = NoSource /\ reported[c].age > DiagnosticRetention
  /\ sources[c].age <= DiagnosticRetention => diag_levels[c] = sources[c].level
  /\ sources[c].age <= DiagnosticRetention /\ sources[c].level # "OK" => said[c] = sources[c].level

SourcesFit == \A c \in Source : SourceFits(c)

Bad(c) == reported[c].level # "OK" /\ reported[c].age <= DiagnosticRetention

\* The alerts about the rest, with what makes them inductive: whether or not a
\* reading was received, and nothing of the charger before the first battery.
AlertsFit ==
  /\ (said["estop"] = "pressed") = base.estop
  /\ Touched(base) => said["bumper"] = "pressed"
  /\ Low(battery) => said["battery"] = "low"
  /\ battery = "charging" => said["charger"] # "stopped"
  /\ battery # "charging" => said["charger"] # "started"
  /\ battery = "none" => said["charger"] = "nothing"
  /\ stalled => said["stall"] = "stuck"

ConnectionTold ==
  /\ connection # "offline" <=> said["connection"] = "connected"
  /\ connection = "offline" /\ socket => heartbeat < OnlineThreshold \/ heartbeat >= OfflineThreshold

\* What was published last hides neither a hazard nor a fault, when nobody owes
\* what his alert held up.
PublishedFits == ~Owing =>
  /\ base_age # Never /\ Hazard(base) =>
       status \in {"needs_attention", "offline"} /\ health.overall # "healthy"
  /\ \A c \in Source : Bad(c) => health.subsystems.systems # "healthy"

ToldInv == TypeInv /\ SourcesFit /\ AlertsFit /\ ConnectionTold /\ PublishedFits

\* Whatever happens to the sources, what is kept of each fits what it last said.
LEMMA SourcesKept == TypeInv /\ SourcesFit /\ [Next]_vars => SourcesFit'
<1> SUFFICES ASSUME TypeInv, SourcesFit, [Next]_vars, NEW c \in Source
             PROVE  SourceFits(c)'
  BY DEF SourcesFit
<1>0. SourceFits(c)
  BY DEF SourcesFit
<1>t. /\ sources[c] \in Report /\ reported[c] \in Report
      /\ DOMAIN said = Subjects \cup Source
  BY DEF TypeInv, DiagTypes
<1>r. DiagnosticRetention \in 0 .. AgeCap - 1 /\ AgeCap \in Nat /\ AgeCap < Never
  BY ThresholdAssumption
<1>n. NoSource.age = Never /\ NoSource.level = "OK" /\ Never \in Nat
  BY DEF NoSource, Never
<1>f. c \in Retained(sources) <=> sources[c].age <= DiagnosticRetention
  BY DEF Retained
<1>1. CASE RefreshDiagnostics /\ SaidElsewhere
  <2>1. /\ sources'[c] = IF c \in Retained(sources) THEN sources[c] ELSE NoSource
        /\ diag_levels'[c] = IF c \in Retained(sources) THEN diag_levels[c] ELSE "none"
        /\ reported' = reported /\ said'[c] = said[c]
    BY <1>1 DEF RefreshDiagnostics, Refreshed, RefreshedLevels, SaidElsewhere
  <2>2. CASE c \in Retained(sources)
    BY <1>0, <2>1, <2>2 DEF SourceFits
  <2>3. CASE c \notin Retained(sources)
    <3>1. reported[c].age > DiagnosticRetention
      BY <1>0, <1>t, <1>r, <1>f, <2>3 DEF SourceFits, Report, Ages, Never
    <3> QED BY <1>n, <1>r, <2>1, <2>3, <3>1 DEF SourceFits
  <2> QED BY <2>2, <2>3
<1>2. CASE Reset /\ SaidElsewhere
  <2>1. sources'[c] = NoSource /\ reported'[c] = NoSource
    BY <1>2 DEF Reset
  <2> QED BY <1>n, <1>r, <2>1 DEF SourceFits
<1>3. CASE \E d \in Nat : Aged(d)
  <2>1. PICK d \in Nat : Aged(d)
    BY <1>3
  <2>2. /\ sources'[c] = [sources[c] EXCEPT !.age = Older(@, d)]
        /\ reported'[c] = [reported[c] EXCEPT !.age = Older(@, d)]
        /\ diag_levels' = diag_levels /\ said' = said
    BY <2>1 DEF Aged
  <2>3. ASSUME NEW r \in Report
        PROVE  /\ [r EXCEPT !.age = Older(@, d)].age <= DiagnosticRetention => r.age <= DiagnosticRetention
               /\ r.age > DiagnosticRetention => [r EXCEPT !.age = Older(@, d)].age > DiagnosticRetention
               /\ [r EXCEPT !.age = Older(@, d)].level = r.level
               /\ r = NoSource => [r EXCEPT !.age = Older(@, d)] = NoSource
    <3>1. r.age \in Ages /\ r = [level |-> r.level, age |-> r.age]
      BY DEF Report
    <3>2. [r EXCEPT !.age = Older(@, d)] = [level |-> r.level, age |-> Older(r.age, d)]
      BY <3>1
    <3>3. /\ Older(r.age, d) <= DiagnosticRetention => r.age <= DiagnosticRetention
          /\ Older(r.age, d) \in Ages
      BY <1>r, <3>1, AgesGrow
    <3>4. r.age > DiagnosticRetention => Older(r.age, d) > DiagnosticRetention
      BY <1>r, <3>1, <3>3 DEF Ages, Never
    <3>5. Older(Never, d) = Never
      BY DEF Older
    <3> QED BY <3>2, <3>3, <3>4, <3>5 DEF NoSource
  <2>4. SourceFits(c)' <=>
          /\ \/ sources'[c] = reported'[c]
             \/ sources'[c] = NoSource /\ reported'[c].age > DiagnosticRetention
          /\ sources'[c].age <= DiagnosticRetention => diag_levels[c] = sources'[c].level
          /\ sources'[c].age <= DiagnosticRetention /\ sources'[c].level # "OK" => said[c] = sources'[c].level
    BY <2>2 DEF SourceFits
  <2> QED BY <1>0, <1>t, <2>2, <2>3, <2>4 DEF SourceFits
<1>4. CASE \E named \in SUBSET Source, level \in Levels : Named(named, level)
  <2>1. PICK named \in SUBSET Source, level \in Levels : Named(named, level)
    BY <1>4
  <2>2. CASE c \in named
    <3>1. /\ sources'[c] = [level |-> level, age |-> 0] /\ reported'[c] = [level |-> level, age |-> 0]
          /\ diag_levels'[c] = level
      BY <2>1, <2>2 DEF Named
    <3>2. level # "OK" => said'[c] = level
      <4> DEFINE known == RefreshedLevels(sources, diag_levels)[c]
      <4>1. said'[c] = IF ~Notable(known, level) THEN said[c]
                       ELSE IF level = "OK" THEN "recovered" ELSE level
        BY <1>t, <2>1, <2>2 DEF Named
      <4>2. known = IF c \in Retained(sources) THEN diag_levels[c] ELSE "none"
        BY DEF RefreshedLevels
      <4>3. level # "OK" => level # "none" /\ (Notable(known, level) <=> known # level)
        BY DEF Levels, Notable
      <4> HIDE DEF known
      <4> QED BY <1>0, <1>f, <4>1, <4>2, <4>3 DEF SourceFits
    <3> QED BY <3>1, <3>2 DEF SourceFits
  <2>3. CASE c \notin named
    <3>1. /\ sources'[c] = IF c \in Retained(sources) THEN sources[c] ELSE NoSource
          /\ diag_levels'[c] = IF c \in Retained(sources) THEN diag_levels[c] ELSE "none"
          /\ reported'[c] = reported[c] /\ said'[c] = said[c]
      BY <1>t, <2>1, <2>3 DEF Named, Refreshed, RefreshedLevels
    <3>2. CASE c \in Retained(sources)
      BY <1>0, <3>1, <3>2 DEF SourceFits
    <3>3. CASE c \notin Retained(sources)
      <4>1. reported[c].age > DiagnosticRetention
        BY <1>0, <1>t, <1>r, <1>f, <3>3 DEF SourceFits, Report, Ages, Never
      <4> QED BY <1>n, <1>r, <3>1, <3>3, <4>1 DEF SourceFits
    <3> QED BY <3>2, <3>3
  <2> QED BY <2>2, <2>3
<1>5. CASE UNCHANGED <<sources, reported, diag_levels>> /\ SaidElsewhere
  BY <1>0, <1>5 DEF SourceFits, SaidElsewhere
<1> QED BY <1>1, <1>2, <1>3, <1>4, <1>5, DiagSteps

\* Applying the connection sets it to one of its three states.
LEMMA AppliesAState ==
  Applied => \E state \in {"online", "stale", "offline"} : set_connection(state)
  BY DEF Applied, RobotConnects, RobotDisconnects, Monitor, ApplyConnection, ConnectionFor

\* An alert about a reading is raised by the reading and by nothing else.
LEMMA AlertsStay ==
  ASSUME AlertsFit, UNCHANGED <<base, battery, stalled>>,
         \A x \in Subjects \ {"connection"} : said'[x] = said[x]
  PROVE  AlertsFit'
<1>1. /\ said'["estop"] = said["estop"] /\ said'["bumper"] = said["bumper"]
      /\ said'["battery"] = said["battery"] /\ said'["charger"] = said["charger"]
      /\ said'["stall"] = said["stall"]
  BY DEF Subjects
<1> QED BY <1>1 DEF AlertsFit

LEMMA SetConnectionSays ==
  ASSUME DiagTypes, NEW state \in {"online", "stale", "offline"}, set_connection(state)
  PROVE  /\ \A x \in Subjects \ {"connection"} : said'[x] = said[x]
         /\ connection' = state
         /\ said'["connection"] =
              IF state = "online" /\ connection # "online" THEN "connected"
              ELSE IF state = "offline" /\ connection # "offline" THEN "disconnected"
              ELSE said["connection"]
<1>1. DOMAIN said = Subjects \cup Source /\ "connection" \in DOMAIN said
  BY DEF DiagTypes, Subjects
<1> QED BY <1>1 DEF set_connection, Alerting

\* The alerts about base, battery and stall follow the readings.
LEMMA AlertsKept == TypeInv /\ AlertsFit /\ [Next]_vars => AlertsFit'
<1> SUFFICES ASSUME TypeInv, AlertsFit, [Next]_vars PROVE AlertsFit'
  OBVIOUS
<1>t. /\ DiagTypes /\ DOMAIN said = Subjects \cup Source
      /\ {"estop", "bumper", "battery", "charger", "stall"} \subseteq DOMAIN said
  BY DEF TypeInv, DiagTypes, Subjects
<1>b. readings \subseteq Reading /\ base \in Reading \cup {Absent}
  BY DEF TypeInv, PlanTypes, SliceTypes
<1>1. CASE Applied
  <2>1. PICK state \in {"online", "stale", "offline"} : set_connection(state)
    BY <1>1, AppliesAState
  <2>2. UNCHANGED <<base, battery, stalled>>
    BY <1>1 DEF Applied, RobotConnects, RobotDisconnects, Monitor, slices, stall
  <2> QED BY <1>t, <2>1, <2>2, SetConnectionSays, AlertsStay
<1>2. CASE Elapse
  BY <1>2, AlertsStay DEF Elapse
<1>3. CASE Heartbeat \/ record_lidar \/ record_path \/ record_resources \/ set_capabilities \/ record_motion
  BY <1>3, AlertsStay DEF Heartbeat, record_lidar, record_path, record_resources, set_capabilities,
     record_motion, slices, stall
<1>4. CASE record_pose
  <2>1. /\ said' = IF stalled' /\ ~stalled THEN [said EXCEPT !["stall"] = "stuck"] ELSE said
        /\ UNCHANGED <<base, battery>>
    BY <1>4 DEF record_pose
  <2>2. /\ said'["estop"] = said["estop"] /\ said'["bumper"] = said["bumper"]
        /\ said'["battery"] = said["battery"] /\ said'["charger"] = said["charger"]
        /\ said'["stall"] = IF stalled' /\ ~stalled THEN "stuck" ELSE said["stall"]
    BY <1>t, <2>1
  <2> QED BY <2>1, <2>2 DEF AlertsFit
<1>5. CASE record_battery
  <2>1. PICK level \in {"ok", "low", "critical", "unsaid", "charging"} :
          /\ battery' = level /\ UNCHANGED <<base, stalled>>
          /\ said' = [said EXCEPT
               !["battery"] = IF RunsLow(level) THEN "low" ELSE @,
               !["charger"] = IF ~Replugged(level) THEN @
                              ELSE IF level = "charging" THEN "started" ELSE "stopped"]
    BY <1>5 DEF record_battery, stall
  <2>2. /\ said'["estop"] = said["estop"] /\ said'["bumper"] = said["bumper"] /\ said'["stall"] = said["stall"]
        /\ said'["battery"] = IF RunsLow(level) THEN "low" ELSE said["battery"]
        /\ said'["charger"] = IF ~Replugged(level) THEN said["charger"]
                              ELSE IF level = "charging" THEN "started" ELSE "stopped"
    BY <1>t, <2>1
  <2> QED BY <2>1, <2>2 DEF AlertsFit, Low, RunsLow, Replugged
<1>6. CASE record_base_state
  <2>1. PICK b \in readings :
          /\ base' = b /\ UNCHANGED <<battery, stalled>>
          /\ said' = [said EXCEPT
               !["estop"]  = IF b.estop THEN "pressed" ELSE IF base.estop THEN "released" ELSE @,
               !["bumper"] = IF Touched(b) THEN "pressed" ELSE @]
    BY <1>6 DEF record_base_state, stall
  <2>2. /\ said'["battery"] = said["battery"] /\ said'["charger"] = said["charger"]
        /\ said'["stall"] = said["stall"]
        /\ said'["estop"] = IF b.estop THEN "pressed" ELSE IF base.estop THEN "released" ELSE said["estop"]
        /\ said'["bumper"] = IF Touched(b) THEN "pressed" ELSE said["bumper"]
    BY <1>t, <2>1
  <2>3. b.estop \in BOOLEAN /\ base.estop \in BOOLEAN
    BY <1>b, Flags
  <2> QED BY <2>1, <2>2, <2>3 DEF AlertsFit
<1>7. CASE record_diagnostics
  <2>1. PICK named \in SUBSET Source, level \in Levels : Named(named, level)
    BY <1>7 DEF record_diagnostics, Named, Levels
  <2>2. \A x \in Subjects : said'[x] = said[x]
    BY <1>t, <2>1, PlansAssumption DEF Named
  <2>3. UNCHANGED <<base, battery, stalled>>
    BY <1>7 DEF record_diagnostics, slices, stall
  <2> QED BY <2>2, <2>3, AlertsStay
<1>8. CASE Request \/ Finish
  BY <1>8, AlertsStay DEF Request, Finish, slices, stall
<1>9. CASE UNCHANGED vars
  BY <1>9, AlertsStay DEF vars, slices, stall
<1>10. CASE HandlerMoves \/ Derive
  BY <1>10, AlertsStay DEF HandlerMoves, ConnectBegins, Greet, DisconnectBegins, Derive, slices, stall
<1> QED BY <1>1, <1>2, <1>3, <1>4, <1>5, <1>6, <1>7, <1>8, <1>9, <1>10, NextIs DEF Frame

\* A connection is announced when it is there, and its end when it is gone: an
\* offline robot has either sent nothing for long or not yet been looked at, so
\* it is never found merely stale (set_connection, _monitor_loop).
LEMMA ConnectionKept == TypeInv /\ ConnectionTold /\ [Next]_vars => ConnectionTold'
<1> SUFFICES ASSUME TypeInv, ConnectionTold, [Next]_vars PROVE ConnectionTold'
  OBVIOUS
<1>t. /\ DiagTypes /\ DOMAIN said = Subjects \cup Source /\ "connection" \in DOMAIN said
      /\ heartbeat \in Ages /\ socket \in BOOLEAN
  BY DEF TypeInv, DiagTypes, AgeTypes, Subjects, socket
<1>r. /\ OnlineThreshold \in Nat /\ OfflineThreshold \in Nat /\ 0 < OnlineThreshold
      /\ OnlineThreshold <= OfflineThreshold /\ OfflineThreshold <= AgeCap
      /\ AgeCap \in Nat /\ AgeCap < Never
  BY ThresholdAssumption
<1>1. ASSUME NEW age \in Ages, NEW up \in BOOLEAN, set_connection(ConnectionFor(up, age)),
             socket' = up \/ age = Never, heartbeat' = age,
             connection = "offline" /\ up => age < OnlineThreshold \/ age >= OfflineThreshold
      PROVE  ConnectionTold'
  <2> DEFINE state == ConnectionFor(up, age)
  <2>0. state \in {"online", "stale", "offline"}
    BY DEF ConnectionFor
  <2>1. /\ connection' = state
        /\ said'["connection"] =
              IF state = "online" /\ connection # "online" THEN "connected"
              ELSE IF state = "offline" /\ connection # "offline" THEN "disconnected"
              ELSE said["connection"]
    BY <1>1, <1>t, <2>0, SetConnectionSays
  <2>2. state = IF ~up \/ age = Never \/ age >= OfflineThreshold THEN "offline"
                ELSE IF age < OnlineThreshold THEN "online" ELSE "stale"
    BY DEF ConnectionFor
  <2>3. socket' /\ state = "offline" => age >= OfflineThreshold
    <3>1. age = Never => age >= OfflineThreshold
      BY <1>r DEF Never
    <3> HIDE DEF state
    <3> QED BY <1>1, <2>2, <3>1
  <2>4. state = "stale" => connection # "offline"
    BY <1>1, <1>r, <2>2 DEF Ages, Never
  <2> HIDE DEF state
  <2> QED BY <1>1, <2>0, <2>1, <2>3, <2>4 DEF ConnectionTold
<1>2. CASE RobotConnects
  <2>1. set_connection(ConnectionFor(TRUE, 0)) /\ socket' = TRUE /\ heartbeat' = 0
    BY <1>2 DEF RobotConnects, ApplyConnection, socket
  <2> QED BY <1>1, <1>r, <2>1, AgeValues
<1>3. CASE RobotDisconnects
  <2>1. set_connection(ConnectionFor(FALSE, Never)) /\ heartbeat' = Never
    BY <1>3 DEF RobotDisconnects, ApplyConnection
  <2> QED BY <1>1, <2>1, AgeValues
<1>4. CASE Monitor
  <2>1. set_connection(ConnectionFor(socket, heartbeat)) /\ socket' = socket /\ heartbeat' = heartbeat
    BY <1>4 DEF Monitor, ApplyConnection, socket
  <2> QED BY <1>1, <1>t, <2>1 DEF ConnectionTold
<1>5. CASE Elapse
  <2>1. PICK d \in Plans[plan].lapses :
          /\ connection = "offline" /\ heartbeat < OnlineThreshold => heartbeat + d < OnlineThreshold
          /\ heartbeat' = Older(heartbeat, d) /\ UNCHANGED <<socket, connection, said>>
    BY <1>5 DEF Elapse, handlers, socket
  <2>2. d \in Nat
    BY PlansAssumption DEF TypeInv, PlanTypes
  <2>3. connection = "offline" /\ heartbeat < OnlineThreshold => heartbeat' < OnlineThreshold
    BY <1>t, <1>r, <2>1, <2>2 DEF Older, Ages, Never
  <2>4. heartbeat >= OfflineThreshold => heartbeat' >= OfflineThreshold
    BY <1>t, <1>r, <2>1, <2>2 DEF Older, Ages, Never
  <2> QED BY <2>1, <2>3, <2>4 DEF ConnectionTold
<1>6. CASE Frame
  <2>1. PICK f : Receive(f)
    BY <1>6, FrameIsReceived
  <2>2. connection' = connection /\ heartbeat' = 0
    BY <2>1 DEF Receive
  <2>3. said'["connection"] = said["connection"]
    <3>1. CASE Heartbeat \/ record_lidar \/ record_path \/ record_resources \/ set_capabilities \/ record_motion
      BY <3>1 DEF Heartbeat, record_lidar, record_path, record_resources, set_capabilities, record_motion
    <3>2. CASE record_pose
      BY <1>t, <3>2 DEF record_pose
    <3>3. CASE record_battery
      BY <1>t, <3>3 DEF record_battery
    <3>4. CASE record_base_state
      BY <1>t, <3>4 DEF record_base_state
    <3>5. CASE record_diagnostics
      <4>1. PICK named \in SUBSET Source, level \in Levels : Named(named, level)
        BY <3>5 DEF record_diagnostics, Named, Levels
      <4>2. "connection" \notin named
        BY PlansAssumption DEF Subjects
      <4> QED BY <1>t, <4>1, <4>2 DEF Named
    <3> QED BY <1>6, <3>1, <3>2, <3>3, <3>4, <3>5 DEF Frame
  <2> QED BY <1>r, <2>2, <2>3 DEF ConnectionTold
<1>7. CASE Request \/ Finish
  BY <1>7 DEF Request, Finish, link, handlers, socket, ConnectionTold
<1>8. CASE UNCHANGED vars
  BY <1>8 DEF vars, link, handlers, socket, ConnectionTold
<1>9. CASE HandlerMoves
  BY <1>9 DEF HandlerMoves, ConnectBegins, Greet, DisconnectBegins, socket, ConnectionTold
<1>10. CASE Derive
  BY <1>10 DEF Derive, socket, ConnectionTold
<1> QED BY <1>2, <1>3, <1>4, <1>5, <1>6, <1>7, <1>8, <1>9, <1>10, NextIs DEF Applied

\* What a recompute publishes hides nothing of the state it was derived from.
LEMMA PublishingIsHonest ==
  ASSUME SourcesFit', DiagTypes', Published
  PROVE  PublishedFits'
<1> DEFINE s == Live'
<1>1. /\ s.has_base <=> base_age' # Never
      /\ s.base = base'
      /\ s.levels = {LevelShown(sources'[c]) : c \in Retained(sources)'}
  BY DEF Live
<1>2. status' = derive_status(s) /\ health' = derive_health(s)
  BY DEF Published
<1> HIDE DEF s
<1>3. base_age' # Never /\ Hazard(base') =>
        status' \in {"needs_attention", "offline"} /\ health'.overall # "healthy"
  BY <1>1, <1>2, HazardShows
<1>4. ASSUME NEW c \in Source, Bad(c)'
      PROVE  health'.subsystems.systems # "healthy"
  <2>1. sources'[c] = reported'[c] /\ sources'[c] \in Report
    <3>1. SourceFits(c)' /\ reported'[c] \in Report
      BY DEF SourcesFit, DiagTypes
    <3>2. reported'[c].age <= DiagnosticRetention /\ DiagnosticRetention \in Nat
      BY <1>4, ThresholdAssumption DEF Bad
    <3> QED BY <3>1, <3>2 DEF SourceFits, Report, Ages, Never
  <2>2. c \in Retained(sources)'
    BY <1>4, <2>1 DEF Retained, Bad
  <2>3. LevelShown(sources'[c]) \in {"WARN", "ERROR", "STALE"}
    BY <1>4, <2>1 DEF LevelShown, Bad, Report, Levels
  <2>4. LevelShown(sources'[c]) \in s.levels
    BY <1>1, <2>2
  <2> QED BY <1>2, <2>3, <2>4, FaultShows
<1> QED BY <1>3, <1>4 DEF PublishedFits

\* Between two recomputes nothing gets worse than what was published.
LEMMA PublishedKept ==
  TypeInv /\ SourcesFit' /\ DiagTypes' /\ PublishedFits /\ [Next]_vars => PublishedFits'
<1> SUFFICES ASSUME TypeInv, SourcesFit', DiagTypes', PublishedFits, [Next]_vars PROVE PublishedFits'
  OBVIOUS
<1>0. ASSUME recompute PROVE PublishedFits'
  BY <1>0, RecomputePublishes, PublishingIsHonest
<1>o. ASSUME Owing' PROVE PublishedFits'
  BY <1>o DEF PublishedFits
<1>1. CASE Applied
  <2> USE DEF ApplyConnection, Owing, Storing
  <2>1. CASE RobotConnects
    <3>1. ConnectionFor(TRUE, 0) = "online"
      BY ThresholdAssumption DEF ConnectionFor, Never
    <3>2. recompute \/ Owing'
      BY <2>1, <3>1 DEF RobotConnects
    <3> QED BY <1>0, <1>o, <3>2
  <2>2. CASE RobotDisconnects
    <3>1. ConnectionFor(FALSE, Never) = "offline"
      BY DEF ConnectionFor
    <3>2. recompute \/ Owing'
      BY <2>2, <3>1 DEF RobotDisconnects
    <3> QED BY <1>0, <1>o, <3>2
  <2>3. CASE Monitor
    <3>1. recompute \/ Owing'
      BY <2>3 DEF Monitor
    <3> QED BY <1>0, <1>o, <3>1
  <2> QED BY <1>1, <2>1, <2>2, <2>3 DEF Applied
<1>2. CASE Elapse
  <2>1. PICK d \in Plans[plan].lapses :
          /\ base_age' = Older(base_age, d)
          /\ reported' = [c \in Source |-> [reported[c] EXCEPT !.age = Older(@, d)]]
    BY <1>2 DEF Elapse
  <2>2. UNCHANGED <<base, status, health>> /\ (Owing' <=> Owing)
    BY <1>2 DEF Elapse, Owing, handlers
  <2>3. d \in Nat
    BY PlansAssumption DEF TypeInv, PlanTypes
  <2>4. base_age' = Never <=> base_age = Never
    BY <2>1, <2>3, AgesGrow DEF TypeInv, AgeTypes
  <2>5. ASSUME NEW c \in Source, Bad(c)' PROVE Bad(c)
    <3>1. reported[c] \in Report
      BY DEF TypeInv, DiagTypes
    <3>2. reported[c].age \in Ages /\ reported[c] = [level |-> reported[c].level, age |-> reported[c].age]
      BY <3>1 DEF Report
    <3>3. reported'[c] = [level |-> reported[c].level, age |-> Older(reported[c].age, d)]
      BY <2>1, <3>2
    <3>4. DiagnosticRetention \in 0 .. AgeCap - 1
      BY ThresholdAssumption
    <3>5. Older(reported[c].age, d) <= DiagnosticRetention => reported[c].age <= DiagnosticRetention
      BY <2>3, <3>2, <3>4, AgesGrow
    <3> QED BY <2>5, <3>3, <3>5 DEF Bad
  <2> QED BY <2>2, <2>4, <2>5 DEF PublishedFits
<1>3. CASE Heartbeat \/ record_lidar \/ record_path \/ record_resources \/ set_capabilities \/ record_pose
           \/ record_battery \/ record_base_state
  <2>1. \E raised : Settle(raised)
    BY <1>3 DEF Heartbeat, record_pose, record_lidar, record_path, record_battery, record_base_state,
       record_resources, set_capabilities
  <2> QED BY <1>0, <1>o, <2>1, SettleEnds
<1>4. CASE record_diagnostics
  <2>1. \E raised : Publish(raised)
    BY <1>4 DEF record_diagnostics
  <2> QED BY <1>0, <1>o, <2>1, PublishEnds
<1>5. CASE record_motion
  <2>1. CASE Settle(FALSE)
    BY <1>0, <1>o, <2>1, SettleEnds
  <2>2. CASE UNCHANGED <<gateway, diag, status, health>>
    <3>1. UNCHANGED <<base, base_age, reported, status, health>> /\ (Owing' <=> Owing)
      BY <1>5, <2>2 DEF record_motion, Receive, diag, Owing
    <3> QED BY <3>1 DEF PublishedFits, Bad
  <2> QED BY <1>5, <2>1, <2>2 DEF record_motion
<1>6. CASE Request \/ Finish
  BY <1>6 DEF Request, Finish, link, handlers, slices, diag, PublishedFits, Bad, Owing
<1>7. CASE UNCHANGED vars
  BY <1>7 DEF vars, link, handlers, slices, diag, PublishedFits, Bad, Owing
<1>8. CASE HandlerMoves
  <2>1. Owing' <=> Owing
    <3>1. CASE ConnectBegins \/ DisconnectBegins
      BY <3>1 DEF ConnectBegins, DisconnectBegins, Owing, Storing
    <3>2. CASE Greet
      BY <3>2 DEF Greet, Owing, Storing
    <3> QED BY <1>8, <3>1, <3>2 DEF HandlerMoves
  <2>2. UNCHANGED <<base, base_age, reported, status, health>>
    BY <1>8 DEF HandlerMoves, ConnectBegins, Greet, DisconnectBegins, slices, diag
  <2> QED BY <2>1, <2>2 DEF PublishedFits, Bad
<1>9. CASE Derive
  BY <1>0, <1>9 DEF Derive
<1> QED BY <1>1, <1>2, <1>3, <1>4, <1>5, <1>6, <1>7, <1>8, <1>9, NextIs DEF Frame

\* All of it holds throughout.
LEMMA ToldInitially == Init => ToldInv
<1> SUFFICES ASSUME Init PROVE ToldInv
  OBVIOUS
<1>1. SourcesFit
  BY ThresholdAssumption DEF Init, SourcesFit, SourceFits, NoSource, Never
<1>2. AlertsFit
  BY DEF Init, AlertsFit, Subjects, Absent, Touched, Low
<1>3. ConnectionTold
  BY DEF Init, ConnectionTold, Subjects, socket
<1>4. PublishedFits
  BY DEF Init, PublishedFits, Bad, NoSource
<1> QED BY <1>1, <1>2, <1>3, <1>4, InitTyped DEF ToldInv

LEMMA ToldThroughout == Spec => []ToldInv
<1>1. ToldInv /\ [Next]_vars => ToldInv'
  <2> SUFFICES ASSUME ToldInv, [Next]_vars PROVE ToldInv'
    OBVIOUS
  <2>1. TypeInv'
    BY PlanTyped, AgesTyped, HandlersTyped, SlicesTyped, DiagTyped DEF ToldInv, TypeInv
  <2>2. SourcesFit' /\ AlertsFit' /\ ConnectionTold'
    BY SourcesKept, AlertsKept, ConnectionKept DEF ToldInv
  <2>3. PublishedFits'
    BY <2>1, <2>2, PublishedKept DEF ToldInv, TypeInv
  <2> QED BY <2>1, <2>2, <2>3 DEF ToldInv
<1> QED BY <1>1, ToldInitially, PTL DEF Spec

\* A fault is neither hidden by what else is reported nor left unsaid: a source
\* that reported a problem keeps the systems from being shown as healthy, and
\* every alert is what the readings say (record_diagnostics,
\* _refresh_diagnostics, handle_robot_message).
THEOREM FaultsAreAlwaysTold == Spec => []FaultsAreTold
<1>1. ToldInv => FaultsAreTold
  <2> SUFFICES ASSUME ToldInv PROVE FaultsAreTold
    OBVIOUS
  <2>1. NoFaultIsHidden
    BY DEF ToldInv, PublishedFits, Bad, NoFaultIsHidden
  <2>2. ASSUME NEW c \in Source, reported[c].age <= DiagnosticRetention, reported[c].level # "OK"
        PROVE  said[c] = reported[c].level
    <3>1. SourceFits(c) /\ reported[c] \in Report
      BY DEF ToldInv, SourcesFit, TypeInv, DiagTypes
    <3>2. DiagnosticRetention \in Nat
      BY ThresholdAssumption
    <3>3. sources[c] = reported[c]
      BY <2>2, <3>1, <3>2 DEF SourceFits, Report, Ages, Never
    <3> QED BY <2>2, <3>1, <3>3 DEF SourceFits
  <2>3. AlertsTrackReadings
    BY <2>2 DEF ToldInv, AlertsFit, ConnectionTold, AlertsTrackReadings
  <2> QED BY <2>1, <2>3 DEF FaultsAreTold
<1> QED BY <1>1, ToldThroughout, PTL

\* A robot shown as ready can be sent away, and a hazard it reported before it
\* went quiet still shows (status.py, gates.py).
THEOREM StatusIsAlwaysHonest == Spec => []StatusIsHonest
<1>1. ToldInv => StatusIsHonest
  <2> SUFFICES ASSUME ToldInv PROVE StatusIsHonest
    OBVIOUS
  <2>b. base \in Reading \cup {Absent}
    BY DEF ToldInv, TypeInv, PlanTypes, SliceTypes
  <2>1. HazardStands
    <3> SUFFICES ASSUME base_age # Never, Hazard(base)
                 PROVE  /\ ~Owing => status \in {"needs_attention", "offline"} /\ health.overall # "healthy"
                        /\ derive_status(Live) \in {"needs_attention", "offline"}
                        /\ connection # "offline" => DriveBaseHealth(Live) = "fault"
      BY DEF HazardStands
    <3> DEFINE s == Live
    <3>1. s.has_base /\ Hazard(s.base) /\ s.connection = connection
      BY DEF Live
    <3> HIDE DEF s
    <3>2. /\ derive_status(s) \in {"needs_attention", "offline"}
          /\ s.connection # "offline" => DriveBaseHealth(s) = "fault"
      BY <3>1, HazardShows
    <3>3. ~Owing => status \in {"needs_attention", "offline"} /\ health.overall # "healthy"
      BY DEF ToldInv, PublishedFits
    <3> QED BY <3>1, <3>2, <3>3 DEF s
  <2>2. ReadyCanGo
    <3> SUFFICES ASSUME derive_status(Live) = "ready",
                        base_age <= MAX_RECEIPT_AGE, base.tage <= MAX_TELEMETRY_AGE, pose_age <= MAX_RECEIPT_AGE,
                        Facts.localized, lidar_ok(Facts),
                        base.observer # "no", base.charge \notin ON_DOCK_STATES \ DOCKED_STATES
                 PROVE  Permitted("navigate_to_pose", Facts)
      BY DEF ReadyCanGo
    <3> DEFINE s == Live
               f == Facts
    <3>1. s.base = base
      BY DEF Live
    <3>2. f.base = base /\ f.base_age = base_age /\ f.pose_age = pose_age
      BY DEF Facts
    <3>3. derive_status(s) = "ready" /\ f.localized /\ lidar_ok(f)
      OBVIOUS
    <3> HIDE DEF s, f
    <3>4. ~Hazard(base) /\ ~StatusOnDock(base) /\ epoch_ready(base) /\ base.motors
      BY <3>1, <3>3, ReadyMeans
    <3>5. hardware_ok(f) /\ ~base.estop
      BY <3>2, <3>3, <3>4 DEF hardware_ok, lidar_ok, telemetry_fresh, Hazard
    <3>6. ~on_dock(base)
      <4>1. base.observer \in {"yes", "unsaid"}
        BY <2>b, Flags DEF Optional
      <4> QED BY <3>4, <4>1 DEF on_dock, StatusOnDock, ON_DOCK_STATES, DOCKED_STATES
    <3>7. navigate_ok(f)
      BY <3>2, <3>3, <3>4, <3>5, <3>6 DEF navigate_ok
    <3> QED BY <3>3, <3>7 DEF Permitted, f
  <2> QED BY <2>1, <2>2 DEF StatusIsHonest
<1> QED BY <1>1, ToldThroughout, PTL

=============================================================================
