----------------------------- MODULE RobotState -----------------------------
(* What the server knows of one robot: the last reading of every telemetry
   slice and the age of its receipt (telemetry/store.py), the connection state
   derived from the heartbeat, the frames and the monitor tick that change them
   (telemetry/hub.py), the alerts this raises, and the commands the gates admit
   from it (broker.py, _validate_robot_state).  A handler is cut where it awaits:
   the revocation of manual control and the closing of the old socket while a
   session opens or ends, and the row of an alert, after which it derives what it
   publishes.  Telemetry has the await left out, the save of the last pose.

   Ages are whole half-seconds up to AgeCap, or Never; an alert is stored within
   one.  A plan bounds one behaviour: the frames the robot may send, how many of
   them, the sessions that overlap, and how time passes.                     *)
EXTENDS Status, FiniteSets, TLC

CONSTANTS
  Source,          \* the components that report diagnostics
  Plans,           \* the scenarios of an instance, a sequence of records
  AgeCap,          \* the age beyond which all ages look alike
  OnlineThreshold, OfflineThreshold, StallWarning,     \* settings.py
  DiagnosticRetention                                  \* store.py:35

ASSUME ThresholdAssumption ==
  /\ {OnlineThreshold, OfflineThreshold, StallWarning, AgeCap} \subseteq Nat
  /\ 0 < OnlineThreshold /\ OnlineThreshold <= OfflineThreshold
  /\ AgeCap < Never /\ StallWarning <= AgeCap /\ OfflineThreshold <= AgeCap
  /\ {DiagnosticRetention, MAX_RESOURCES_AGE} \subseteq 0 .. (AgeCap - 1)

Subjects == {"estop", "bumper", "battery", "charger", "stall", "connection"}
Gated == {"set_initial_pose", "set_lidar_power", "navigate_to_pose", "charge_release", "motor_enable",
          "motor_disable", "dock_reset", "undock", "software_reset", "teleop_start"}

\* BaseStateData, what the facts read of it: three-valued fields are optional.
Optional == {"yes", "no", "unsaid"}
Reading ==
  [link : BOOLEAN, tage : Nat, valid : BOOLEAN, charge : STRING, motors : BOOLEAN,
   estop : BOOLEAN, fault : BOOLEAN, stall : BOOLEAN, front : BOOLEAN, rear : BOOLEAN,
   bumpers : Optional, dock : STRING, observer : Optional, undocking : BOOLEAN,
   unknown : BOOLEAN, profile : Optional, epoch : BOOLEAN, recovery : BOOLEAN, seed : BOOLEAN,
   lidar : STRING, lidar_power : BOOLEAN, scan : Nat, odom : Nat, gen : Nat]

\* A component's name is not the subject of another alert.
ASSUME PlansAssumption ==
  /\ Source \cap Subjects = {}
  /\ \A i \in DOMAIN Plans :
       /\ {Plans[i].frames, Plans[i].waits, Plans[i].sessions, Plans[i].overlap} \cup Plans[i].lapses \subseteq Nat
       /\ \A r \in Plans[i].readings : r \subseteq Reading
       /\ Plans[i].commands \subseteq Gated

VARIABLES
  plan,
  readings,        \* the base_state readings the robot reports in it
  frames,          \* frames of the plan still to come
  waits,           \* lapses of time still to come
  sessions,        \* sessions still to open
  gateway,         \* what the gateway of the robot's session does, none without a websocket
  opening,         \* the gateways that await the end of the session before theirs
  former,          \* what the gateways of other sessions still await
  monitor,         \* whether the monitor stores an alert
  connection, heartbeat, capabilities,
  base, base_age, base_current,  \* base_current: received by this session
  pose, pose_age,
  motion, motion_age,
  motion_from,     \* history: who recorded it, see record_motion
  goal, lidar_age,
  battery, battery_age, resources, resources_age,
  sources, diag_levels, diag_age,
  still_for,       \* _stopped_since_mono, as an age
  stalled,
  said,            \* the last alert raised on each subject
  status, health,  \* what was last published
  active,          \* the robot's gated command in flight
  reported         \* what each source last said since the robot came online

handlers == <<gateway, opening, former, monitor>>
link == <<handlers, connection, heartbeat, capabilities>>
twist == <<motion, motion_age, motion_from>>
slices == <<base, base_age, base_current, pose, pose_age, twist, goal, lidar_age,
            battery, battery_age, resources, resources_age>>
diag == <<sources, diag_levels, diag_age, reported>>
stall == <<still_for, stalled>>
script == <<plan, readings, frames, waits, sessions>>
vars == <<script, link, slices, diag, stall, said, status, health, active>>

NoMotion == [gen |-> 0, epoch |-> 0, still |-> FALSE, delay |-> 0]
NoSource == [level |-> "OK", age |-> Never]
Older(age, d) == IF age = Never THEN Never ELSE IF age + d > AgeCap THEN AgeCap ELSE age + d

socket == gateway # "none"

\* A handler that raised an alert awaits its row, and has not derived yet.
Storing == {"alerting", "storing"}
Owing == gateway \in Storing \/ former \cap Storing # {} \/ monitor = "storing"

Stationary(p) == p.speed \in {"stopped", "limit"}
Stopped(p)    == p.speed = "stopped"

Init ==
  /\ plan \in DOMAIN Plans /\ readings \in Plans[plan].readings
  /\ frames = Plans[plan].frames /\ waits = Plans[plan].waits /\ sessions = Plans[plan].sessions
  /\ gateway = "none" /\ opening = 0 /\ former = {} /\ monitor = "idle"
  /\ connection = "offline" /\ heartbeat = Never /\ capabilities = {}
  /\ base = Absent /\ base_age = Never /\ base_current = FALSE
  /\ pose = [speed |-> "driving", localized |-> FALSE] /\ pose_age = Never
  /\ motion = NoMotion /\ motion_age = Never /\ motion_from = "nobody"
  /\ goal = FALSE /\ lidar_age = Never
  /\ battery = "none" /\ battery_age = Never /\ resources = FALSE /\ resources_age = Never
  /\ sources = [c \in Source |-> NoSource] /\ diag_levels = [c \in Source |-> "none"] /\ diag_age = Never
  /\ reported = [c \in Source |-> NoSource]
  /\ still_for = Never /\ stalled = FALSE
  /\ said = [x \in Subjects \cup Source |-> "nothing"]
  /\ status = "unsaid" /\ health = "unsaid"
  /\ active = "none"

----------------------------------------------------------------------------
(* recompute: refresh the diagnostics, derive, and keep what was derived.    *)

\* _refresh_diagnostics: what a source's report counts for at its present age.
Retained(src) == {c \in Source : src[c].age <= DiagnosticRetention}
LevelShown(r) == IF r.age > MAX_DIAGNOSTICS_AGE THEN "STALE" ELSE r.level

Live ==
  [connection |-> connection, has_base |-> base_age # Never, base |-> base, base_age |-> base_age,
   pose_age |-> pose_age, localized |-> pose.localized, moving |-> pose.speed = "driving",
   goal |-> goal, stalled |-> stalled, recording |-> Plans[plan].recording,
   levels |-> {LevelShown(sources[c]) : c \in Retained(sources)}, diagnostics_age |-> diag_age,
   battery |-> battery, battery_age |-> battery_age, lidar_age |-> lidar_age,
   hot_or_full |-> resources, resources_age |-> resources_age]

recompute == \E s \in {Live'} : status' = derive_status(s) /\ health' = derive_health(s)

\* The sources that aged out are forgotten, and their levels with them.
Refreshed(src) == [c \in Source |-> IF c \in Retained(src) THEN src[c] ELSE NoSource]
RefreshedLevels(src, levels) == [c \in Source |-> IF c \in Retained(src) THEN levels[c] ELSE "none"]

RefreshDiagnostics ==
  /\ sources' = Refreshed(sources) /\ diag_levels' = RefreshedLevels(sources, diag_levels)
  /\ UNCHANGED <<diag_age, reported>>

----------------------------------------------------------------------------
(* The connection (_apply_connection, set_connection).                       *)

ConnectionFor(has_socket, age) ==
  IF ~has_socket \/ age = Never \/ age >= OfflineThreshold THEN "offline"
  ELSE IF age < OnlineThreshold THEN "online" ELSE "stale"

Alerting(state) == state # connection /\ state # "stale"

\* What comes back is a robot of which no diagnostics are known.
set_connection(state) ==
  /\ connection' = state
  /\ IF state = "online" /\ Alerting(state)
     THEN /\ sources' = [c \in Source |-> NoSource] /\ reported' = [c \in Source |-> NoSource]
          /\ diag_levels' = [c \in Source |-> "none"]
          /\ diag_age' = Never
          /\ said' = [said EXCEPT !["connection"] = "connected"]
     ELSE IF Alerting(state)
     THEN said' = [said EXCEPT !["connection"] = "disconnected"] /\ UNCHANGED diag
     ELSE RefreshDiagnostics /\ UNCHANGED said

\* A transition is an alert: what it leaves is derived once the row is stored.
ApplyConnection(has_socket, age) ==
  LET state == ConnectionFor(has_socket, age) IN
  /\ set_connection(state)
  /\ IF Alerting(state) THEN UNCHANGED <<status, health>> ELSE recompute

ClearMotion == motion' = NoMotion /\ motion_age' = Never /\ motion_from' = "nobody"

\* Mutant: the motion of the session to be replaced is kept.
ConnectKeepsMotion ==
  /\ sessions > 0 /\ sessions' = sessions - 1
  /\ opening + (IF socket THEN 1 ELSE 0) <= Plans[plan].overlap
  /\ opening' = opening + 1
  /\ UNCHANGED twist
  /\ UNCHANGED <<plan, readings, frames, waits, gateway, former, monitor, connection, heartbeat, capabilities,
                 base, base_age, base_current, pose, pose_age, goal, lidar_age, battery, battery_age,
                 resources, resources_age, diag, stall, said, status, health, active>>

\* robot_connected, until it awaits the revocation of manual control and the
\* closing of the old socket; the session before is the robot's all the while.
ConnectBegins ==
  /\ sessions > 0 /\ sessions' = sessions - 1
  /\ opening + (IF socket THEN 1 ELSE 0) <= Plans[plan].overlap
  /\ opening' = opening + 1
  /\ ClearMotion
  /\ UNCHANGED <<plan, readings, frames, waits, gateway, former, monitor, connection, heartbeat, capabilities,
                 base, base_age, base_current, pose, pose_age, goal, lidar_age, battery, battery_age,
                 resources, resources_age, diag, stall, said, status, health, active>>

\* The new session replaces the one before, whose gateway may still await.
RobotConnects ==
  /\ opening > 0 /\ opening' = opening - 1
  /\ former' = former \cup ({gateway} \ {"none", "serving"})
  /\ heartbeat' = 0 /\ capabilities' = {}
  /\ base_current' = FALSE
  /\ motion_from' = IF motion_from = "session" THEN "before" ELSE motion_from
  /\ gateway' = IF Alerting("online") THEN "alerting" ELSE "greeting"
  /\ UNCHANGED <<script, monitor, base, base_age, pose, pose_age, motion, motion_age,
                 goal, lidar_age, battery, battery_age, resources, resources_age, stall, active>>
  /\ ApplyConnection(TRUE, 0)

\* The gateway then records the hello that opened the socket, also that of a
\* session which was replaced meanwhile.
Greet ==
  /\ \/ gateway = "greeting" /\ gateway' = "serving" /\ UNCHANGED former
     \/ "greeting" \in former /\ former' = former \ {"greeting"} /\ UNCHANGED gateway
  /\ capabilities' = Plans[plan].capabilities
  /\ UNCHANGED <<script, opening, monitor, connection, heartbeat, slices, diag, stall,
                 said, status, health, active>>

\* robot_disconnected finds its session the robot's, and awaits the revocation.
DisconnectBegins ==
  /\ gateway = "serving" /\ gateway' = "leaving"
  /\ UNCHANGED <<script, opening, former, monitor, connection, heartbeat, capabilities,
                 slices, diag, stall, said, status, health, active>>

\* It does not look again: its session may have been replaced, and it speaks of
\* the state the sessions share.
RobotDisconnects ==
  /\ LET alert == IF Alerting("offline") THEN {"storing"} ELSE {} IN
     \/ gateway = "leaving" /\ gateway' = "none" /\ former' = former \cup alert
     \/ "leaving" \in former /\ former' = (former \ {"leaving"}) \cup alert /\ UNCHANGED gateway
  /\ heartbeat' = Never
  /\ ClearMotion
  /\ UNCHANGED <<script, opening, monitor, capabilities, base, base_age, base_current,
                 pose, pose_age, goal, lidar_age, battery, battery_age, resources, resources_age, stall, active>>
  /\ ApplyConnection(FALSE, Never)

Monitor ==
  /\ monitor = "idle"
  /\ monitor' = IF Alerting(ConnectionFor(socket, heartbeat)) THEN "storing" ELSE "idle"
  /\ UNCHANGED <<script, gateway, opening, former, heartbeat, capabilities, slices, stall,
                 active>>
  /\ ApplyConnection(socket, heartbeat)

\* The alert is stored, and its handler derives (_emit_derived).
Derive ==
  /\ \/ gateway = "alerting" /\ gateway' = "greeting" /\ UNCHANGED <<former, monitor>>
     \/ gateway = "storing" /\ gateway' = "serving" /\ UNCHANGED <<former, monitor>>
     \/ "alerting" \in former /\ former' = (former \ {"alerting"}) \cup {"greeting"} /\ UNCHANGED <<gateway, monitor>>
     \/ "storing" \in former /\ former' = former \ {"storing"} /\ UNCHANGED <<gateway, monitor>>
     \/ monitor = "storing" /\ monitor' = "idle" /\ UNCHANGED <<gateway, former>>
  /\ UNCHANGED <<script, opening, connection, heartbeat, capabilities, slices, stall,
                 said, active>>
  /\ RefreshDiagnostics /\ recompute

\* The monitor ticks every second: a longer lapse begins with a connection that
\* it has brought up to date, and the frame that revives an offline robot is not
\* stale before it has ticked.
Elapse ==
  \E d \in Plans[plan].lapses :
    /\ waits > 0 /\ waits' = waits - 1
    /\ ~Owing
    /\ d > 1 => connection = ConnectionFor(socket, heartbeat)
    /\ connection = "offline" /\ heartbeat < OnlineThreshold => heartbeat + d < OnlineThreshold
    /\ heartbeat' = Older(heartbeat, d)
    /\ base_age' = Older(base_age, d) /\ pose_age' = Older(pose_age, d)
    /\ motion_age' = Older(motion_age, d) /\ lidar_age' = Older(lidar_age, d)
    /\ battery_age' = Older(battery_age, d) /\ resources_age' = Older(resources_age, d)
    /\ sources' = [c \in Source |-> [sources[c] EXCEPT !.age = Older(@, d)]]
    /\ reported' = [c \in Source |-> [reported[c] EXCEPT !.age = Older(@, d)]]
    /\ diag_age' = Older(diag_age, d) /\ still_for' = Older(still_for, d)
    /\ UNCHANGED <<plan, readings, frames, sessions, handlers, connection, capabilities, base, base_current, pose, motion,
                   motion_from, goal, battery, resources, diag_levels, stalled, said, status, health, active>>

----------------------------------------------------------------------------
(* Frames (handle_robot_message and the record_* it calls).  Every frame
   counts as a heartbeat and ends by deriving status and health again.        *)

Receive(f) ==
  /\ gateway = "serving" /\ frames > 0
  /\ f \in Plans[plan].sends \/ f[1] \in {"base_state", "motion"}
  /\ frames' = frames - 1
  /\ heartbeat' = 0
  /\ UNCHANGED <<plan, readings, waits, sessions, opening, former, monitor, connection, active>>

\* The end of a handler: what the frame changed is derived at once, or after the
\* alert it raised is stored.
Publish(raised) ==
  /\ gateway' = IF raised THEN "storing" ELSE "serving"
  /\ IF raised THEN UNCHANGED <<status, health>> ELSE recompute

Settle(raised) ==
  /\ IF raised THEN UNCHANGED diag ELSE RefreshDiagnostics
  /\ Publish(raised)

Heartbeat ==
  /\ Receive(<<"heartbeat">>)
  /\ UNCHANGED <<capabilities, slices, stall, said>>
  /\ Settle(FALSE)

\* Mutant: a pose that explains the stop forgets to clear _stalled.
StalledStays ==
  \E speed \in {"stopped", "limit", "driving", "turning"}, localized \in BOOLEAN :
    LET p == [speed |-> speed, localized |-> localized]
        explained == base_age # Never /\ (~base.motors \/ base.estop)
        waiting == goal /\ Stopped(p) /\ ~explained
        since == IF still_for = Never THEN 0 ELSE still_for
    IN /\ Receive(<<"pose", p>>)
       /\ pose' = p /\ pose_age' = 0
       /\ still_for' = IF waiting THEN since ELSE Never
       /\ stalled' = (stalled \/ (waiting /\ since >= StallWarning))
       /\ said' = IF stalled' /\ ~stalled THEN [said EXCEPT !["stall"] = "stuck"] ELSE said
       /\ UNCHANGED <<capabilities, base, base_age, base_current, twist, goal, lidar_age,
                      battery, battery_age, resources, resources_age>>
       /\ Settle(stalled' /\ ~stalled)

\* _update_stall: only a stop nobody can explain counts towards being stuck.
record_pose ==
  \E speed \in {"stopped", "limit", "driving", "turning"}, localized \in BOOLEAN :
    LET p == [speed |-> speed, localized |-> localized]
        explained == base_age # Never /\ (~base.motors \/ base.estop)
        waiting == goal /\ Stopped(p) /\ ~explained
        since == IF still_for = Never THEN 0 ELSE still_for
    IN /\ Receive(<<"pose", p>>)
       /\ pose' = p /\ pose_age' = 0
       /\ still_for' = IF waiting THEN since ELSE Never
       /\ stalled' = (waiting /\ (stalled \/ since >= StallWarning))
       /\ said' = IF stalled' /\ ~stalled THEN [said EXCEPT !["stall"] = "stuck"] ELSE said
       /\ UNCHANGED <<capabilities, base, base_age, base_current, twist, goal, lidar_age,
                      battery, battery_age, resources, resources_age>>
       /\ Settle(stalled' /\ ~stalled)

record_lidar ==
  /\ Receive(<<"lidar">>)
  /\ lidar_age' = 0
  /\ UNCHANGED <<capabilities, base, base_age, base_current, pose, pose_age, twist, goal,
                 battery, battery_age, resources, resources_age, stall, said>>
  /\ Settle(FALSE)

record_path ==
  \E g \in BOOLEAN :
    /\ Receive(<<"path", g>>)
    /\ goal' = g
    /\ UNCHANGED <<capabilities, base, base_age, base_current, pose, pose_age, twist,
                   lidar_age, battery, battery_age, resources, resources_age, stall, said>>
    /\ Settle(FALSE)

Low(level) == level \in {"low", "critical"}
RunsLow(level) == Low(level) /\ ~Low(battery)
Replugged(level) == battery # "none" /\ (level = "charging") # (battery = "charging")

record_battery ==
  \E level \in {"ok", "low", "critical", "unsaid", "charging"} :
    /\ Receive(<<"battery", level>>)
    /\ battery' = level /\ battery_age' = 0
    /\ said' = [said EXCEPT
         !["battery"] = IF RunsLow(level) THEN "low" ELSE @,
         !["charger"] = IF ~Replugged(level) THEN @ ELSE IF level = "charging" THEN "started" ELSE "stopped"]
    /\ UNCHANGED <<capabilities, base, base_age, base_current, pose, pose_age, twist,
                   goal, lidar_age, resources, resources_age, stall>>
    /\ Settle(RunsLow(level) \/ Replugged(level))

Touched(b) == b.front \/ b.rear

record_base_state ==
  \E b \in readings :
    /\ Receive(<<"base_state", b>>)
    /\ base' = b /\ base_age' = 0 /\ base_current' = TRUE
    /\ said' = [said EXCEPT
         !["estop"]  = IF b.estop THEN "pressed" ELSE IF base.estop THEN "released" ELSE @,
         !["bumper"] = IF Touched(b) THEN "pressed" ELSE @]
    /\ IF motion_age # Never /\ motion.gen # b.gen THEN ClearMotion ELSE UNCHANGED twist
    /\ UNCHANGED <<capabilities, pose, pose_age, goal, lidar_age, battery, battery_age, resources,
                   resources_age, stall>>
    /\ Settle(b.estop # base.estop \/ (Touched(b) /\ ~Touched(base)))

\* A twist counts only for the drive-base session this connection has reported.
\* It is the robot's session that records it, alone or while others open.
record_motion ==
  \E m \in Plans[plan].motions :
    LET accepted == /\ base_age # Never /\ base_current
                    /\ m.gen = base.gen
                    /\ motion_age # Never => m.epoch >= motion.epoch
                    /\ m.delay <= 3
    IN /\ Receive(<<"motion", m>>)
       /\ UNCHANGED <<capabilities, base, base_age, base_current, pose, pose_age, goal, lidar_age,
                      battery, battery_age, resources, resources_age, stall, said>>
       /\ IF accepted
          THEN /\ motion' = m /\ motion_age' = 0
               /\ motion_from' = IF opening = 0 THEN "session" ELSE "overlap"
               /\ Settle(FALSE)
          ELSE UNCHANGED <<gateway, twist, diag, status, health>>

\* A report of this level is an alert after one of that.
Notable(known, level) == IF level = "OK" THEN known \notin {"none", "OK"} ELSE known # level

\* Mutant: the last array replaces what the other components said.
OnlyThisArray ==
  \E named \in SUBSET Source, level \in {"OK", "WARN", "ERROR"} :
    LET known == RefreshedLevels(sources, diag_levels)
    IN /\ Receive(<<"diagnostics", level>>) /\ named # {}
       /\ sources' = [c \in Source |-> IF c \in named THEN [level |-> level, age |-> 0] ELSE NoSource]
       /\ diag_levels' = [c \in Source |-> IF c \in named THEN level ELSE known[c]]
       /\ diag_age' = 0
       /\ reported' = [c \in Source |-> IF c \in named THEN [level |-> level, age |-> 0] ELSE reported[c]]
       /\ said' = [x \in DOMAIN said |->
            IF x \notin named \/ ~Notable(known[x], level) THEN said[x]
            ELSE IF level = "OK" THEN "recovered" ELSE level]
       /\ UNCHANGED <<capabilities, slices, stall>>
       /\ Publish(\E c \in named : Notable(known[c], level))

\* Mutant: a recovery does not become the level the next report is compared with.
RecoveryNotKept ==
  \E named \in SUBSET Source, level \in {"OK", "WARN", "ERROR"} :
    LET known == RefreshedLevels(sources, diag_levels)
    IN /\ Receive(<<"diagnostics", level>>) /\ named # {}
       /\ sources' = [c \in Source |-> IF c \in named THEN [level |-> level, age |-> 0] ELSE Refreshed(sources)[c]]
       /\ diag_levels' = [c \in Source |-> IF c \in named /\ level # "OK" THEN level ELSE known[c]]
       /\ diag_age' = 0
       /\ reported' = [c \in Source |-> IF c \in named THEN [level |-> level, age |-> 0] ELSE reported[c]]
       /\ said' = [x \in DOMAIN said |->
            IF x \notin named \/ ~Notable(known[x], level) THEN said[x]
            ELSE IF level = "OK" THEN "recovered" ELSE level]
       /\ UNCHANGED <<capabilities, slices, stall>>
       /\ Publish(\E c \in named : Notable(known[c], level))

\* One array names one component or several; the others keep what they said.
record_diagnostics ==
  \E named \in SUBSET Source, level \in {"OK", "WARN", "ERROR"} :
    LET known == RefreshedLevels(sources, diag_levels)
    IN /\ Receive(<<"diagnostics", level>>) /\ named # {}
       /\ sources' = [c \in Source |-> IF c \in named THEN [level |-> level, age |-> 0] ELSE Refreshed(sources)[c]]
       /\ diag_levels' = [c \in Source |-> IF c \in named THEN level ELSE known[c]]
       /\ diag_age' = 0
       /\ reported' = [c \in Source |-> IF c \in named THEN [level |-> level, age |-> 0] ELSE reported[c]]
       /\ said' = [x \in DOMAIN said |->
            IF x \notin named \/ ~Notable(known[x], level) THEN said[x]
            ELSE IF level = "OK" THEN "recovered" ELSE level]
       /\ UNCHANGED <<capabilities, slices, stall>>
       /\ Publish(\E c \in named : Notable(known[c], level))

record_resources ==
  \E full \in BOOLEAN :
    /\ Receive(<<"resources", full>>)
    /\ resources' = full /\ resources_age' = 0
    /\ UNCHANGED <<capabilities, base, base_age, base_current, pose, pose_age, twist, goal,
                   lidar_age, battery, battery_age, stall, said>>
    /\ Settle(FALSE)

\* A later hello replaces the capabilities.
set_capabilities ==
  \E c \in Plans[plan].hellos :
    /\ Receive(<<"hello", c>>)
    /\ capabilities' = c
    /\ UNCHANGED <<slices, stall, said>>
    /\ Settle(FALSE)

----------------------------------------------------------------------------
(* Commands: the facts the broker hands to the gates, and what the browser
   makes of the frames that carried the same readings.                       *)

Facts ==
  [online |-> connection = "online", base |-> base, base_age |-> base_age, pose_age |-> pose_age,
   localized |-> pose_age # Never /\ pose.localized, stationary |-> pose_age # Never /\ Stationary(pose),
   navigating |-> active \in {"navigate_to_pose", "set_initial_pose"},
   undock_active |-> base.undocking \/ active = "undock",
   capabilities |-> capabilities, allow_unlocalized |-> FALSE]

\* Recovery asks the wheels, not the map, whether the robot stands.
RecoveryFacts ==
  LET known == motion_age # Never /\ base_age # Never /\ motion.gen = base.gen
      age == motion_age + motion.delay
  IN [Facts EXCEPT !.pose_age = IF known /\ age <= 3 THEN age ELSE Never,
                   !.stationary = known /\ age <= 3 /\ motion.still]

Admits(command) == Permitted(command, IF command = "dock_reset" THEN RecoveryFacts ELSE Facts)

BrowserFacts == [Facts EXCEPT !.navigating = active = "navigate_to_pose"]

Request ==
  \E command \in Plans[plan].commands :
    /\ socket /\ active = "none"
    /\ Admits(command)
    /\ active' = command
    /\ UNCHANGED <<script, link, slices, diag, stall, said, status, health>>

Finish ==
  /\ active # "none" /\ active' = "none"
  /\ UNCHANGED <<script, link, slices, diag, stall, said, status, health>>

Next ==
  \/ ConnectBegins \/ RobotConnects \/ Greet \/ DisconnectBegins \/ RobotDisconnects
  \/ Monitor \/ Derive \/ Elapse
  \/ Heartbeat \/ record_pose \/ record_lidar \/ record_path \/ record_battery \/ record_base_state
  \/ record_motion \/ record_diagnostics \/ record_resources \/ set_capabilities
  \/ Request \/ Finish

Spec == Init /\ [][Next]_vars

----------------------------------------------------------------------------
(* Properties.                                                               *)

\* Every variable keeps its type; the ages stay within their cap.
TypeOK ==
  /\ plan \in DOMAIN Plans /\ frames \in 0 .. Plans[plan].frames /\ waits \in 0 .. Plans[plan].waits
  /\ sessions \in 0 .. Plans[plan].sessions
  /\ gateway \in {"none", "alerting", "greeting", "serving", "storing", "leaving"}
  /\ opening \in 0 .. Plans[plan].overlap + 1
  /\ former \subseteq {"alerting", "greeting", "storing", "leaving"} /\ monitor \in {"idle", "storing"}
  /\ connection \in {"online", "stale", "offline"}
  /\ {heartbeat, base_age, pose_age, motion_age, lidar_age, battery_age, resources_age, diag_age,
      still_for} \subseteq 0 .. AgeCap \cup {Never}
  /\ base \in readings \cup {Absent} /\ base_current \in BOOLEAN
  /\ motion \in Plans[plan].motions \cup {NoMotion}
  /\ motion_from \in {"nobody", "session", "overlap", "before"}
  /\ \A c \in Source : diag_levels[c] \in {"none", "OK", "WARN", "ERROR"}
  /\ stalled \in BOOLEAN /\ (stalled => still_for # Never)
  /\ active \in Gated \cup {"none"}

\* The browser's gates mirror the server's (dockGates.ts, "keep the two in
\* sync"): a control that would be accepted is live, and a live control is
\* refused for nothing but what the mirror leaves out on purpose, the age of the
\* server's receipts, and the LiDAR and the commands in flight the widget asks
\* about elsewhere.
MirrorAgrees ==
  \A command \in MIRRORED :
    /\ Permitted(command, Facts) => Offered(command, BrowserFacts)
    /\ /\ Offered(command, BrowserFacts)
       /\ base_age <= MAX_RECEIPT_AGE /\ pose_age <= MAX_RECEIPT_AGE
       /\ command \in NEEDS_LIDAR => lidar_ok(Facts)
       /\ active \notin {"undock", "set_initial_pose"}
       => Permitted(command, Facts)

\* "The server refusing first is the normal case" (commands.py): what the server
\* forwards, the bridge does not refuse on the same readings.  An undock of a
\* robot that is docked and draws no current is the exception (README).
ServerRefusesFirst ==
  \A command \in NEEDS_LIDAR :
    Permitted(command, Facts) /\ (command = "undock" => charging(base))
    => Accepted(command, base, base_age, Facts.localized, FALSE, pose_age)

GatesAgree == MirrorAgrees /\ ServerRefusesFirst

\* The gates never wait for one another: a sound robot that stands still, with
\* fresh readings and nothing in flight, can be taken off its dock, have its
\* motors enabled or be sent away.  Charge release and motor enable once refused
\* each other (gates.py, charge_release_reason).
AWayForward ==
  /\ active = "none" /\ ~base.undocking
  /\ {"undock", "motor_enable"} \subseteq capabilities
  /\ hardware_ok(Facts) /\ lidar_ok(Facts) /\ stationary_ok(Facts)
  /\ Facts.localized /\ epoch_ready(base)
  /\ ~base.estop /\ rear_clear(base) /\ base.observer # "no" /\ base.profile # "no"
  => \/ Permitted("undock", Facts)
     \/ Permitted("navigate_to_pose", Facts)
     \/ Permitted("motor_enable", Facts) /\ ~base.motors /\ ~on_dock(base)

\* The gates of server, browser and bridge contradict neither each other nor
\* themselves (gates.py, dockGates.ts, commands.py precheck).
GatesFit == GatesAgree /\ AWayForward

\* A robot the dashboard calls ready for a new task can be given one: with
\* readings as fresh as the gates want them the destination is not refused.  The
\* two disagree about a robot whose dock observer is invalid and about the
\* charge strings only the gates know (README).
ReadyCanGo ==
  /\ derive_status(Live) = "ready"
  /\ base_age <= MAX_RECEIPT_AGE /\ base.tage <= MAX_TELEMETRY_AGE /\ pose_age <= MAX_RECEIPT_AGE
  /\ Facts.localized /\ lidar_ok(Facts)
  /\ base.observer # "no" /\ base.charge \notin ON_DOCK_STATES \ DOCKED_STATES
  => Permitted("navigate_to_pose", Facts)

\* A hazard the robot reported before it went quiet is still a hazard (status.py):
\* as long as no better reading came, neither what was published last nor what
\* would be published now says that all is well, unless the alert of some handler
\* is still being stored.
HazardStands ==
  base_age # Never /\ Hazard(base) =>
    /\ ~Owing => status \in {"needs_attention", "offline"} /\ health.overall # "healthy"
    /\ derive_status(Live) \in {"needs_attention", "offline"}
    /\ connection # "offline" => DriveBaseHealth(Live) = "fault"

StatusIsHonest == ReadyCanGo /\ HazardStands

\* A healthy publisher cannot clear a different component's fault (store.py): as
\* long as a component that reported a problem has not reported well, and is not
\* so old that it is forgotten, the systems are not shown as healthy once the
\* alerts are stored.
NoFaultIsHidden ==
  \A c \in Source :
    ~Owing /\ reported[c].level # "OK" /\ reported[c].age <= DiagnosticRetention
    => health.subsystems.systems # "healthy"

\* The alerts follow the readings through reconnects and gaps: whatever is wrong
\* has been announced, and nothing is announced as over while it lasts.
AlertsTrackReadings ==
  /\ base_age # Never => (said["estop"] = "pressed") = base.estop
  /\ base_age # Never /\ Touched(base) => said["bumper"] = "pressed"
  /\ Low(battery) => said["battery"] = "low"
  /\ battery = "charging" => said["charger"] # "stopped"
  /\ battery # "charging" => said["charger"] # "started"
  /\ stalled => said["stall"] = "stuck"
  /\ connection # "offline" => said["connection"] = "connected"
  /\ connection = "offline" => said["connection"] # "connected"
  /\ \A c \in Source : reported[c].age <= DiagnosticRetention /\ reported[c].level # "OK"
                        => said[c] = reported[c].level

\* A fault is neither hidden by what else is reported nor left unsaid
\* (record_diagnostics, _refresh_diagnostics, handle_robot_message).
FaultsAreTold == NoFaultIsHidden /\ AlertsTrackReadings

\* A measured motion is never mixed with another drive-base session: it belongs
\* to the base_state on record, is forgotten with the connection, and was recorded
\* since the last session began to open.  Beside a base_state of another
\* connection it stands only when the session before recorded it while the new
\* one opened (README).
MotionIsOfThisBase ==
  motion_age # Never =>
    /\ socket /\ motion.gen = base.gen
    /\ (motion_from = "session" /\ base_current) \/ motion_from = "overlap"
=============================================================================
