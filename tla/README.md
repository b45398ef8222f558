# Verification of the patrol robot dashboard

TLA+ models, TLC runs and TLAPS proofs for the dashboard's commands, manual
drive, tuning, telemetry and recordings. Everything here is translated from the
code under `src/`; `PROJECT.json` maps each definition to the lines it models.

## 1. The system

    browser (React)  --/ws/ui, HTTP-->  server (FastAPI, one asyncio loop)
                                     |  /ws/robot
                                  robot bridge (ROS 2 node)
                                     |  actions, services, topics
                                  Nav2, dock manager, map localizer, tuning core (external)

A browser sends `command.request`; the server's `CommandBroker` admits, audits
and forwards it; the bridge's `CommandExecutor` turns it into a ROS action goal
or service call and answers with `command.ack`, `command.progress` and
`command.result`, which the server broadcasts to every browser. Manual drive
opens a session with the same frames and then streams velocities past them.
Tuning requests come over HTTP and wait for the robot's `tuning.response`.
Telemetry flows the other way: the hub keeps the last reading of each slice,
derives status, health and alerts, and publishes to every browser through a
bounded queue; the recorder takes samples of it into the database.

### Inventory

| Component | State | Operations | What makes it correct | Hard part | Modelled in |
|---|---|---|---|---|---|
| Bridge `CommandExecutor` (`commands.py`) | active and pending goal, undock, map transaction, LiDAR barrier, two generation counters, displayed path | nine commands, the cancel frame, goal responses, results, cancel replies, watchdogs, path poll | one motion owner; each command answered once; a stop says what happened; motors off reaches every goal | callbacks in any order; a reply for something already replaced | `CommandExecutor` |
| Server `CommandBroker` (`broker.py`) | active commands with two timers each, seen ids, reset and LiDAR barriers, admission lock | request, ack, result, timeouts, client departure, shutdown | forwarded at most once; barriers hold; one verdict; nothing left open | awaits between check and use; timers against late replies; restart | `CommandBroker` |
| `OperatorLease`, `RateLimiter` (`lease.py`) | holder per robot; token buckets | can_command, acquire, release_client, allow | a command runs under its own user's lease | takeover and disconnect between check and send | `CommandBroker`, `ServerManual` |
| `TeleopController` (`teleop.py`), policy (`tuning_policy.py`) | owner per robot with phase, revision | prepare, velocity, revoke, terminal, changed, watchdog | no motion after a zero; one session at the robot; lost authority ends it; it can be had again | re-entrant revoke; timers that cancel the task they interrupt | `ServerManual`, `TeleopPolicy` |
| Gates (`gates.py`, `dockGates.ts`, `precheck`) | none | refusal per command | the three agree, and never wait for one another | combinations of stale flags | `Gates` |
| State store, status (`telemetry/store.py`, `status.py`) | latest slices with receipt times, diagnostic sources, alerts | record, refresh, recompute | staleness is seen; a hazard is neither hidden nor unsaid | ages, reconnects | `RobotState`, `Status` |
| Hub, sessions, gateways (`hub.py`, `websocket/`) | sessions, browser queues | connect, supersede, disconnect, monitor, publish | what is shown follows the robot; protected frames are not dropped | overlapping handlers, slow browsers | `Telemetry` |
| Frontend telemetry store, socket | what the last frames said | reduce frames, reconnect | shows what the server has | reconnect, overflow | `Telemetry` |
| Tuning broker, bridge adapter (`tuning/`, bridge `tuning.py`) | pending requests bound to a session, remembered ids; queue, request in flight | request, reply, timeout, disconnect; queue, dispatch, relay | a reply settles its own request only; at most once; unknown is said when it is unknown | session replacement, two threads | `Tuning`, `TuningRequest` |
| Recorder, writer, database | active recording, bounded queue, rows | start, stop, delete, submit, flush, recover | a stopped recording is complete | overlapping requests, crash between steps, full queue | `Recording` |
| Bridge teleop, node dispatch, `WsClient` | session, slots, send queue, command deque, generations | frames, drain, reconnect | input ends with its connection | threads, bounded queues | `ManualDrive`, `Tuning` |
| Bridge `SystemResetClient` | reset thread, one-slot queue | request, submit, poll | reset blocks commands | thread against callbacks | not yet |
| Frontend command, teleop, tuning, replay, layout stores | what the tab last did | reduce frames | shows what the server said | reconnect, several tabs | inputs of the server's models |

Authentication, configuration, wire schemas, rendering, export, the battery
estimator, maps, the mock robot, contracts, scripts and infrastructure carry no
protocol state of their own; `PROJECT.json` gives each component's status and
what is left out of it.

## 2. Modules

| Module | Role |
|---|---|
| `CommandExecutor` | the bridge's executor, with the action servers as environment |
| `CommandBroker` | the server's broker and lease for one robot, with database, robot and network as environment |
| `ManualDrive` | manual drive on the robot: session, ingress slots, connection generations |
| `TeleopPolicy` | the speed policy as the server reads it |
| `ServerManual` | manual drive on the server, with browsers and robot as environment |
| `TuningRequest` | one tuning request as endpoint, server and bridge examine it |
| `Tuning` | server broker, link, bridge adapter and core together |
| `TuningPromise` | the abstract specification `Tuning` implements |
| `Gates`, `Status` | the rules of the gates, of the one-line status and of health, as operators |
| `RobotState` | the slices, alerts and admissions these are computed from, over time |
| `Recording` | recorder, writer, rows and the HTTP requests around them |
| `Telemetry` | sessions, monitor, browser queue and browser; extends `Recording`, whose flag the status shows |
| `Dashboard` | the composition of the last two |
| `CommandExecutorProofs`, `CommandBrokerProofs`, `ManualDriveProofs`, `ServerManualProofs`, `TuningProofs`, `RecordingProofs`, `RobotStateProofs` | theorems about the module of that name (`RecordingProofs`: about `Dashboard`, for `Recording` and `Telemetry`) |
| `SequenceLemmas` | what queueing does to the elements of a queue, for those proofs |
| `MC...` | constants and scenarios for TLC |

An operator whose comment starts with "Mutant" is a plausible wrong version of
the definition that follows it. It is used only to confirm that a property
notices it (`PROJECT.json`, "mutants").

### CommandExecutor

Each handler and callback is one atomic action. The node spins in a
`MultiThreadedExecutor` with two threads (`bridge_node.py:707`) and creates no
callback group, so everything is in rclpy's default one, which is mutually
exclusive. That this also serialises the callbacks of futures (goal responses,
results, cancel and service replies) is an assumption about rclpy, which is not in the
repository; the executor takes no lock of its own. `ManualDrive` and `Tuning` share
the assumption. Slots of the Python object are variables of
the same name: `active` (`_active`), `nav_pending`, `undock_active`,
`map_active`, `lidar` (three fields), `motor_disable_generation`,
`navigation_generation`, `navigation_context`. `captured` holds what a goal
response callback closes over; `wait` says which future the executor waits on
for a command.

The environment is `goal` (what the action server thinks of a goal) and
`cancels` (cancel requests, with the callback that will hear the answer). Any
future may raise. A goal that is already canceling answers a further cancel
with ERROR_GOAL_TERMINATED, which `cancel_verdict` reads as "finished". The
action servers accept or decline, end goals when they like, and answer cancels
in any order.

`Refuse` is the one nondeterministic refusal that stands for authorization,
map identity, `precheck`, missing services and every busy guard: it may happen
to any command but a stop and changes nothing else. Guards that protect state
(`UndockFree`, `Admitted`, `ServiceAdmitted`) are modelled exactly on the
accepting side. Left out: progress frames and the seeding of the dock pose.

`doubled`, `asked`, `earlier` and `target` are history variables that properties
read and no guard does.

### CommandBroker

The server is one asyncio loop. A browser connection handles one frame at a
time, so there is one request task per client. `pc` is the await it is parked
at:

    idle -> waiting -> lookup -> audit -> [retire] -> send -> idle
                                                       `-> closing

(`waiting` the admission lock, `lookup` the duplicate query, `audit` the insert,
`retire` the entries a reset supersedes, `send` the socket, `closing` the cancel
frame of a failed map localization.) Everything between two awaits is one
action. Timers, robot replies, connects, disconnects, database errors and a
server restart interleave at those points. `entry` holds the `ActiveCommand`
fields; `audit` is the table row, the only thing that survives `Restart`.

The rate limit, goal geometry and telemetry gates are one nondeterministic
refusal (`RefuseAdmission`, `RefuseValidation`; the gates themselves are in
`RobotState`); a frame whose fields do not decode is refused by the gateway with
a row of its own (`RejectInvalid`); the checks that read the broker's own state (`Barred`,
`LeaseFree`, `Permitted`) are exact. A timer that
closes its own command is cancelled by `_finish` before the audit update is
awaited, so the update is a choice (`CloseOutByTimer`). Manual drive is in
`ServerManual`; with no owner `TeleopController.revoke` changes nothing here. A
refusing ack is not counted as a verdict.

### ManualDrive

Two threads. The WS thread connects, disconnects in the code's three steps
(`connected.clear()`, generation + 1, `on_disconnect`) and fills the command
deque and the two slots (latest sample, release). The ROS executor runs one
callback at a time, on the assumption named under `CommandExecutor`;
`_drain_commands` is cut into `DrainBegin` (take the slots
under the lock), `DrainCommand` (pop, check the generation), `Handle`,
`DrainRelease` and `DrainSample`, since the WS thread runs between them. `cur`,
`rel` and `smp` are that callback's locals.

`session` is the `TeleopSession` record, `seen` its closed ids, `drain` how long
each downstream topic has been still. `claims` is what `safety()` refuses for:
`joystick`, `maintenance` and `action` end the session in their own callback,
`hardware` stands for every reading (base state, odometry, path identity, the
navigation-idle answer, another command's ownership) that is only seen at the
next look. A speed is a number and a policy the speed it allows. `vel`, `evid`
and `replies` are what leaves the bridge. `replies` keeps for each id the
accepting acks, the refusing ones and the results. A start that is refused
before it opens anything is answered too, under its own id: by
`TeleopSession.start` (`SendRefusal`; the id may be the open session's or a
closed one's) and by the drain for one of an earlier connection. The ack and the
result of `teleop_stop` itself are left out; it sends them whatever it ended.
`taken` counts the starts the drain took; one that the full deque dropped is not
among them and is never answered. Publishing may raise where the code
handles it. Time is kept as ages (`Advance`); a reconnect waits longer than the
watchdog, as the retry delay (0.5 s at least, against 0.3 s) does. A start that
is not authorised is refused like any other and the broker never sends one;
shutdown is left out.

### ServerManual and TeleopPolicy

Each asyncio task that can be inside `TeleopController` is a record: where it
waits (`at`), whose socket it writes to, the command it handles, and a stack of
what it returns to, because `revoke` is called from browser handlers, the robot
gateway, the monitor and timers, awaits twice, and issues its `teleop_stop`
through `handle_browser_request`, which may call `revoke` again. `owner` has the
fields of the code's owner object; `rev_ok` says for which waiting start the
revision is still the one it captured. A timer's task that is cancelled in the
middle of `revoke` disappears there, as it does in the code. Frames are on the
wire when `send_text` begins to wait. `TeleopPolicy` is `parse_policy` and
`resolve_policy` over caps and ages in small integers; a policy that cannot be
read is refused. The bridge's end of the stream is `ManualDrive`, which accepts
every stream this module can send: the interface between the two is the start,
the sequence of frames and the terminal reply.

### TuningRequest, Tuning and TuningPromise

A document is reduced to what the checks look at (`TuningRequest`). `admitted`
is what the endpoint and `validate_request` require, `wrapper_admitted` what the
bridge requires, `verified` what the core requires of a signature. `Tuning`
runs each request from its admission to its answer across one connection at a
time: `conn` and `links` are the server's and the robot's idea of the
connection, `down` and `upq` the frames in flight, `queue`, `hand`, `inflight`
and `relay` the bridge's tick between its statements, since the websocket thread
runs between them. The core is external: it verifies and performs a change or
not, and answers or not. The cached desired revision is one nondeterministic
refusal. The bridge's own policy probe uses the same slot and ends by itself; it
is left out.

`TuningPromise` says what a user may rely on: a change is performed at most
once, "ok" is said only of a change that was performed, and a change reported
as not made is not performed later. `Tuning` implements it under
`answer <- Told`, `performed <- performed` (`KeepsPromise`).

### Gates, Status and RobotState

`Gates` holds every rule of `gates.py`, the mirror of `dockGates.ts` and the
bridge's `precheck`, over one record for a reading; `Status` holds
`derive_status` and `derive_health`. `RobotState` adds time: the age of each
slice, frames, the monitor, reconnects, alerts, diagnostics sources and the
command in flight. The hub's handlers are cut where they await:

    robot_connected     ConnectBegins (clear motion) | revoke, close the old socket |
                        RobotConnects (swap) | alert row | Derive | Greet
    robot_disconnected  DisconnectBegins (is it mine?) | revoke |
                        RobotDisconnects | alert row | Derive
    frame, monitor      apply, raise | alert row | Derive

`gateway` is where the handler of the robot's session is, `opening` how many
others wait before the swap, `former` where the handlers of replaced or ended
sessions are; two of them at the same place count as one. The gateway of the
session to be replaced serves its frames until the swap, and one that left
before it may reach `RobotDisconnects` after it, as in the code. `Owing` says
that an alert's row is being written: status and health are then still those of
before. That takes less than half a second (`Elapse`). The save of the last pose
and the snapshot's awaits are in `Telemetry`. `motion_from` is history: whether
the motion on record came while no session was opening, while one was, or was
there at a swap. Ages are half-seconds, which separate all thresholds. `said`
is the last alert about each subject and `reported` the last reading of each
source, whatever the server made of it; only properties read them. A lapse of
more than half a second begins after a tick of the monitor, and the frame that
revives an offline robot is followed by a tick before it is stale (a tick a
second, and an online threshold above it): an offline robot is never found
merely stale.

### Recording, Telemetry and Dashboard

`Recording` cuts `start`, `stop` and a write at their awaits; several requests
may be in progress. `Delete` is one step, although the code awaits twice in it: no
property depends on what it meets there. `stored` against `count` is the insert
before its update, the unit a crash can separate; `accepted` and `lost` are history. `Telemetry`
has one task per gateway and one for the monitor, parked at `_persist_last_pose`
or at `robot_connected`'s awaits. The browser is the part of telemetryStore that
says what the robot does, its queue the code's with the same eviction. Frames are
offered one by one, as `publish` is called; `Shown` says what the browser will make
of the frames queued for it, and `Send` what it makes of each (`handleFrame`). A
`Dashboard` plan keeps an instance to sessions, to a browser or to the recorder.

## 3. Runs

| Run | Instance | Shows |
|---|---|---|
| `exec_motion` | 3 commands of 4 kinds, 1.3M states | `OneMotionOwner`, `AnsweredOnce`, `NoStopForgotten`, `StopsReachTheirGoals`, `UndockOwnerKept` |
| `exec_all` | 2 commands of all 9 kinds, 2 contexts, fairness, 0.4M states | `TypeOK`, `MapCancelDelivered`, `LidarUnknownHolds`, `PathIsCurrent`, `StopsAreAnswered` |
| `broker_replay` | 3 sockets of 2 operators, a destination and LiDAR power, 1 restart, 1.7M states | `OnceAtBothEnds`, `HolderSends` |
| `broker_live` | 1 operator; map localization, LiDAR power and a reset; fairness; 0.2M states | `TypeOK`, `Barriers`, `NeverLeftOpen` |
| `manual_drive` | 2 sessions on one connection, 2 policies, a maintenance hold, failing publishers, 3.6M states | `TypeOK`, `MotionIsOwned`, `SessionIsKnown`, `ReleaseHonoured` |
| `manual_link` | 1 session id, 3 connection generations, 2 origins, fairness, 0.5M states | `NothingHangs` |
| `server_manual` | 2 operators, 2 starts, a stop, 2 connections, good and bad policies, fairness, 0.3M states | `TypeOK`, `OneSessionAtTheRobot`, `ClosedIsSound`, `NoDriveAfterZero`, `LostAuthorityEnds` |
| `tuning` | 3 changes (two of one request_id) and a read, a reconnect, time, shutdown, fairness, 0.2M states | `TypeOK`, `SignaturesFit`, `OkIsCurrent`, `EveryRequestSettles`, `KeepsPromise` |
| `readiness` | every reading two changes away from two good ones, and seven scenarios, 1.0M states | `TypeOK`, `GatesFit`, `StatusIsHonest`, `FaultsAreTold`, `MotionIsOfThisBase` |
| `sessions` | 3 overlapping robot connections, fairness, 0.06M states | `DisconnectToldOnce`, `ConnectionFollows` |
| `dashboard` | a slow browser; 2 callers, 2 recordings, a restart, 1.6M states | `TypeOK`, `BrowserCatchesUp`, `StopCountsEverything` |
| `exec_stop_pending` | a destination and a stop | violates `StopIsTrue` |

Several properties are conjunctions of named parts that are about one hazard;
the parts are next to them in the modules: `StopsReachTheirGoals`
(`StopWaitsForItsGoal`, `DisableReachesEveryGoal`), `Barriers` (`ResetBarrier`,
`LidarBarrier`, `LidarOutcomeHeld`), `OnceAtBothEnds` (`ForwardedOnce`, one
verdict), `SessionIsKnown` (`VerdictMatchesSession`, `MaintenanceExclusive`,
`DrainIsOwn`), `NothingHangs` (`MotionEnds`, `StartIsAnswered`), `ClosedIsSound`,
`SignaturesFit`, `GatesFit`, `StatusIsHonest`, `FaultsAreTold`.

**Bounds.** Three executor commands are enough for every pairwise race plus a
third party (two goals and a stop; a goal, a motor disable and a stop): the
slots hold at most one goal each and a stop refers to one goal. Commands are
interchangeable, so their permutations are a symmetry. Two contexts make a
context change visible. The kinds of a broker run are chosen so that barriers,
leases and retirement meet. `SeenMax` is 1, so `_seen` forgets its older id as
soon as there are two (the code keeps 512). `MaxRestarts` bounds restarts.
History counters stop at 2, which is all that "at most once" needs. The manual
runs use the smallest times that keep the code's comparisons apart (watchdog 1,
drain 1, preparing 2 units). `manual_drive` has two ids, so that one session's
frames and starts meet the other's, and two frames per id, a drive and its
release; `manual_link` has three generations, the fewest with a reconnect.
`manual_drive` itself has one generation, so that motion is not owned across a
reconnect is `MotionOwned`'s to show, for any number. Likewise `broker_live` has one
reset id: a reset that is asked for again under another is covered by `BarriersHold`
only. `DisableReachesEveryGoal` is about a motor disable; that a newer destination
ends the older goal is what Nav2 does in the model (`Accept`), and no property of ours. Of
the claims only `maintenance` is in a run: the other two owners end a session in
the same way, and a hardware reading acts like the missing policy that both runs
have.

`server_manual` takes one of six `Budgets` per behaviour, which bound how often
each outside event happens; each meets `revoke` with a different rival (a second
session, a reconnect, a timer and news of the robot, a leaving browser, an
operator's stop, a reset). `MaxBusy` = 2 handlers are in flight at once, the
smallest number with a race; what they call nests up to three deep. `tuning`
likewise takes one of five plans. A signature lives 2 units and an id is
remembered 2, so that forgetting and expiry meet; the code's 30 s against 60 s
is the easier case. `TuningRequest`'s two ends are compared on every kind of
request with up to two things changed and on all roles. `readiness` changes two
fields of a reading at a time, because a rule that three parts of the system
repeat differs, if it does, by a clause or by the order of two; ages are taken
on both sides of each threshold. Its scenarios open one session or two, the one
about motion three, of which two may overlap: the fewest in which the old
gateway's frame arrives between another's clearing and its swap, and in which a
late `robot_disconnected` meets its successor. The browser's queue holds 2 frames and the
writer's 2 (64 and 256 in the code): one protected and one expendable frame
are the fewest that evict. Three connections are the fewest in which a
superseded one supersedes.

**Fairness.** `exec_all` assumes weak fairness of each command's callbacks, of
each action server's steps on a goal and of its cancel replies: the rclpy
executor spins until shutdown, and the actions are assumed to end, which the
dock manager's and Nav2's own time limits are there for. No command or frame is
assumed to arrive. `broker_live` assumes only that asyncio wakes a sleeping
timer; the robot, the network and the clients may stop for ever. `manual_link`
assumes that a drain that began goes on, that the 25 ms tick is served although
drains keep coming (the executor takes ready timers in turn; strong fairness,
because the tick is not ready while a drain runs) and that time passes. Streams
are at most `MaxSeq` + 1 frames long, so `NothingHangs` is about a stream that
stops. `server_manual` assumes that the loop resumes a task whose await is over
and that the 50 ms monitor wakes; `sessions` that the gateways' awaits end and
the 1 s monitor wakes; `tuning` that a request's own send and wait_for time out,
nothing of robot or network.

Deadlock is not checked in `server_manual` and `tuning`: their budgets run out,
and the system then has nothing left to do.

### Disagreement the runs show

* `exec_stop_pending` — `_stop` sees `_active` and `_undock_active` but not
  `_nav_pending`, so a stop sent between a destination and its goal response
  reports success and the robot then drives. The docstring of `_stop` promises
  to say nothing until the robot has stopped.

### Further observations

Found on the same models while they were built. Where a property states the
expectation it is defined in the module, no run keeps it, and the checked
properties exclude exactly the case named.

Commands:

* The error and superseded paths of `_on_goal_response` (`commands.py:739-761`)
  leave `_nav_pending` set (`NavPendingIsInFlight`). Undock is then refused with
  "The robot is driving to a destination. Stop it before backing it off the
  dock." (`commands.py:1084`) although nothing is on its way, until the next
  destination clears it.
* A timer that closes its command cancels itself in `_finish`
  (`broker.py:553`), so its audit update may never finish and its event is never
  emitted (`VerdictAudited`); `test_commands.py:178` expects the row to say
  "timeout".
* After the send of a map localization failed, `_close_out` (`broker.py:541`)
  awaits the cancel frame and publishes without checking that the command is
  still active, next to the robot's own result (`OneVerdict` leaves map localization out for
  it; the docstring says "Synthesize a result for a command the robot never
  resolved.").
* A stop during map localization succeeds at once although `_set_initial_pose`
  admits map localization while an undock runs.
* After a motor disable asked an undock to cancel, a stop's own cancel is
  answered "terminated" while the goal is still canceling, and the stop
  succeeds. `StopWaitsForItsGoal` excludes exactly this case.
* `_set_lidar_power` (`commands.py:1277`) does not look at `_nav_pending`: LiDAR
  power can be pending when a destination is accepted.
* Stops take no admission lock, so the same stop id on two sockets can be
  forwarded twice (`ForwardedOnce` is about the other commands). A stop also
  needs no lease, contrary to the header of `lease.py`.
* A command that a software reset retires is closed without a `command.result`.
* The reset barrier is in memory only and does not survive a server restart.
* The command deque of the bridge node holds 16 frames and drops the oldest
  silently (`bridge_node.py:165`), and `WsClient`'s queue drops its oldest
  unprotected frame, or the new one (`ws_client.py:150`): such a command is
  never answered by the bridge, and the broker's timers close it.

Manual drive:

* A release frame that reaches the bridge before the start is accepted is
  dropped (`frame` returns when the session is not acknowledged), so the start
  may still be accepted after it; the server's `teleop_stop`, or the watchdog,
  ends it. The test `test_release_during_pending_acceptance_cannot_become_a_late_start`
  ends the session directly instead. No motion follows: the server sends no
  drive frame after a release.
* `revoke` names no session. A `teleop_stop` of a finished session whose send
  fails late, or the release of an old session that is still being written
  (`teleop.py:199`), revokes the next session's owner; that owner is then closed
  without a zero of its own until its timers or the robot's 300 ms watchdog.
* A result or ack timer in the middle of `revoke` is cancelled by `_finish` when
  the reply arrives: the zero it waited to send may never be sent.
* A stop issued just before a start is counted among the new owner's stops.

* A start that is delivered a second time is answered by an ack that says no, under
  the id of the session it opened (`teleop.py:245-248`, `257-263`). The dashboard's
  server would take it as the end of a session that goes on, until the operator
  or the watchdog ends it. Nothing sends a start twice: it passes the broker's
  duplicate check like the commands of `OnceAtBothEnds`. `VerdictMatchesSession`
  counts these answers and asks for exactly one per start.

Sessions and browsers:

* `robot_connected` clears the motion (`hub.py:276`) before it awaits the revocation
  and the old socket's close, and does not clear it at the swap (`hub.py:287`). A
  motion frame the old gateway serves in between survives into the new session
  beside a base state that was received on the old connection, where a dock
  reset may be admitted on it while it is fresh. `MotionIsOfThisBase` excludes
  exactly these (`motion_from = "overlap"`); their drive-base session still
  matches the base state's.
* Until an alert's row is stored, what was published last is from before the reading
  that raised it; `HazardStands` and `NoFaultIsHidden` speak of the time after.
* `robot_disconnected` clears the shared heartbeat and motion after an await
  even if a new session has taken over meanwhile: the robot is shown offline
  until the monitor's next tick (`ConnectionFollows` says "in time").
* Two connections in `robot_connected` at once can leave a socket open whose
  messages are ignored.
* `browser_connected` takes its snapshot before it awaits the saved pose and
  queues it after what was published meanwhile (`hub.py:417`). The browser can
  show "online" for a robot that went offline, until the next change
  (`SnapshotIsCurrent`; `protocol.md:89` calls it the full current state). An
  alert can be shown twice for the same reason.
* A browser's motion may belong to another drive-base session than its base
  state, if the base state's frame was evicted.

Gates and status:

* The bridge's undock rule asks for charging (`commands.py:298`), the server's
  for being on the dock. A robot that is docked and draws no current has its
  undock admitted by the server, refused by the bridge, and its destinations
  refused as on its dock; `commands.py:269` says the two are repeated
  "deliberately, in the same words". `ServerRefusesFirst` excludes it.
* With an invalid dock observer, or with the charge strings only `gates.py`
  knows ("charge", "dock", "on_dock"), the status may read "ready" while a
  destination is refused. `ReadyCanGo` excludes both.
* The header of `dockGates.ts` names one rule that is not mirrored, the receipt
  ages; the LiDAR rule for undock and charge release is not either.
* "Stuck" stays up after the path was cleared, until the next pose.
* After the connection was stale, diagnostic sources are forgotten, and an error
  that is not repeated is hidden until its source reports again.

Tuning:

* `WsClient.send` looks at `connected` before it takes its lock
  (`ws_client.py:136`): a reply appended just after a disconnect goes out on the
  next socket, against its comment "must never replay on a new socket". The
  server drops it (`_bound_entry`), which is what `OkIsCurrent` relies on.
* `_dispatch` reads the generation when it dispatches: a request popped just
  before a loss may be called after the reconnect. The user is told "unknown".
* After `dedupe_ttl_s` a request_id can be sent again although the first frame
  still waits in the bridge's queue; the signature has expired by then.
* A save that the robot refused and the user corrected is sent under the same
  request_id and answered 409 for a minute.

Recording:

* Two starts that overlap both find nothing and insert a row each
  (`repo.py:319`: "returns None when one is already in progress"; `OneOpenRow`).
  The first row stays open until a restart, every later start is refused, and
  stop says that nothing is being recorded.
* A start that completes between stop's commit and its clearing of the flag
  leaves `recording` false while recording.
* A delete during stop's flush leaves orphan samples, and a failure between the
  insert of a sample and its count leaves a sample that is not counted.

## 4. Proofs

The theorems hold for every value of the constants that the named assumption of
the module admits. TLC evaluates those assumptions in the runs.

| Module | Theorem | States |
|---|---|---|
| `CommandExecutorProofs` | `TypeCorrect` | `[]TypeOK` |
| | `MotionOwnerCorrect` | `[]OneMotionOwner` |
| | `AnsweredOnceCorrect` | `[]AnsweredOnce` |
| | `NoStopForgottenCorrect` | `[]NoStopForgotten` |
| | `UndockOwnerCorrect` | `UndockOwnerKept`, an action property |
| | `StopsReachCorrect` | `[]StopsReachTheirGoals` |
| | `PathCorrect` | `[]PathIsCurrent` |
| | `MapCancelCorrect` | `[]MapCancelDelivered` |
| | `LidarUnknownCorrect` | `[]LidarUnknownHolds` |
| `CommandBrokerProofs` | `TypesHold` | `[]TypeOK` |
| | `OnceEachWay` | `[]OnceAtBothEnds` |
| | `LeaseHeld` | `[]HolderSends` |
| | `BarriersHold` | `[]Barriers` |
| | `OpenCanEnd` | `[]OpenIsWaitedFor`: an open command has a timer that may fire, or its outcome is marked unknown |
| `ManualDriveProofs` | `TypeCorrect` | `[]TypeOK` |
| | `MotionOwned` | `[]MotionIsOwned` |
| | `SessionKnown` | `[]SessionIsKnown` |
| | `ReleaseReachesSession` | `ReleaseHonoured`, an action property |
| `ServerManualProofs` | `TypesHold` | `[]TypeOK` |
| | `OneSession` | `[]OneSessionAtTheRobot` |
| | `ClosedForGood` | `[]ClosedIsSound` |
| | `ZeroIsLast` | `NoDriveAfterZero`, an action property |
| `TuningProofs` | `TypesHold` | `[]TypeOK` |
| | `OkComesFromTheRobot` | `OkIsCurrent`, an action property |
| | `SignaturesFitTogether` | `[]SignaturesFit` |
| | `PromiseIsKept` | `KeepsPromise`, the refinement of `TuningPromise` |
| `RecordingProofs` | `EveryStopCounts` | `[]StopCountsEverything` |
| | `TypesHold` | `[]TypeOK` |
| | `ToldOnce` | `[]DisconnectToldOnce` |
| | `BrowserIsCaughtUp` | `[]BrowserCatchesUp` |
| `RobotStateProofs` | `TypesHold` | `[]TypeOK` |
| | `MotionIsCurrent` | `[]MotionIsOfThisBase` |
| | `GatesAlwaysFit` | `[]GatesFit` |
| | `FaultsAreAlwaysTold` | `[]FaultsAreTold` |
| | `StatusIsAlwaysHonest` | `[]StatusIsHonest` |

What the assumptions ask beyond types: the ids of starts, stops and automatic
stops are distinct, and browsers are not gateway tasks (`ServerManualAssumption`);
there is at least one robot connection, and a browser's queue has room
(`TelemetryAssumption`); `None` is no id or client, and neither are the names `CommandExecutor` gives the
two callbacks that are not a stop's; a signature expires before its id is forgotten
(`TuningAssumption`); a JSON integer is an integer, the bridge's id pattern
spells every catalog id, and a document without the key `changes` has none
(`DocumentsAssumption`); the preparing time is at least the drain's
(`ManualAssumption`); the thresholds are in order and below the cap of the ages
(`ThresholdAssumption`), the robot's readings are any that `BaseStateData`
admits, and no component that reports diagnostics has the name of another
alert's subject, such as "battery" (`PlansAssumption`).

### The arguments

**Executor.** Inductive invariants, each resting on those before it.

* `TypeInv` adds to the types that an unsent command has no future outstanding
  (`Fresh`), that an undock whose future is outstanding owns `_undock_active`
  (`UndockOwner`), and that only an owned slot has a handle or waiting stops
  (`UndockSlot`). Without them a callback might write another command's slot.
* `MotionInv` adds what makes `OneMotionOwner` inductive: an undock owner and a
  pending destination exclude each other, and the destination of the latest
  generation whose response is on its way is the one in `_nav_pending`. A
  response of an older generation is superseded and cannot become active.
* `ReplyInv` ties replies to futures: a command whose first future is outstanding
  has had no reply, the active goal waits for its result, and the stops in a
  slot are acknowledged and unanswered. `AnsweredOnce` and `NoStopForgotten` need
  each other: a stop is answered by whoever removes it from its slot.
* `LidarInv`, `PathInv` and `MapInv` are small: a power command's future holds the
  barrier it will release; a goal somebody asked to stop has a blocked path; a map
  transaction's future owns `_map_active`, so its response finds its own flag.
* `GoalInv` relates what the executor heard of a goal to what the goal can be. A
  destination that waits for its result is the active one or already over,
  because Nav2 preempts: when the newest destination has begun, those before it
  are over. `DisableInv` then says of each goal sent before a motor disable that
  it is still on its way with an older generation, or was asked to cancel.
* `StopInv` is about quiet goals: every cancel such a goal was sent is heard by a
  stop or by the navigation callback. A quiet goal has at most one cancel in
  flight, whoever hears it waits on that goal, its verdict fits the goal
  (`Agrees`), and a goal that is canceling is still waited on
  (`CancelingIsAwaited`). This is what makes "finished" mean that the goal has
  ended. A second cancel would be told "finished" by a goal that is only
  canceling; the cancels nobody hears (motors off, the undock watchdog, a
  superseded goal) are such second cancels, which is why the property excludes
  them and why the real code can report a stop early after one.

**Broker.** Everything rests on `Locked`: of the tasks that need the admission
lock, one is anywhere between its admission and its return. From it, what that
task looked up is still true when it writes: its id is unsent (`OnceSent`), its
lease is its own (`Leased`), no reset became pending meanwhile (`NotOvertaken`)
and no movement began (`NotMoved`). `LidarKnown` says that of the power commands
still open at the robot one at most is pending and any other asked for recovery.
Steps are first classified by what they do to a command (`Quiet`, `Refused`,
`Settled`, `Ends`), so that each part of the invariant is proved about a handful
of shapes and not about every action.

**Manual drive on the robot.** `Answered` balances, for each id, the starts the
drain took with the acks sent, the ack its session still owes and the start in
hand. `VerdictOf` says what the accepting ones allow: none for an id that was
never open or still prepares, and one result for each once its session is over.
The two give `VerdictMatchesSession`. `Motion` ties the last motion to the session and
connection that caused it. `ReleaseHonoured` needs `Slots` and `Newer`: every
frame in a slot is older than its stream's next, and a release that a drain took
is newer than anything its session has seen, also when the sample of the same
drain is older or another connection's.

**Manual drive on the server.** `revoke` waits twice in the task that called it,
so the invariant is about what a waiting task may still do to an owner it no
longer knows. `Writers` says that a zero is only ever written to a session that is
closed, and a velocity by its owner's own client; `Halted` that a session that is
open after a zero is about to be closed by the client whose release that was. The
two give `NoDriveAfterZero`. `Counted` identifies the active commands with the
owner's start and stops, which is why `terminal` frees the owner when, and only
when, nothing is outstanding; `Told` carries `ClosedIsTold` through the time in
which somebody still works on the session. `OpenIsOwned` excludes a reset that is
about to drop the owner: its own revocation closed the session and the admission
lock keeps a new start out. All steps that revoke go through one lemma
(`RevokeIs`, over `IssueStopIs`), with the stack of what they return to bounded by
`StackFits`.

**Tuning.** `Custody` says that a request is in one place at a time on its way
(frame, queue, hand, core, relay, reply) and what an "ok" or "no" means at each of
them. Every step is then a step of `TuningPromise` or a stutter. `Remembered`
bounds when an id was signed against the server's memory of it; two signatures of
one id are therefore never both alive.

**Recording.** `Counted` is a balance per recording: what was accepted is counted,
lost, or still with the writer, queued or in its hand. `Owned` says that a
recording is the recorder's or one request's at a time, so that the balance is
final when stop has flushed.

**The browser.** `CaughtUp` says of a browser that has lost nothing what its queue
carries: of connection, status and capabilities, the last frame that tells it has
the server's value, or, when none does, the browser has it already. A frame
appended, one evicted from the middle and one sent are a lemma each
(`AppendCarries`, `EvictCarries`, `SendCarries`); eviction is harmless because it
takes an unprotected frame (`OfferedKnows`), and it finds the oldest one because a
set of positions has a least element (`OldestIs`, from the library's theorem on
minimal elements of a well-founded order: the one induction needed, and a
first-order one). The hub's handlers then need one lemma each, and the one thing
they may leave untold is what a new session can do, until its task is past
"joined" and "announcing" (`Introduced`). `Shown` is the position of the last
telling frame, so nothing has to be folded over the queue.

**Robot state.** `GatesAgree` is about one reading, so its parts (`MirrorHolds`,
`ServerFirst`, `SomeWay`) are lemmas about the rules, for every reading the robot
can send. What the alerts and the status say of earlier readings needs an
invariant, `ToldInv`. `SourcesFit` says that a source is kept with what it last
said, or was forgotten after the retention, and that the level a new report is
compared with is the one that was announced; without it a fault that comes back
might be taken for one already told. `AlertsFit` does the same for base and
battery, with the first reading of each as a case of its own. `ConnectionTold`
excludes an offline robot whose heartbeat is merely stale: from there the monitor
would go on without announcing the connection. `PublishedFits` carries status and
health from where they are derived to the next frame, as long as no handler owes
an alert; whoever stores the last one derives (`PublishEnds`, `SettleEnds`). It rests on `HazardShows`
and `FaultShows`, which hold of any derivation. `MotionInv` is what
`MotionIsOfThisBase` needs at the swap: while a session opens, a motion on record
was recorded since that began, never before the clearing.

### Only model-checked

Every invariant and action property of the passing runs is proved. What is left:

* Liveness (`StopsAreAnswered`, `NeverLeftOpen`, `NothingHangs`,
  `LostAuthorityEnds`, `EveryRequestSettles`, `ConnectionFollows`) needs fairness
  and ENABLED, which are out of this prover's reach. What `NeverLeftOpen` rests
  on is proved, the fairness of the timers apart: `OpenCanEnd` says with the
  timers' own guards that whatever is open can end.

## 5. Not modelled

* `SystemResetClient`: to the broker a software reset is a command whose reply
  may come late or never, which `CommandBroker` has; the client's own thread and
  the host supervisor it talks to are open.
* The eviction of `WsClient`'s queue: a lost reply is an input of
  `CommandBroker` and `Tuning`.
* The shape checks of a tuning snapshot and response (`validate_snapshot`): a
  reply that does not validate is an input of `Tuning`.
* Frontend stores other than telemetry: what they send is any sequence of
  requests, which the server's models accept, and what they show follows frames
  whose order the models have.
* Goal geometry, maps, the battery estimator, export and normalizers: numeric or
  textual content without protocol state.
* Authentication: users and roles are constants.

## 6. Plan

1. `SystemResetClient` with the node's software-reset dispatch.
