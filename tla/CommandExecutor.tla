-------------------------- MODULE CommandExecutor --------------------------
(***************************************************************************)
(* The robot bridge's CommandExecutor: the component on the robot that     *)
(* turns command.request frames into Nav2, dock-manager and LocalizeOnMap  *)
(* action goals, and the action servers' callbacks into command.ack and    *)
(* command.result frames.                                                  *)
(*                                                                         *)
(* Every handler and callback is one action: the node has no callback      *)
(* group but rclpy's default, which is mutually exclusive and is assumed   *)
(* to serialise the futures' callbacks as well.  What interleaves is the   *)
(* order of requests, goal responses, cancel replies, results and timers.  *)
(* The action servers are outside the repository: they are modelled by the *)
(* goal states, verdicts and errors the callbacks distinguish.             *)
(***************************************************************************)
EXTENDS Naturals, FiniteSets

CONSTANTS
  Command,   \* command_ids; the server never reuses one
  Kinds,     \* the commands a run sends
  Contexts,  \* values of the navigation context tuple taken from base_state
  CancelKinds, \* the commands the server sends a command.cancel frame for
  PathService, \* whether the GetNavigationPath service is ever up
  None       \* no command, no context

MotionKinds  == {"navigate_to_pose", "undock"}
ActionKinds  == MotionKinds \cup {"set_initial_pose"}
ServiceKinds == {"motor_enable", "motor_disable", "dock_reset", "charge_release"}
AllKinds     == ActionKinds \cup ServiceKinds \cup {"stop", "set_lidar_power"}

ASSUME ConstantsAssumption ==
  /\ None \notin Command
  /\ None \notin Contexts
  /\ Kinds \subseteq AllKinds
  /\ CancelKinds \subseteq ActionKinds
  /\ PathService \in BOOLEAN

\* The callbacks that are not a stop's have names of their own.
ASSUME TagsAssumption == Command \cap {"navigation", "unheard"} = {}

VARIABLES
  kind,     \* what each command_id asked for, "unsent" before it is handled
  ack,      \* the command.ack sent for each command
  result,   \* the command.result sent for each command
  doubled,  \* history: commands sent a second ack, a second result, or a
            \* result after a refusal
  active,          \* self._active: the accepted navigation goal
  nav_pending,     \* self._nav_pending
  undock_active,   \* self._undock_active
  map_active,      \* self._map_active
  lidar,           \* self._lidar_pending, _recovery_required, _completed_mono
  motor_disable_generation, navigation_generation, navigation_context,
  captured,  \* the generations and context a goal response callback closes over
  path,      \* the command the last telemetry.path frame shows a valid path for
  path_query,\* the command whose path service call is outstanding
  goal,      \* external: the action servers' view of each goal
  wait,      \* external: the future the executor is waiting on for a command
  cancels,   \* external: cancel requests in flight or answered, not delivered
  asked,     \* history: how each goal has been asked to cancel
  earlier,   \* history: the goals sent before a stop or a motor disable
  target     \* history: the goal each stop was set to wait on

genVars  == <<motor_disable_generation, navigation_generation,
              navigation_context, captured>>
pathVars == <<path, path_query>>
cancelVars == <<cancels, asked>>
execVars == <<active, nav_pending, undock_active, map_active, lidar, genVars, pathVars>>
replyVars  == <<ack, result, doubled>>
serverVars == <<goal, wait, cancelVars>>
histVars == <<earlier, target>>
vars == <<kind, replyVars, execVars, serverVars, histVars>>

----------------------------------------------------------------------------
(* Types.  A slot that holds nothing has None in its id field.             *)

Outcomes == {"succeeded", "failed", "canceled", "timeout"}
Moving   == {"executing", "canceling"}
GoalState == {"none", "sent", "declined", "over"} \cup Moving
Id == Command \cup {None}

Nav == [id: Id, stops: SUBSET Command, cancel_requested: BOOLEAN,
        cancel_pending: BOOLEAN, path_blocked: BOOLEAN, path_valid: BOOLEAN,
        context: Contexts \cup {None}]
Undock == [id: Id, handle: BOOLEAN, stops: SUBSET Command, lead: Id,
           cancel_requested: BOOLEAN, uncertain: BOOLEAN]
Map == [id: Id, handle: BOOLEAN, cancel: BOOLEAN]

\* A cancel request: its goal, the callback waiting on its reply (a stop's id,
\* "navigation" for _on_navigation_cancel_response, "unheard" for the callers
\* that add no callback) and the server's verdict, "none" until it has one.
Cancel == [goal: Command, heard: Command \cup {"navigation", "unheard"},
           verdict: {"none", "canceling", "finished", "refused"}]

NoNav == [id |-> None, stops |-> {}, cancel_requested |-> FALSE,
          cancel_pending |-> FALSE, path_blocked |-> FALSE,
          path_valid |-> FALSE, context |-> None]
NoUndock == [id |-> None, handle |-> FALSE, stops |-> {}, lead |-> None,
             cancel_requested |-> FALSE, uncertain |-> FALSE]
NoMap == [id |-> None, handle |-> FALSE, cancel |-> FALSE]
NoPending == [id |-> None, cancel |-> FALSE]

TypeOK ==
  /\ kind \in [Command -> AllKinds \cup {"unsent"}]
  /\ ack \in [Command -> {"none", "accepted", "refused"}]
  /\ result \in [Command -> Outcomes \cup {"none"}]
  /\ doubled \subseteq Command
  /\ active \in Nav
  /\ nav_pending \in [id: Id, cancel: BOOLEAN]
  /\ undock_active \in Undock
  /\ map_active \in Map
  /\ lidar \in [pending: Id, recovery: BOOLEAN, stale: BOOLEAN]
  /\ motor_disable_generation \in Nat
  /\ navigation_generation \in Nat
  /\ navigation_context \in Contexts \cup {None}
  /\ captured \in [Command -> [motor: Nat, nav: Nat, context: Contexts \cup {None}]]
  /\ path \in Id
  /\ path_query \in Id
  /\ goal \in [Command -> GoalState]
  /\ wait \in [Command -> {"none", "response", "result", "service", "lidar"}]
  /\ cancels \subseteq Cancel
  /\ asked \in [Command -> SUBSET {"stop", "navigation", "unheard"}]
  /\ earlier \in [Command -> SUBSET Command]
  /\ target \in [Command -> Id]

Init ==
  /\ kind = [c \in Command |-> "unsent"]
  /\ ack = [c \in Command |-> "none"]
  /\ result = [c \in Command |-> "none"]
  /\ doubled = {}
  /\ active = NoNav
  /\ nav_pending = NoPending
  /\ undock_active = NoUndock
  /\ map_active = NoMap
  /\ lidar = [pending |-> None, recovery |-> FALSE, stale |-> FALSE]
  /\ motor_disable_generation = 0
  /\ navigation_generation = 0
  /\ navigation_context = None
  /\ captured = [c \in Command |-> [motor |-> 0, nav |-> 0, context |-> None]]
  /\ path = None
  /\ path_query = None
  /\ goal = [c \in Command |-> "none"]
  /\ wait = [c \in Command |-> "none"]
  /\ cancels = {}
  /\ asked = [c \in Command |-> {}]
  /\ earlier = [c \in Command |-> {}]
  /\ target = [c \in Command |-> None]

----------------------------------------------------------------------------
(* Replies and cancel requests                                             *)

To(S, v) == [c \in S |-> v]
Nobody == To({}, "none")

\* _ack and _result: the frames one handler sends.
Tell(acks, results) ==
  /\ ack' = [c \in Command |-> IF c \in DOMAIN acks THEN acks[c] ELSE ack[c]]
  /\ result' = [c \in Command |->
       IF c \in DOMAIN results THEN results[c] ELSE result[c]]
  /\ doubled' = doubled
       \cup {c \in DOMAIN acks : ack[c] # "none"}
       \cup {c \in DOMAIN results : result[c] # "none" \/ ack[c] = "refused"}

\* goal_handle.cancel_goal_async(), with the callback that hears the reply.
Request(g, heard) == [goal |-> g, heard |-> heard, verdict |-> "none"]
How(heard) == IF heard \in {"navigation", "unheard"} THEN heard ELSE "stop"
Ask(requests) ==
  /\ cancels' = cancels \cup requests
  /\ asked' = [g \in Command |->
       asked[g] \cup {How(r.heard) : r \in {q \in requests : q.goal = g}}]

\* Mutant: the path is not withdrawn.
ClearedPathKept == path

\* _clear_navigation_path: a frame that withdraws the path, if a goal is active.
ClearedPath == IF active.id = None THEN path ELSE None

\* stop_result: what the end of a goal says about the stops waiting on it.
stop_result(outcome) ==
  IF outcome \in {"canceled", "succeeded"} THEN "succeeded" ELSE "failed"

----------------------------------------------------------------------------
(* handle(): one action per command.  Receive is the arrival of a frame.   *)

Receive(c, k) ==
  /\ kind[c] = "unsent"
  /\ k \in Kinds
  /\ kind' = [kind EXCEPT ![c] = k]

GoalsSent == {g \in Command : kind[g] \in MotionKinds /\ goal[g] # "none"}

\* Refused with no other effect: missing authorization, map identity, seed
\* profile, precheck(), an action server or service that is not ready, or any
\* of the busy guards below.  A stop is never refused.
Refuse(c, k) ==
  /\ Receive(c, k)
  /\ k # "stop"
  /\ Tell(To({c}, "refused"), Nobody)
  /\ UNCHANGED <<execVars, serverVars, histVars>>

\* Mutant: a pending power command holds nothing back.
LidarHoldsAfterReply(k) ==
  \/ lidar.recovery /\ k \in ActionKinds \cup {"charge_release"}
  \/ lidar.stale

LidarHolds(k) ==
  \/ lidar.pending # None
  \/ lidar.recovery /\ k \in ActionKinds \cup {"charge_release"}
  \/ lidar.stale

Admitted(k) == ~LidarHolds(k) /\ map_active.id = None

Navigate(c) ==
  /\ Receive(c, "navigate_to_pose")
  /\ Admitted("navigate_to_pose")
  /\ undock_active.id = None
  /\ active' = [active EXCEPT !.path_valid = FALSE]
  /\ path' = ClearedPath
  /\ navigation_generation' = navigation_generation + 1
  /\ captured' = [captured EXCEPT ![c] =
       [motor |-> motor_disable_generation, nav |-> navigation_generation + 1,
        context |-> navigation_context]]
  /\ nav_pending' = [id |-> c, cancel |-> FALSE]
  /\ goal' = [goal EXCEPT ![c] = "sent"]
  /\ wait' = [wait EXCEPT ![c] = "response"]
  /\ UNCHANGED <<replyVars, undock_active, map_active, lidar,
         motor_disable_generation, navigation_context, path_query, cancelVars,
         histVars>>

\* Mutant: a destination whose response is on its way is not seen.
UndockFreeOfActive == undock_active.id = None /\ active.id = None

UndockFree == undock_active.id = None /\ active.id = None /\ nav_pending.id = None

UndockRequest(c) ==
  /\ Receive(c, "undock")
  /\ Admitted("undock")
  /\ UndockFree
  /\ undock_active' = [NoUndock EXCEPT !.id = c]
  /\ captured' = [captured EXCEPT ![c] =
       [motor |-> motor_disable_generation, nav |-> 0, context |-> None]]
  /\ goal' = [goal EXCEPT ![c] = "sent"]
  /\ wait' = [wait EXCEPT ![c] = "response"]
  /\ UNCHANGED <<replyVars, active, nav_pending, map_active, lidar,
         motor_disable_generation, navigation_generation, navigation_context,
         pathVars, cancelVars, histVars>>

\* _set_initial_pose looks at self._active only.
SetInitialPose(c) ==
  /\ Receive(c, "set_initial_pose")
  /\ Admitted("set_initial_pose")
  /\ active.id = None
  /\ map_active' = [NoMap EXCEPT !.id = c]
  /\ goal' = [goal EXCEPT ![c] = "sent"]
  /\ wait' = [wait EXCEPT ![c] = "response"]
  /\ UNCHANGED <<replyVars, active, nav_pending, undock_active, lidar, genVars,
         pathVars, cancelVars, histVars>>

\* The part of _stop for each of the things it may find running.
StopNothing(c) ==
  /\ undock_active.id = None /\ active.id = None
  /\ Tell(To({c}, "accepted"), To({c}, "succeeded"))
  /\ UNCHANGED <<active, undock_active, path, cancelVars>>

StopUndock(c) ==
  LET u == undock_active IN
  /\ u.id # None
  /\ Tell(To({c}, "accepted"), Nobody)
  /\ undock_active' = [u EXCEPT !.cancel_requested = TRUE,
       !.stops = @ \cup {c}, !.lead = IF u.stops = {} THEN c ELSE @]
  /\ Ask(IF u.handle /\ u.stops = {} THEN {Request(u.id, c)} ELSE {})
  /\ UNCHANGED <<active, path>>

StopNavigation(c) ==
  /\ undock_active.id = None /\ active.id # None
  /\ Tell(To({c}, "accepted"), Nobody)
  /\ active' = [active EXCEPT !.cancel_requested = TRUE, !.path_blocked = TRUE,
       !.path_valid = FALSE, !.stops = @ \cup {c}]
  /\ path' = ClearedPath
  /\ Ask(IF active.stops = {} /\ ~active.cancel_pending
         THEN {Request(active.id, c)} ELSE {})
  /\ UNCHANGED undock_active

Stop(c) ==
  /\ Receive(c, "stop")
  /\ map_active.id = None
  /\ StopNothing(c) \/ StopUndock(c) \/ StopNavigation(c)
  /\ earlier' = [earlier EXCEPT ![c] = GoalsSent]
  /\ target' = [target EXCEPT ![c] =
       IF undock_active.id # None THEN undock_active.id ELSE active.id]
  /\ UNCHANGED <<nav_pending, map_active, lidar, genVars, path_query, goal,
         wait>>

\* Mutants: a goal that already has a handle is not canceled; the flag holds an
\* id.
MapCancelRequestsNone == {}
CancelledMapById == [map_active EXCEPT !.cancel = map_active.id]

\* _check_map_connection once it decides to cancel.
MapCancelRequests ==
  IF map_active.id # None /\ ~map_active.cancel /\ map_active.handle
  THEN {Request(map_active.id, "unheard")} ELSE {}
CancelledMap == [map_active EXCEPT !.cancel = map_active.id # None]

MapStop(c) ==
  /\ Receive(c, "stop")
  /\ map_active.id # None
  /\ map_active' = CancelledMap
  /\ Ask(MapCancelRequests)
  /\ Tell(To({c}, "accepted"), To({c}, "succeeded"))
  /\ earlier' = [earlier EXCEPT ![c] = GoalsSent]
  /\ UNCHANGED <<active, nav_pending, undock_active, lidar, genVars, pathVars,
         goal, wait, target>>

\* The goals whose handle the executor has.
GoalsHeld == {g \in Command : g = active.id \/ (g = undock_active.id /\ undock_active.handle)}

\* The generation moves and everything running is canceled whether or not the
\* motor service is there to be called.
MotorDisable(c) ==
  /\ Receive(c, "motor_disable")
  /\ motor_disable_generation' = motor_disable_generation + 1
  /\ active' = IF active.id = None THEN active
               ELSE [active EXCEPT !.path_blocked = TRUE, !.path_valid = FALSE,
                                   !.cancel_requested = TRUE]
  /\ path' = ClearedPath
  /\ undock_active' = [undock_active EXCEPT
       !.cancel_requested = @ \/ undock_active.id # None]
  /\ map_active' = CancelledMap
  /\ Ask(MapCancelRequests \cup {Request(g, "unheard") : g \in GoalsHeld})
  /\ \/ /\ wait' = [wait EXCEPT ![c] = "service"]
        /\ UNCHANGED replyVars
     \/ /\ Tell(To({c}, "refused"), Nobody)
        /\ UNCHANGED wait
  /\ earlier' = [earlier EXCEPT ![c] = GoalsSent]
  /\ UNCHANGED <<nav_pending, lidar, navigation_generation, navigation_context,
         captured, path_query, goal, target>>

ServiceAdmitted(k) ==
  \/ k = "motor_enable" /\ active.id = None /\ undock_active.id = None
  \/ k = "dock_reset" /\ active.id = None /\ undock_active.id = None
                      /\ map_active.id = None
  \/ k = "charge_release" /\ Admitted(k)

\* _call_dock_service for motor_enable, dock_reset and charge_release.
CallDockService(c, k) ==
  /\ Receive(c, k)
  /\ ServiceAdmitted(k)
  /\ wait' = [wait EXCEPT ![c] = "service"]
  /\ UNCHANGED <<replyVars, execVars, goal, cancelVars, histVars>>

SetLidarPower(c) ==
  /\ Receive(c, "set_lidar_power")
  /\ Admitted("set_lidar_power")
  /\ active.id = None /\ undock_active.id = None
  /\ lidar' = [lidar EXCEPT !.pending = c]
  /\ \/ /\ wait' = [wait EXCEPT ![c] = "lidar"]
        /\ UNCHANGED replyVars
     \/ /\ Tell(Nobody, To({c}, "timeout"))
        /\ UNCHANGED wait
  /\ UNCHANGED <<active, nav_pending, undock_active, map_active, genVars,
         pathVars, goal, cancelVars, histVars>>

----------------------------------------------------------------------------
(* The server's command.cancel frame, for whatever owns that command_id.   *)

CancelMap(c) ==
  /\ map_active.id = c /\ ~map_active.cancel
  /\ map_active' = CancelledMap
  /\ Ask(MapCancelRequests)
  /\ UNCHANGED <<kind, replyVars, active, nav_pending, undock_active, lidar,
         genVars, pathVars, goal, wait, histVars>>

CancelPending(c) ==
  /\ nav_pending.id = c
  /\ nav_pending' = [nav_pending EXCEPT !.cancel = TRUE]
  /\ UNCHANGED <<kind, replyVars, active, undock_active, map_active, lidar,
         genVars, pathVars, serverVars, histVars>>

CancelNavigation(c) ==
  /\ active.id = c /\ ~active.cancel_requested
  /\ active' = [active EXCEPT !.cancel_requested = TRUE, !.cancel_pending = TRUE,
                              !.path_blocked = TRUE, !.path_valid = FALSE]
  /\ path' = ClearedPath
  /\ Ask({Request(c, "navigation")})
  /\ UNCHANGED <<kind, replyVars, nav_pending, undock_active, map_active, lidar,
         genVars, path_query, goal, wait, histVars>>

\* _cancel_navigation for an undock, from the frame or from the watchdog.
UndockCancelRequests ==
  IF undock_active.handle /\ ~undock_active.cancel_requested
  THEN {Request(undock_active.id, "unheard")} ELSE {}

CancelUndock(c) ==
  /\ undock_active.id = c /\ ~undock_active.cancel_requested
  /\ undock_active' = [undock_active EXCEPT !.cancel_requested = TRUE]
  /\ Ask(UndockCancelRequests)
  /\ UNCHANGED <<kind, replyVars, active, nav_pending, map_active, lidar,
         genVars, pathVars, goal, wait, histVars>>

----------------------------------------------------------------------------
(* Navigation callbacks                                                    *)

\* The response future raised: the goal may or may not be running.
GoalResponseError(c) ==
  /\ wait[c] = "response" /\ kind[c] = "navigate_to_pose"
  /\ wait' = [wait EXCEPT ![c] = "none"]
  /\ Tell(To({c}, "refused"), Nobody)
  /\ UNCHANGED <<kind, execVars, goal, cancelVars, histVars>>

GoalDeclined(c) ==
  /\ wait[c] = "response" /\ kind[c] = "navigate_to_pose" /\ goal[c] = "declined"
  /\ wait' = [wait EXCEPT ![c] = "none"]
  /\ nav_pending' = IF nav_pending.id = c THEN NoPending ELSE nav_pending
  /\ Tell(To({c}, "refused"), Nobody)
  /\ UNCHANGED <<kind, active, undock_active, map_active, lidar, genVars,
         pathVars, goal, cancelVars, histVars>>

\* Mutant: motors disabled while the goal was on its way go unnoticed.
SupersededByGoal(c) ==
  \/ captured[c].nav # navigation_generation
  \/ captured[c].context # None /\ captured[c].context # navigation_context

\* Motors were disabled, a newer destination was sent or the context changed
\* while the goal was on its way.
Superseded(c) ==
  \/ captured[c].motor # motor_disable_generation
  \/ captured[c].nav # navigation_generation
  \/ captured[c].context # None /\ captured[c].context # navigation_context

GoalSuperseded(c) ==
  /\ wait[c] = "response" /\ kind[c] = "navigate_to_pose"
  /\ goal[c] \in Moving \cup {"over"}
  /\ Superseded(c)
  /\ wait' = [wait EXCEPT ![c] = "none"]
  /\ Ask({Request(c, "unheard")})
  /\ Tell(To({c}, "refused"), Nobody)
  /\ UNCHANGED <<kind, execVars, goal, histVars>>

GoalAccepted(c) ==
  LET cancel == nav_pending.id = c /\ nav_pending.cancel IN
  /\ wait[c] = "response" /\ kind[c] = "navigate_to_pose"
  /\ goal[c] \in Moving \cup {"over"}
  /\ ~Superseded(c)
  /\ wait' = [wait EXCEPT ![c] = "result"]
  /\ Tell(To({c}, "accepted"),
          [d \in ({active.id} \ {None}) \cup active.stops |->
             IF d = active.id THEN "canceled" ELSE "failed"])
  /\ active' = [NoNav EXCEPT !.id = c, !.context = navigation_context,
       !.cancel_requested = cancel, !.cancel_pending = cancel,
       !.path_blocked = cancel]
  /\ path' = None
  /\ nav_pending' = IF nav_pending.id = c THEN NoPending ELSE nav_pending
  /\ Ask(IF cancel THEN {Request(c, "navigation")} ELSE {})
  /\ UNCHANGED <<kind, undock_active, map_active, lidar, genVars, path_query,
         goal, histVars>>

\* What a result future yields for a goal: any status once it is over, or an
\* exception (an abnormal end) at any time.
GoalOutcomes(g) == IF goal[g] = "over" THEN {"succeeded", "canceled", "failed"} ELSE {"failed"}

OnResult(c) ==
  /\ wait[c] = "result" /\ kind[c] = "navigate_to_pose"
  /\ wait' = [wait EXCEPT ![c] = "none"]
  /\ active' = IF active.id = c THEN NoNav ELSE active
  /\ path' = IF active.id = c THEN ClearedPath ELSE path
  /\ \E outcome \in GoalOutcomes(c) :
       Tell(Nobody, [d \in IF active.id = c THEN {c} \cup active.stops ELSE {} |->
                       IF d = c THEN outcome ELSE stop_result(outcome)])
  /\ UNCHANGED <<kind, nav_pending, undock_active, map_active, lidar, genVars,
         path_query, goal, cancelVars, histVars>>

\* update_navigation_context, and a base_state newer than the LiDAR command.
BaseState(context) ==
  LET changed == context # navigation_context /\ active.id # None IN
  /\ navigation_context' = context
  /\ active' = IF changed
               THEN [active EXCEPT !.path_blocked = TRUE, !.path_valid = FALSE]
               ELSE active
  /\ path' = IF changed THEN ClearedPath ELSE path
  /\ lidar' = [lidar EXCEPT !.stale = FALSE]
  /\ UNCHANGED <<kind, replyVars, nav_pending, undock_active, map_active,
         motor_disable_generation, navigation_generation, captured, path_query,
         serverVars, histVars>>

\* _poll_navigation_path: an outstanding call is given up when it is too old;
\* then the active goal's path is asked for unless it is blocked.
PollPath(ready) ==
  LET given_up == path_query # None
      a == IF given_up THEN [active EXCEPT !.path_valid = FALSE] ELSE active
      asks == a.id # None /\ ~a.path_blocked
      clears == given_up \/ (asks /\ ~ready /\ a.path_valid)
  IN /\ path_query' = IF asks /\ ready THEN a.id ELSE None
     /\ active' = IF asks /\ ~ready THEN [a EXCEPT !.path_valid = FALSE] ELSE a
     /\ path' = IF clears THEN ClearedPath ELSE path
     /\ UNCHANGED <<kind, replyVars, nav_pending, undock_active, map_active,
            lidar, genVars, serverVars, histVars>>

\* _on_navigation_path and navigation_path: an error or an inactive navigator
\* withdraws the path; a reply for another goal, or one that is blocked, out of
\* context or without a map identity, is dropped.
OnNavigationPath ==
  LET usable == ~active.path_blocked /\ active.context = navigation_context
                /\ navigation_context # None
  IN /\ path_query # None
     /\ path_query' = None
     /\ \/ UNCHANGED <<active, path>>
        \/ /\ active.id = path_query
           /\ active' = [active EXCEPT !.path_valid = FALSE]
           /\ path' = ClearedPath
        \/ /\ active.id = path_query /\ usable
           /\ active' = [active EXCEPT !.path_valid = TRUE]
           /\ path' = active.id
     /\ UNCHANGED <<kind, replyVars, nav_pending, undock_active, map_active,
            lidar, genVars, serverVars, histVars>>

----------------------------------------------------------------------------
(* Undock callbacks and watchdog.  _undock_active is released only by its  *)
(* own response or result, so a callback always finds its own command.     *)

\* Mutants: the stops waiting on the undock are dropped; the owner is released.
FailUndockDropsStops ==
  /\ undock_active' = [undock_active EXCEPT !.uncertain = TRUE, !.stops = {},
                                            !.cancel_requested = TRUE]
  /\ Ask(UndockCancelRequests)
FailUndockReleases == undock_active' = NoUndock /\ Ask(UndockCancelRequests)

\* _fail_undock: the outcome is unknown; ask for a cancel, keep the owner.
FailUndock ==
  /\ undock_active' = [undock_active EXCEPT !.uncertain = TRUE,
                                            !.cancel_requested = TRUE]
  /\ Ask(UndockCancelRequests)

\* check_undock_health: the action server is gone or the undock is overdue.
CheckUndockHealth ==
  /\ undock_active.id # None /\ ~undock_active.uncertain
  /\ FailUndock
  /\ UNCHANGED <<kind, replyVars, active, nav_pending, map_active, lidar,
         genVars, pathVars, goal, wait, histVars>>

\* A response or result future that raised, or a result with no terminal status.
UndockReplyError(c) ==
  /\ kind[c] = "undock" /\ wait[c] \in {"response", "result"}
  /\ wait' = [wait EXCEPT ![c] = "none"]
  /\ IF undock_active.uncertain THEN UNCHANGED <<undock_active, cancelVars>>
                                ELSE FailUndock
  /\ UNCHANGED <<kind, replyVars, active, nav_pending, map_active, lidar,
         genVars, pathVars, goal, histVars>>

UndockDeclined(c) ==
  /\ kind[c] = "undock" /\ wait[c] = "response" /\ goal[c] = "declined"
  /\ wait' = [wait EXCEPT ![c] = "none"]
  /\ undock_active' = NoUndock
  /\ Tell(To({c}, "refused"), To(undock_active.stops, "succeeded"))
  /\ UNCHANGED <<kind, active, nav_pending, map_active, lidar, genVars,
         pathVars, goal, cancelVars, histVars>>

\* A cancel asked for before the goal had a handle goes out with its acceptance;
\* if it cannot be sent, every stop waiting on it fails at once.
UndockAccepted(c) ==
  LET u == [undock_active EXCEPT !.handle = TRUE, !.cancel_requested =
              @ \/ captured[c].motor # motor_disable_generation]
      heard == IF u.stops = {} THEN "unheard" ELSE u.lead
  IN /\ kind[c] = "undock" /\ wait[c] = "response"
     /\ goal[c] \in Moving \cup {"over"}
     /\ wait' = [wait EXCEPT ![c] = "result"]
     /\ \/ /\ undock_active' = u
           /\ Tell(To({c}, "accepted"), Nobody)
           /\ Ask(IF u.cancel_requested THEN {Request(c, heard)} ELSE {})
        \/ /\ u.cancel_requested
           /\ undock_active' = [u EXCEPT !.stops = {}]
           /\ Tell(To({c}, "accepted"), To(u.stops, "failed"))
           /\ asked' = [asked EXCEPT ![c] = @ \cup {How(heard)}]
           /\ UNCHANGED cancels
     /\ UNCHANGED <<kind, active, nav_pending, map_active, lidar, genVars,
            pathVars, goal, histVars>>

\* undock_outcome and map_goal_status, or "failed" when the two disagree.
OnUndockResult(c) ==
  /\ kind[c] = "undock" /\ wait[c] = "result" /\ goal[c] = "over"
  /\ wait' = [wait EXCEPT ![c] = "none"]
  /\ undock_active' = NoUndock
  /\ \E outcome \in Outcomes :
       Tell(Nobody, [d \in {c} \cup undock_active.stops |->
                       IF d = c THEN outcome ELSE stop_result(outcome)])
  /\ UNCHANGED <<kind, active, nav_pending, map_active, lidar, genVars,
         pathVars, goal, cancelVars, histVars>>

----------------------------------------------------------------------------
(* Cancel replies                                                          *)

\* Mutant: a stop that was answered is answered again.
ClaimedAlways(c) == c \in Command

\* _claim_stop: whoever answers a stop first removes it from the goal it waits on.
Claimed(c) == c \in active.stops \cup undock_active.stops
Claim(c) ==
  /\ active' = [active EXCEPT !.stops = @ \ {c}]
  /\ undock_active' = [undock_active EXCEPT
       !.stops = IF c \in active.stops THEN @ ELSE @ \ {c}]

\* Mutant: a cancel that was accepted counts as a robot that has stopped.
OnCancelResponseEager(x, verdict) ==
  /\ x.heard \in Command
  /\ IF ~Claimed(x.heard)
     THEN UNCHANGED <<replyVars, active, undock_active>>
     ELSE /\ Claim(x.heard)
          /\ Tell(Nobody, To({x.heard},
               IF verdict \in {"canceling", "finished"} THEN "succeeded" ELSE "failed"))

\* _on_cancel_response, and _fail_stop when the reply is a refusal or an error.
OnCancelResponse(x, verdict) ==
  /\ x.heard \in Command
  /\ IF verdict = "canceling" \/ ~Claimed(x.heard)
     THEN UNCHANGED <<replyVars, active, undock_active>>
     ELSE /\ Claim(x.heard)
          /\ Tell(Nobody, To({x.heard},
               IF verdict = "finished" THEN "succeeded" ELSE "failed"))

\* _on_navigation_cancel_response.
OnNavigationCancelResponse(x, verdict) ==
  /\ x.heard = "navigation"
  /\ active' = IF active.id = x.goal /\ verdict \notin {"canceling", "finished"}
               THEN [active EXCEPT !.cancel_pending = FALSE] ELSE active
  /\ UNCHANGED <<replyVars, undock_active>>

\* The reply to cancel request x is delivered: the server's verdict, or the error
\* of a request that never reached it.
CancelReply(x) ==
  LET verdict == IF x.verdict = "none" THEN "error" ELSE x.verdict IN
  /\ x \in cancels
  /\ OnCancelResponse(x, verdict) \/ OnNavigationCancelResponse(x, verdict)
  /\ cancels' = cancels \ {x}
  /\ UNCHANGED <<kind, nav_pending, map_active, lidar, genVars, pathVars, goal,
         wait, asked, histVars>>

----------------------------------------------------------------------------
(* Map localization callbacks and the connection timer                     *)

MapResponse(c) ==
  /\ kind[c] = "set_initial_pose" /\ wait[c] = "response"
  /\ \/ /\ goal[c] = "declined"
        /\ Tell(To({c}, "refused"), Nobody)
        /\ map_active' = NoMap
        /\ wait' = [wait EXCEPT ![c] = "none"]
        /\ UNCHANGED <<cancelVars>>
     \/ /\ goal[c] \in Moving \cup {"over"}
        /\ Tell(To({c}, "accepted"), Nobody)
        /\ map_active' = [map_active EXCEPT !.handle = TRUE]
        /\ wait' = [wait EXCEPT ![c] = "result"]
        /\ Ask(IF map_active.cancel THEN {Request(c, "unheard")} ELSE {})
     \/ /\ Tell(Nobody, To({c}, "failed"))      \* the future raised
        /\ map_active' = NoMap
        /\ wait' = [wait EXCEPT ![c] = "none"]
        /\ UNCHANGED <<cancelVars>>
  /\ UNCHANGED <<kind, active, nav_pending, undock_active, lidar, genVars,
         pathVars, goal, histVars>>

\* A result that is not "localized", belongs to another request or raised fails.
MapResult(c) ==
  /\ kind[c] = "set_initial_pose" /\ wait[c] = "result"
  /\ \E outcome \in GoalOutcomes(c) \ {"canceled"} :
       Tell(Nobody, To({c}, outcome))
  /\ map_active' = NoMap
  /\ wait' = [wait EXCEPT ![c] = "none"]
  /\ UNCHANGED <<kind, active, nav_pending, undock_active, lidar, genVars,
         pathVars, goal, cancelVars, histVars>>

\* _check_map_connection's timer finds the link to the server down.
CheckMapConnection ==
  /\ map_active.id # None /\ ~map_active.cancel
  /\ map_active' = CancelledMap
  /\ Ask(MapCancelRequests)
  /\ UNCHANGED <<kind, replyVars, active, nav_pending, undock_active, lidar,
         genVars, pathVars, goal, wait, histVars>>

----------------------------------------------------------------------------
(* Service callbacks                                                       *)

OnDockServiceResult(c) ==
  /\ wait[c] = "service"
  /\ wait' = [wait EXCEPT ![c] = "none"]
  /\ \/ Tell(To({c}, "refused"), Nobody)
     \/ \E outcome \in {"succeeded", "failed"} :
          Tell(To({c}, "accepted"), To({c}, outcome))
  /\ UNCHANGED <<kind, execVars, goal, cancelVars, histVars>>

OnLidarResult(c) ==
  /\ wait[c] = "lidar"
  /\ wait' = [wait EXCEPT ![c] = "none"]
  /\ \/ /\ Tell(Nobody, To({c}, "timeout"))   \* raised, or another request's
        /\ UNCHANGED lidar
     \/ /\ Tell(To({c}, "refused"), Nobody)
        /\ lidar' = [lidar EXCEPT !.pending = None, !.stale = TRUE]
     \/ \E success \in BOOLEAN :
          /\ Tell(To({c}, "accepted"),
                  To({c}, IF success THEN "succeeded" ELSE "failed"))
          /\ lidar' = [pending |-> None, recovery |-> ~success, stale |-> TRUE]
  /\ UNCHANGED <<kind, active, nav_pending, undock_active, map_active, genVars,
         pathVars, goal, cancelVars, histVars>>

----------------------------------------------------------------------------
(* The action servers (external)                                         *)

serverOnly == <<kind, replyVars, execVars, wait, asked, histVars>>

\* Nav2 preempts its running goal when it takes a new one.
Accept(c) ==
  /\ goal[c] = "sent"
  /\ goal' = [g \in Command |->
       IF g = c THEN "executing"
       ELSE IF kind[c] = "navigate_to_pose" /\ kind[g] = "navigate_to_pose"
               /\ goal[g] \in Moving THEN "over" ELSE goal[g]]
  /\ UNCHANGED <<serverOnly, cancels>>

Decline(c) ==
  /\ goal[c] = "sent"
  /\ goal' = [goal EXCEPT ![c] = "declined"]
  /\ UNCHANGED <<serverOnly, cancels>>

GoalEnds(c) ==
  /\ goal[c] \in Moving
  /\ goal' = [goal EXCEPT ![c] = "over"]
  /\ UNCHANGED <<serverOnly, cancels>>

\* A goal that is canceling or over answers a further request with
\* ERROR_GOAL_TERMINATED, which cancel_verdict reads as "finished".
AnswerCancel(x) ==
  LET Answered(v) == cancels' = (cancels \ {x}) \cup
                       IF x.heard = "unheard" THEN {} ELSE {[x EXCEPT !.verdict = v]}
  IN /\ x \in cancels /\ x.verdict = "none"
     /\ \/ /\ goal[x.goal] = "executing"
           /\ goal' = [goal EXCEPT ![x.goal] = "canceling"]
           /\ Answered("canceling")
        \/ /\ goal[x.goal] = "executing"
           /\ UNCHANGED goal
           /\ Answered("refused")
        \/ /\ goal[x.goal] # "executing"
           /\ UNCHANGED goal
           /\ Answered("finished")
     /\ UNCHANGED serverOnly

----------------------------------------------------------------------------
Handle(c) ==
  \/ \E k \in Kinds : Refuse(c, k) \/ CallDockService(c, k)
  \/ Navigate(c) \/ UndockRequest(c) \/ SetInitialPose(c)
  \/ Stop(c) \/ MapStop(c) \/ MotorDisable(c) \/ SetLidarPower(c)

\* A command.cancel frame.  Today's server sends one for set_initial_pose only.
CancelFrame(c) ==
  /\ kind[c] \in CancelKinds
  /\ CancelMap(c) \/ CancelPending(c) \/ CancelNavigation(c) \/ CancelUndock(c)

\* Callbacks that close a future the executor is waiting on.
Callback(c) ==
  \/ GoalResponseError(c) \/ GoalDeclined(c) \/ GoalSuperseded(c)
  \/ GoalAccepted(c) \/ OnResult(c)
  \/ UndockReplyError(c) \/ UndockDeclined(c) \/ UndockAccepted(c)
  \/ OnUndockResult(c)
  \/ MapResponse(c) \/ MapResult(c)
  \/ OnDockServiceResult(c) \/ OnLidarResult(c)

CancelStep(x) == AnswerCancel(x) \/ CancelReply(x)

Server(c) == Accept(c) \/ Decline(c) \/ GoalEnds(c)

Timers ==
  \/ \E context \in Contexts : BaseState(context)
  \/ \E ready \in {PathService, FALSE} : PollPath(ready)
  \/ OnNavigationPath
  \/ CheckUndockHealth
  \/ CheckMapConnection

Next ==
  \/ \E c \in Command : Handle(c) \/ CancelFrame(c) \/ Callback(c) \/ Server(c)
  \/ \E x \in cancels : CancelStep(x)
  \/ Timers

Spec == Init /\ [][Next]_vars

----------------------------------------------------------------------------
(* Properties                                                              *)

Answered(c) == result[c] # "none"
InFlight(c) == wait[c] \in {"response", "result"}

\* The executor never holds a navigation goal and an undock at once: _navigate
\* and _undock guard each other across the time a goal response is on its way,
\* so that _stop always knows which one to cancel.
OneMotionOwner == active.id = None \/ undock_active.id = None

\* Every command gets at most one ack and one result, and a refused command gets
\* no result, whichever of the cancel reply, the goal's end or a newer goal comes
\* first (_claim_stop, _claim_all_stops).
AnsweredOnce == doubled = {}

\* A stop that was acknowledged and not yet answered is waiting on the goal that
\* will answer it: no replacement, cancel reply or result drops it.
NoStopForgotten ==
  \A c \in Command : kind[c] = "stop" /\ ~Answered(c) =>
    \/ c \in active.stops /\ active.id # None
    \/ c \in undock_active.stops /\ undock_active.id # None

\* A stop is answered "succeeded" on behalf of a goal only when that goal is
\* over, as long as nobody else sent the goal a cancel whose reply is not heard
\* (such a cancel, from a motor disable, lets the stop's own be answered as if
\* the goal were over).
StopWaitsForItsGoal ==
  \A c \in Command :
    /\ kind[c] = "stop" /\ result[c] = "succeeded" /\ target[c] # None
    /\ "unheard" \notin asked[target[c]]
    => goal[target[c]] \in {"over", "declined"}

\* Motors off reaches every goal sent before it: once the executor has heard
\* that such a goal was accepted, a goal still executing has been asked to
\* cancel, even if it was only on its way when the motors were disabled.
DisableReachesEveryGoal ==
  \A c, g \in Command :
    /\ kind[c] = "motor_disable" /\ g \in earlier[c]
    /\ ack[g] = "accepted" /\ wait[g] = "result"
    /\ goal[g] = "executing"
    => asked[g] # {}

\* What stops and motors off promise about the goals they found on their way
\* holds once the goals' late answers are in (CommandExecutor._stop, _motor_disable).
StopsReachTheirGoals == StopWaitsForItsGoal /\ DisableReachesEveryGoal

\* A path shown as valid is the active goal's, in the context the goal was
\* accepted in, and of a goal nobody has asked to stop.
PathIsCurrent ==
  path # None =>
    /\ path = active.id /\ active.path_valid
    /\ ~active.path_blocked /\ ~active.cancel_requested
    /\ active.context = navigation_context

\* The undock owner is released only when the dock manager declined the goal or
\* the goal is over: silence, an error or the watchdog never release it.
UndockOwnerKept ==
  [][undock_active.id # None /\ undock_active'.id # undock_active.id
       => goal[undock_active.id] \in {"over", "declined"}]_vars

\* A map transaction that was told to cancel before its goal had a handle is
\* canceled as soon as it has one (stop, motor disable, a lost link and the
\* server's command.cancel all come through here).
MapCancelDelivered ==
  map_active.cancel /\ map_active.handle => asked[map_active.id] # {}

\* A LiDAR power command whose outcome is unknown keeps its barrier: nothing but
\* its own definitive reply releases _lidar_pending.
LidarUnknownHolds ==
  \A c \in Command : kind[c] = "set_lidar_power" /\ result[c] = "timeout"
                        => lidar.pending = c

\* protocol.md: "stop cancels any active navigation"; _stop: "say nothing about
\* the robot having stopped until it actually has".  Once a stop is reported as
\* succeeded, no goal sent before it moves the robot.
StopIsTrue ==
  \A c \in Command : kind[c] = "stop" /\ result[c] = "succeeded" =>
    \A g \in earlier[c] : goal[g] \notin Moving

\* _nav_pending stands for a destination whose response is on its way; _undock
\* and manual drive refuse while it is set.
NavPendingIsInFlight == nav_pending.id # None => wait[nav_pending.id] = "response"

----------------------------------------------------------------------------
(* Liveness.  The action servers answer what they are asked and end what    *)
(* they run; the executor's callbacks are delivered.                        *)

Fairness ==
  /\ \A c \in Command : WF_vars(Callback(c)) /\ WF_vars(Server(c))
  /\ \A g \in Command : WF_vars(\E x \in cancels : x.goal = g /\ CancelStep(x))

FairSpec == Spec /\ Fairness

\* Every stop is answered, unless the undock it waits on has an unknown outcome.
StopsAreAnswered ==
  \A c \in Command :
    kind[c] = "stop" ~> (Answered(c) \/ (c \in undock_active.stops /\ undock_active.uncertain))
=============================================================================
