--------------------------- MODULE CommandBroker ---------------------------
(***************************************************************************)
(* The dashboard server's CommandBroker and OperatorLease for one robot:   *)
(* browser command.request frames in, at most one forwarded frame each,    *)
(* robot replies and server timeouts out.                                  *)
(*                                                                         *)
(* The server is one asyncio loop.  A browser connection handles its       *)
(* frames one after another, so there is one request task per client, and  *)
(* the only points where others run are its awaits: the admission lock,    *)
(* the database lookup, the audit insert, each entry a reset retires, the  *)
(* socket send and the command.cancel send.  pc is where a task waits.     *)
(* Database statements take effect in the order they are issued.           *)
(* Manual drive (teleop_start, teleop_stop) is not part of this module;    *)
(* with no manual owner TeleopController.revoke changes nothing here.      *)
(***************************************************************************)
EXTENDS Naturals, Sequences

CONSTANTS
  Client,      \* browser connections
  ReadOnly,    \* the clients whose user lacks can_command
  User,        \* the user signed in on each client
  Id,          \* command_ids
  kind,        \* the command each id names; a replay carries the same one
  SeenMax,     \* how many ids _remember keeps (512 in the code)
  MaxRestarts, \* bound on server restarts
  None

Bypass      == {"stop", "motor_disable"}
Exempt      == Bypass \cup {"software_reset"}
Moving      == {"navigate_to_pose", "set_initial_pose", "undock"}
Uncertain   == {"set_lidar_power", "software_reset"}
LidarExempt == Exempt \cup {"motor_enable"}
AllKinds    == Moving \cup LidarExempt \cup Uncertain \cup {"dock_reset", "charge_release"}

ASSUME BrokerAssumption ==
  /\ None \notin Client \cup Id
  /\ ReadOnly \subseteq Client
  /\ DOMAIN User = Client
  /\ kind \in [Id -> AllKinds]
  /\ SeenMax \in Nat \ {0}
  /\ MaxRestarts \in Nat

VARIABLES
  pc,       \* where each client's request task waits
  request,  \* the command_id of the frame each task is handling
  bound,    \* tasks whose captured session still has its open socket
  lock,     \* the robot's admission lock: the task that holds it
  retiring, \* what is left of the list a software_reset walks
  seen,     \* self._seen, oldest first
  audit,    \* external: the command_audit row of each id
  active,   \* the keys of self.active
  entry,    \* the ActiveCommand of each id
  reset_pending, lidar_pending, lidar_recovery_required,
  lidar_state_fresh,  \* base_state arrived after lidar_state_after
  holder,    \* the client of the lease holder
  connected, \* clients whose socket is open
  departed,  \* clients whose cancel_for_client task has not run
  link,      \* whether the robot's session has a socket
  robot,     \* external: how far the robot is with each command
  cancels,   \* command.cancel frames sent
  restarts,
  sends,      \* history: times each id reached the robot, up to 2
  verdicts,   \* history: final verdicts the browsers heard, up to 2
  lidar_open  \* history: delivered LiDAR power commands with no final reply
              \* since the last power command that succeeded

taskVars  == <<pc, request, bound, lock, retiring>>
barrierVars == <<reset_pending, lidar_pending>>
entryVars == <<active, entry, barrierVars>>
lidarVars == <<lidar_recovery_required, lidar_state_fresh>>
clientVars == <<holder, connected, departed>>
robotVars == <<link, robot, cancels>>
histVars  == <<sends, verdicts, lidar_open>>
vars == <<taskVars, seen, audit, entryVars, lidarVars, clientVars,
          robotVars, restarts, histVars>>

----------------------------------------------------------------------------
InFlight == {"lookup", "audit", "retire", "send", "closing"}

Entry == [acked: BOOLEAN, uncertain: BOOLEAN, closing: BOOLEAN,
          timers: SUBSET {"ack", "result"}, initiator: Client \cup {None}]

\* Not in self.active: cancel_timers has run and nothing reads the entry.
NoEntry == [acked |-> FALSE, uncertain |-> FALSE, closing |-> FALSE,
            timers |-> {}, initiator |-> None]

TypeOK ==
  /\ pc \in [Client -> {"idle", "waiting"} \cup InFlight]
  /\ request \in [Client -> Id \cup {None}]
  /\ \A c \in Client : pc[c] # "idle" => request[c] \in Id
  /\ bound \subseteq Client
  /\ lock \in Client \cup {None}
  /\ retiring \subseteq Id
  /\ seen \in Seq(Id) /\ Len(seen) <= SeenMax
  /\ audit \in [Id -> {"none", "open", "rejected", "closed"}]
  /\ active \subseteq Id
  /\ entry \in [Id -> Entry]
  /\ reset_pending \in Id \cup {None}
  /\ lidar_pending \in Id \cup {None}
  /\ lidar_recovery_required \in BOOLEAN
  /\ lidar_state_fresh \in BOOLEAN
  /\ holder \in Client \cup {None}
  /\ connected \subseteq Client
  /\ departed \subseteq Client
  /\ link \in BOOLEAN
  /\ robot \in [Id -> {"none", "got", "acked", "done"}]
  /\ cancels \subseteq Id
  /\ restarts \in 0..MaxRestarts
  /\ sends \in [Id -> 0..2]
  /\ verdicts \in [Id -> 0..2]
  /\ lidar_open \subseteq Id

Init ==
  /\ pc = [c \in Client |-> "idle"]
  /\ request = [c \in Client |-> None]
  /\ bound = {} /\ lock = None /\ retiring = {}
  /\ seen = <<>>
  /\ audit = [i \in Id |-> "none"]
  /\ active = {} /\ entry = [i \in Id |-> NoEntry]
  /\ reset_pending = None /\ lidar_pending = None
  /\ lidar_recovery_required = FALSE /\ lidar_state_fresh = TRUE
  /\ holder = None /\ connected = Client /\ departed = {}
  /\ link = FALSE /\ robot = [i \in Id |-> "none"] /\ cancels = {}
  /\ restarts = 0
  /\ sends = [i \in Id |-> 0] /\ verdicts = [i \in Id |-> 0] /\ lidar_open = {}

----------------------------------------------------------------------------
(* What the handlers share.                                                *)

What(c) == kind[request[c]]

\* The handler returns: the task is idle and `async with lock` is over.
Return(c) ==
  /\ pc' = [pc EXCEPT ![c] = "idle"]
  /\ request' = [request EXCEPT ![c] = None]
  /\ bound' = bound \ {c}
  /\ lock' = IF lock = c THEN None ELSE lock

Once(f, i) == [f EXCEPT ![i] = IF @ = 2 THEN 2 ELSE @ + 1]

\* UPDATE command_audit: complete_command_audit.
Completed(i) == [audit EXCEPT ![i] = "closed"]

\* Mutant: the reset barrier outlives its entry.
FinishKeepsReset(i) ==
  IF i \in active
    THEN /\ active' = active \ {i}
         /\ entry' = [entry EXCEPT ![i] = NoEntry]
         /\ lidar_pending' = IF kind[i] = "set_lidar_power" THEN None ELSE lidar_pending
         /\ UNCHANGED reset_pending
    ELSE UNCHANGED entryVars

\* _finish up to its first await: pop the entry, its barrier and its timers.
\* An entry that is already gone is left alone.
Finish(i) ==
  IF i \in active
    THEN /\ active' = active \ {i}
         /\ entry' = [entry EXCEPT ![i] = NoEntry]
         /\ reset_pending' = IF kind[i] = "software_reset" THEN None ELSE reset_pending
         /\ lidar_pending' = IF kind[i] = "set_lidar_power" THEN None ELSE lidar_pending
    ELSE UNCHANGED entryVars

\* _mark_uncertain: the entry stays active and stops being waited for.
MarkUncertain(i, timers) ==
  IF i \in active
    THEN /\ entry' = [entry EXCEPT ![i].uncertain = TRUE, ![i].timers = timers]
         /\ audit' = Completed(i)
         /\ UNCHANGED <<active, barrierVars>>
    ELSE UNCHANGED <<entryVars, audit>>

\* _cancel_map: a command.cancel frame, if the robot has a socket.
CancelMap(S) == cancels' = IF link THEN cancels \cup S ELSE cancels

MapEntries == {i \in active : kind[i] = "set_initial_pose"}

\* _reject_audited: INSERT OR IGNORE of a rejected row; the refusing ack is left out.
_reject_audited(i) == [audit EXCEPT ![i] = IF @ = "none" THEN "rejected" ELSE @]

Refuse(c) == audit' = _reject_audited(request[c]) /\ Return(c)

\* Mutant: nothing is evicted.
RememberAll(i) ==
  seen' = IF \E n \in 1..Len(seen) : seen[n] = i THEN seen ELSE Append(seen, i)

\* _remember: an id already there keeps its place; the oldest one goes.
Remember(i) ==
  LET grown == IF \E n \in 1..Len(seen) : seen[n] = i THEN seen ELSE Append(seen, i)
  IN  seen' = IF Len(grown) > SeenMax THEN Tail(grown) ELSE grown

----------------------------------------------------------------------------
(* handle_browser_request.                                                 *)

\* OperatorLease.acquire and release_client: the lease is a client's.
acquire(c) == c
release_client(c) == IF holder = c THEN None ELSE holder

\* The gateway decoded a command.request frame and calls the broker; a frame it
\* drops (over the cap, a tuning frame, not JSON) is one that never arrives.
Arrive(c) ==
  /\ pc[c] = "idle" /\ c \in connected
  /\ \E i \in Id : request' = [request EXCEPT ![c] = i]
  /\ pc' = [pc EXCEPT ![c] = "waiting"]
  /\ UNCHANGED <<bound, lock, retiring, seen, audit, entryVars, lidarVars, clientVars,
                 robotVars, restarts, histVars>>

\* A command.request whose fields do not decode is refused by the gateway, with
\* a row for its id: no lock, no lease, and nothing the broker remembers.
RejectInvalid(c) ==
  /\ pc[c] = "idle" /\ c \in connected
  /\ \E i \in Id : audit' = _reject_audited(i)
  /\ UNCHANGED <<taskVars, seen, entryVars, lidarVars, clientVars, robotVars,
                 restarts, histVars>>

\* Mutant: no admission lock.
TurnAlways(c) == request[c] \in Id

\* `async with lock`, which stop and motor_disable do without.
Turn(c) == What(c) \in Bypass \/ lock = None

\* A new reset may go past one whose outcome is unknown.
ExplicitRetry(c) ==
  /\ What(c) = "software_reset"
  /\ reset_pending \in active /\ entry[reset_pending].uncertain

\* Mutant: a pending reset holds nothing back.
BarredByLidar(c) == lidar_pending # None /\ What(c) \notin LidarExempt

\* The barriers a pending LiDAR power command and a pending reset put up.
Barred(c) ==
  \/ lidar_pending # None /\ What(c) \notin LidarExempt
  \/ reset_pending # None /\ What(c) \notin Bypass /\ ~ExplicitRetry(c)

\* OperatorLease.can_command.
LeaseFree(c) == \A h \in Client : holder = h => User[h] = User[c]

\* A read-only user, a barrier, the rate limit (any non-emergency command may
\* exceed it) or another operator's lease.
RefuseAdmission(c) ==
  /\ pc[c] = "waiting" /\ Turn(c)
  /\ \/ c \in ReadOnly
     \/ Barred(c)
     \/ What(c) \notin Exempt
  /\ Refuse(c)
  /\ UNCHANGED <<retiring, seen, entryVars, lidarVars, clientVars,
                 robotVars, restarts, histVars>>

\* Everything before the first await: the lease is taken, then the in-memory
\* duplicate check runs.
Admit(c) ==
  /\ pc[c] = "waiting" /\ Turn(c)
  /\ c \notin ReadOnly
  /\ ~Barred(c)
  /\ \E takeover \in BOOLEAN : What(c) \in Exempt \/ LeaseFree(c) \/ takeover
  /\ holder' = IF What(c) \in Exempt THEN holder ELSE acquire(c)
  /\ IF \E n \in 1..Len(seen) : seen[n] = request[c]
       THEN Refuse(c)
       ELSE /\ pc' = [pc EXCEPT ![c] = "lookup"]
            /\ lock' = IF What(c) \in Bypass THEN lock ELSE c
            /\ UNCHANGED <<request, bound, audit>>
  /\ UNCHANGED <<retiring, seen, entryVars, lidarVars, connected, departed,
                 robotVars, restarts, histVars>>

\* Mutant: no database lookup.
RecordedNever(i) == i \notin Id

\* command_recorded: every audited attempt left a row, before a restart too.
Recorded(i) == audit[i] # "none"

\* The parts of _validate_robot_state that read the broker's own state.
Permitted(k) ==
  /\ k \in Moving \cup {"charge_release"} => ~lidar_recovery_required
  /\ k \notin LidarExempt => lidar_state_fresh
  /\ k \in {"set_lidar_power", "dock_reset", "undock"} =>
       \A i \in active : kind[i] \notin Moving

\* The database has answered and every check passed.
Validate(c) ==
  /\ pc[c] = "lookup" /\ ~Recorded(request[c])
  /\ Remember(request[c])
  /\ link /\ Permitted(What(c))
  /\ bound' = bound \cup {c}
  /\ pc' = [pc EXCEPT ![c] = "audit"]
  /\ UNCHANGED <<request, lock, retiring, audit, entryVars, lidarVars, clientVars,
                 robotVars, restarts, histVars>>

\* A duplicate; or the goal, the map, the connection or the telemetry refuses,
\* which it may do at any time.
RefuseValidation(c) ==
  /\ pc[c] = "lookup"
  /\ IF Recorded(request[c]) THEN seen' = seen ELSE Remember(request[c])
  /\ Refuse(c)
  /\ UNCHANGED <<retiring, entryVars, lidarVars, clientVars,
                 robotVars, restarts, histVars>>

\* The entry, its barrier and both timers, up to the send.
Register(c) ==
  LET i == request[c] IN
  /\ active' = active \cup {i}
  /\ entry' = [entry EXCEPT ![i] = [NoEntry EXCEPT !.timers = {"ack", "result"},
                                                   !.initiator = c]]
  /\ reset_pending' = IF What(c) = "software_reset" THEN i ELSE reset_pending
  /\ lidar_pending' = IF What(c) = "set_lidar_power" THEN i ELSE lidar_pending
  /\ pc' = [pc EXCEPT ![c] = "send"]

\* add_command_audit returned; a reset now walks a copy of self.active.
Audit(c) ==
  /\ pc[c] = "audit"
  /\ audit' = [audit EXCEPT ![request[c]] = IF @ = "none" THEN "open" ELSE @]
  /\ IF What(c) = "software_reset" /\ active # {}
       THEN /\ retiring' = active
            /\ pc' = [pc EXCEPT ![c] = "retire"]
            /\ UNCHANGED entryVars
       ELSE Register(c) /\ UNCHANGED retiring
  /\ UNCHANGED <<request, bound, lock, seen, lidarVars, clientVars, robotVars,
                 restarts, histVars>>

\* Mutant: a superseded power command needs no recovery.
RetireForgetsLidar(c) ==
  /\ pc[c] = "retire"
  /\ \E i \in retiring :
       /\ retiring' = retiring \ {i}
       /\ Finish(i)
       /\ audit' = IF i \in active THEN Completed(i) ELSE audit
  /\ UNCHANGED <<pc, request, bound, lock, seen, lidarVars, clientVars,
                 robotVars, restarts, histVars>>

\* One entry superseded by the reset; no command.result is published for it.
Retire(c) ==
  /\ pc[c] = "retire"
  /\ \E i \in retiring :
       /\ retiring' = retiring \ {i}
       /\ Finish(i)
       /\ audit' = IF i \in active THEN Completed(i) ELSE audit
       /\ lidar_recovery_required' =
            (lidar_recovery_required \/ kind[i] = "set_lidar_power")
  /\ UNCHANGED <<pc, request, bound, lock, seen, lidar_state_fresh, clientVars,
                 robotVars, restarts, histVars>>

\* The list is walked: the reset itself is registered.
Retired(c) ==
  /\ pc[c] = "retire" /\ retiring = {}
  /\ Register(c)
  /\ UNCHANGED <<request, bound, lock, retiring, seen, audit, lidarVars,
                 clientVars, robotVars, restarts, histVars>>

----------------------------------------------------------------------------
(* The send.                                                               *)

\* The frame is on the robot's side.
Deliver(i) ==
  /\ robot' = [robot EXCEPT ![i] = IF @ = "none" THEN "got" ELSE @]
  /\ sends' = Once(sends, i)
  /\ lidar_open' = IF kind[i] = "set_lidar_power" THEN lidar_open \cup {i} ELSE lidar_open

\* send_text returned.
Send(c) ==
  /\ pc[c] = "send" /\ c \in bound
  /\ Deliver(request[c])
  /\ Return(c)
  /\ UNCHANGED <<retiring, seen, audit, entryVars, lidarVars, clientVars,
                 link, cancels, restarts, verdicts>>

\* send_text raised: the captured session lost its socket, or the socket died
\* under the send, in which case the robot may have the frame all the same.
SendFails(c) ==
  LET i == request[c] IN
  /\ pc[c] = "send"
  /\ \/ c \in bound /\ Deliver(i)
     \/ UNCHANGED <<robot, sends, lidar_open>>
  /\ IF What(c) \in Uncertain
       THEN /\ MarkUncertain(i, entry[i].timers)
            /\ Return(c)
            /\ UNCHANGED <<cancels, verdicts>>
       ELSE IF i \notin active
       THEN /\ Return(c)
            /\ UNCHANGED <<entryVars, audit, cancels, verdicts>>
       ELSE IF What(c) = "set_initial_pose"
       THEN /\ CancelMap({i})
            /\ pc' = [pc EXCEPT ![c] = "closing"]
            /\ UNCHANGED <<request, bound, lock, entryVars, audit, verdicts>>
       ELSE /\ Finish(i) /\ audit' = Completed(i)
            /\ verdicts' = Once(verdicts, i)
            /\ Return(c)
            /\ UNCHANGED cancels
  /\ UNCHANGED <<retiring, seen, lidarVars, clientVars, link, restarts>>

\* _close_out after the await in _cancel_map: the result is published without
\* looking at self.active again.
CloseOutMap(c) ==
  LET i == request[c] IN
  /\ pc[c] = "closing"
  /\ verdicts' = Once(verdicts, i)
  /\ Finish(i) /\ audit' = IF i \in active THEN Completed(i) ELSE audit
  /\ Return(c)
  /\ UNCHANGED <<retiring, seen, lidarVars, clientVars, robotVars, restarts,
                 sends, lidar_open>>

----------------------------------------------------------------------------
(* The two timers of an entry.                                             *)

\* Mutant: the result is published and the entry stays.
CloseOutByTimerStays(i) ==
  verdicts' = Once(verdicts, i) /\ audit' = Completed(i) /\ UNCHANGED entryVars

\* _close_out run by a timer.  _finish cancels the entry's timers, this one
\* among them, so its next await raises CancelledError: the audit update may or
\* may not have reached the database, and no event is emitted.
CloseOutByTimer(i) ==
  /\ verdicts' = Once(verdicts, i)
  /\ Finish(i)
  /\ audit' \in {audit, Completed(i)}

Expire(i, timer) ==
  LET left == entry[i].timers \ {timer} IN
  /\ IF kind[i] \in Uncertain
       THEN MarkUncertain(i, left) /\ UNCHANGED <<cancels, verdicts>>
       ELSE IF kind[i] = "set_initial_pose"
       THEN /\ CancelMap({i})
            /\ entry' = [entry EXCEPT ![i].closing = TRUE, ![i].timers = left]
            /\ UNCHANGED <<active, barrierVars, audit, verdicts>>
       ELSE CloseOutByTimer(i) /\ UNCHANGED cancels
  /\ UNCHANGED <<taskVars, seen, lidarVars, clientVars, link, robot, restarts,
                 sends, lidar_open>>

\* _ack_timeout: once acked the timer does nothing when it fires.
AckTimeout(i) ==
  /\ i \in active /\ "ack" \in entry[i].timers /\ ~entry[i].acked
  /\ Expire(i, "ack")

\* Mutant: the ack cancels both timers.
ResultTimeoutUnacked(i) ==
  /\ i \in active /\ "result" \in entry[i].timers /\ ~entry[i].closing
  /\ "ack" \notin entry[i].timers
  /\ Expire(i, "result")

\* _result_timeout, always the later of the two.
ResultTimeout(i) ==
  /\ i \in active /\ "result" \in entry[i].timers /\ ~entry[i].closing
  /\ entry[i].acked \/ "ack" \notin entry[i].timers
  /\ Expire(i, "result")

\* The timer's command.cancel is sent.  Closing the entry meanwhile cancels it.
TimerClosesMap(i) ==
  /\ i \in active /\ entry[i].closing
  /\ CloseOutByTimer(i)
  /\ UNCHANGED <<taskVars, seen, lidarVars, clientVars, robotVars, restarts,
                 sends, lidar_open>>

----------------------------------------------------------------------------
(* handle_robot_reply.  A reply to a command that is not active is dropped. *)

RobotAck(i, accepted) ==
  /\ link /\ robot[i] = "got"
  /\ robot' = [robot EXCEPT ![i] = IF accepted THEN "acked" ELSE "done"]
  /\ IF i \in active /\ accepted
       THEN /\ entry' = [entry EXCEPT ![i].acked = TRUE]
            /\ UNCHANGED <<active, barrierVars, audit, verdicts, lidar_open>>
       ELSE IF i \in active
       THEN /\ verdicts' = Once(verdicts, i)
            /\ Finish(i) /\ audit' = Completed(i)
            /\ lidar_open' = lidar_open \ {i}
       ELSE UNCHANGED <<entryVars, audit, verdicts, lidar_open>>
  /\ UNCHANGED <<taskVars, seen, lidarVars, clientVars, link, cancels, restarts,
                 sends>>

Outcomes == {"succeeded", "failed", "timeout"}

\* A timeout of a reset or a power command is not final: the robot may still
\* report another result.
Final(i, outcome) == kind[i] \notin Uncertain \/ outcome # "timeout"

ApplyLidarResult(i, outcome) ==
  IF kind[i] = "set_lidar_power"
    THEN /\ lidar_state_fresh' = FALSE
         /\ lidar_recovery_required' = (outcome # "succeeded")
         /\ lidar_open' = IF outcome = "succeeded" THEN {} ELSE lidar_open \ {i}
    ELSE UNCHANGED <<lidarVars, lidar_open>>

RobotResult(i, outcome) ==
  /\ link /\ robot[i] \in {"got", "acked"}
  /\ robot' = [robot EXCEPT ![i] = IF Final(i, outcome) THEN "done" ELSE "acked"]
  /\ IF i \notin active
       THEN UNCHANGED <<entryVars, audit, lidarVars, lidar_open, verdicts>>
       ELSE IF Final(i, outcome)
       THEN /\ verdicts' = Once(verdicts, i)
            /\ ApplyLidarResult(i, outcome)
            /\ Finish(i) /\ audit' = Completed(i)
       ELSE /\ MarkUncertain(i, entry[i].timers)
            /\ UNCHANGED <<lidarVars, lidar_open, verdicts>>
  /\ UNCHANGED <<taskVars, seen, clientVars, link, cancels, restarts, sends>>

\* The robot's last reply is lost with a connection or in a full queue.  (A
\* lost ack is a result that comes without one.)
RobotReplyLost(i) ==
  /\ robot[i] \in {"got", "acked"}
  /\ robot' = [robot EXCEPT ![i] = "done"]
  /\ UNCHANGED <<taskVars, seen, audit, entryVars, lidarVars, clientVars, link,
                 cancels, restarts, histVars>>

----------------------------------------------------------------------------
(* Connections, the database and the process.                              *)

\* A robot socket, possibly superseding one that is still open: the sessions
\* captured before it are of no use any more.
RobotConnects ==
  /\ link' = TRUE /\ bound' = {}
  /\ UNCHANGED <<pc, request, lock, retiring, seen, audit, entryVars, lidarVars,
                 clientVars, robot, cancels, restarts, histVars>>

RobotDisconnects ==
  /\ link /\ link' = FALSE /\ bound' = {}
  /\ UNCHANGED <<pc, request, lock, retiring, seen, audit, entryVars, lidarVars,
                 clientVars, robot, cancels, restarts, histVars>>

\* A telemetry.base_state frame after a power command.
BaseState ==
  /\ link /\ ~lidar_state_fresh /\ lidar_state_fresh' = TRUE
  /\ UNCHANGED <<taskVars, seen, audit, entryVars, lidar_recovery_required,
                 clientVars, robotVars, restarts, histVars>>

\* Mutant: the lease is released by user, not by connection.
DepartByUser(c) ==
  /\ connected' = connected \ {c}
  /\ departed' = departed \cup {c}
  /\ holder' = IF \E h \in Client : holder = h /\ User[h] = User[c] THEN None ELSE holder

\* browser_disconnected: release_client, and a cancel_for_client task.
Depart(c) ==
  /\ connected' = connected \ {c}
  /\ departed' = departed \cup {c}
  /\ holder' = release_client(c)

\* A client's socket is found closed only between two of its frames.
Disconnect(c) ==
  /\ c \in connected /\ pc[c] = "idle"
  /\ Depart(c)
  /\ UNCHANGED <<taskVars, seen, audit, entryVars, lidarVars, robotVars, restarts,
                 histVars>>

\* cancel_for_client: the map transactions this client started.
CancelForClient(c) ==
  /\ c \in departed /\ departed' = departed \ {c}
  /\ CancelMap({i \in MapEntries : entry[i].initiator = c})
  /\ UNCHANGED <<taskVars, seen, audit, entryVars, lidarVars, holder, connected,
                 link, robot, restarts, histVars>>

\* A database call raises: the exception ends the handler and the connection.
DatabaseFails(c) ==
  /\ pc[c] \in {"lookup", "audit", "retire"}
  /\ retiring' = IF pc[c] = "retire" THEN {} ELSE retiring
  /\ Return(c) /\ Depart(c)
  /\ UNCHANGED <<seen, audit, entryVars, lidarVars, robotVars, restarts, histVars>>

\* The server goes down, with or without CommandBroker.shutdown, and comes back
\* with nothing but its database.
Restart ==
  /\ restarts < MaxRestarts /\ restarts' = restarts + 1
  /\ cancels' = cancels \/ CancelMap(MapEntries)
  /\ pc' = [c \in Client |-> "idle"]
  /\ request' = [c \in Client |-> None]
  /\ bound' = {} /\ lock' = None /\ retiring' = {}
  /\ seen' = <<>>
  /\ active' = {} /\ entry' = [i \in Id |-> NoEntry]
  /\ reset_pending' = None /\ lidar_pending' = None
  /\ lidar_recovery_required' = FALSE /\ lidar_state_fresh' = TRUE
  /\ holder' = None /\ departed' = {}
  /\ link' = FALSE
  /\ UNCHANGED <<audit, connected, robot, histVars>>

----------------------------------------------------------------------------
Handle(c) ==
  \/ Arrive(c) \/ RejectInvalid(c) \/ RefuseAdmission(c) \/ Admit(c) \/ RefuseValidation(c)
  \/ Validate(c) \/ Audit(c) \/ Retire(c) \/ Retired(c)
  \/ Send(c) \/ SendFails(c) \/ CloseOutMap(c)

Timer(i) == AckTimeout(i) \/ ResultTimeout(i) \/ TimerClosesMap(i)

RobotReplies(i) ==
  \/ \E accepted \in BOOLEAN : RobotAck(i, accepted)
  \/ \E outcome \in Outcomes : RobotResult(i, outcome)
  \/ RobotReplyLost(i)

Connections ==
  \/ RobotConnects \/ RobotDisconnects \/ BaseState \/ Restart
  \/ \E c \in Client : Disconnect(c) \/ CancelForClient(c) \/ DatabaseFails(c)

Next ==
  \/ \E c \in Client : Handle(c)
  \/ \E i \in Id : Timer(i) \/ RobotReplies(i)
  \/ Connections

Spec == Init /\ [][Next]_vars

\* asyncio wakes a sleeping timer task.
FairSpec == Spec /\ \A i \in Id : WF_vars(Timer(i))

----------------------------------------------------------------------------
(* Properties.                                                             *)

\* A command other than a stop or a motor disable reaches the robot at most
\* once: whatever is replayed on whichever socket, after _seen has forgotten it
\* and after a restart, because the lookup, the audit row and the send are under
\* one lock.
ForwardedOnce == \A i \in Id : kind[i] \notin Bypass => sends[i] <= 1

\* While a reset is pending its own entry holds the barrier, and the robot has
\* been sent nothing else but stops and motor disables that is still open.
ResetBarrier ==
  /\ reset_pending # None =>
       reset_pending \in active /\ kind[reset_pending] = "software_reset"
  /\ \A i \in active : kind[i] = "software_reset" =>
       /\ reset_pending = i
       /\ \A j \in active : j = i \/ kind[j] \in Bypass

\* While a power command is pending its own entry holds the barrier and no
\* movement is open; a movement on its way to the robot has neither a pending
\* power command nor an unresolved one against it.
LidarBarrier ==
  /\ lidar_pending # None =>
       lidar_pending \in active /\ kind[lidar_pending] = "set_lidar_power"
  /\ \A i \in active : kind[i] = "set_lidar_power" =>
       lidar_pending = i /\ \A j \in active : kind[j] \notin Moving
  /\ \A c \in Client : pc[c] \in {"audit", "send"} /\ What(c) \in Moving =>
       lidar_pending = None /\ ~lidar_recovery_required

\* A power command the robot got and never finally answered is not forgotten:
\* its barrier stands, or recovery is required, through timeouts, reconnects,
\* database failures and resets.
LidarOutcomeHeld ==
  restarts = 0 /\ lidar_open # {} => lidar_pending # None \/ lidar_recovery_required

\* The barriers of _handle_browser_request and _finish hold together: nothing overtakes a
\* reset, nothing moves under a changing scan, and a scan whose state is unknown
\* is not taken for settled.
Barriers == ResetBarrier /\ LidarBarrier /\ LidarOutcomeHeld

\* From its admission until its handler returns, a command that needs the lease
\* runs with the lease in its own user's hands: no takeover and no other tab's
\* disconnect can slip in between the check and the send.
HolderSends ==
  \A c \in Client : pc[c] \in InFlight /\ What(c) \notin Exempt =>
    holder # None /\ User[holder] = User[c]

\* The browsers hear at most one final verdict on a command that takes the lock:
\* late replies, the timers, a failed send and a reset do not contradict each
\* other.  A set_initial_pose is left out: CloseOutMap may repeat its verdict.
OneVerdict ==
  \A i \in Id : kind[i] \notin Bypass \cup {"set_initial_pose"} => verdicts[i] <= 1

\* Exactly once, seen from both ends: whatever is resent, replayed after a
\* restart or answered late, the robot is asked once and the browsers are told
\* one outcome (handle_ui_command, _close_out).
OnceAtBothEnds == ForwardedOnce /\ OneVerdict

\* A forwarded command is not left open for ever: its timers close it or mark
\* its outcome unknown, whatever the robot does.
NeverLeftOpen ==
  \A i \in Id : [](i \in active => <>(i \notin active \/ entry[i].uncertain))

(* What a test of the repository expects and the code does not guarantee.  *)

\* A command the browsers were told the end of has its outcome in the audit.
VerdictAudited ==
  \A i \in Id : verdicts[i] > 0 /\ i \notin active => audit[i] = "closed"
=============================================================================
