------------------------ MODULE CommandBrokerProofs ------------------------
(***************************************************************************)
(* Proofs about the dashboard server's command broker, for any number of   *)
(* browser connections, users, commands and restarts: a command is sent    *)
(* and ended once, runs under its own operator's lease, and the barriers   *)
(* of a reset and of a LiDAR power command hold; and what is open can end. *)
(*                                                                         *)
(* Everything rests on the admission lock (Locked): of the tasks that need *)
(* it, one at a time is anywhere between its admission and its return.     *)
(***************************************************************************)
EXTENDS CommandBroker, SequenceTheorems, TLAPS

\* c has been admitted under the lock, and is there.
Under(c, where) == pc[c] \in where /\ What(c) \notin Bypass

\* The lock is held from the admission to the return.
Locked == \A c \in Client : Under(c, InFlight) => lock = c

\* Where a task is fits its command.
Places ==
  \A c \in Client :
    /\ pc[c] = "retire" => What(c) = "software_reset"
    /\ pc[c] = "closing" => What(c) = "set_initial_pose"

\* HolderSends, connection by connection.
Leased == \A c \in Client : pc[c] \in InFlight /\ What(c) \notin Exempt => holder = c

\* Nobody but its sender has done anything with command i.
Fresh(i) == sends[i] = 0 /\ verdicts[i] = 0 /\ i \notin active

\* A row is written before the send, and none is written twice.
OnceSent ==
  /\ \A i \in Id : robot[i] # "none" => sends[i] # 0
  /\ \A i \in Id : kind[i] \notin Bypass => sends[i] <= 1 /\ (audit[i] = "none" => Fresh(i))
  /\ \A c \in Client :
       /\ Under(c, {"audit", "retire"}) => Fresh(request[c])
       /\ Under(c, {"retire", "send", "closing"}) => audit[request[c]] # "none"
       /\ Under(c, {"send"}) => sends[request[c]] = 0

\* An open command has no verdict, a closed one has one or none.
OnceTold ==
  \A i \in Id : kind[i] \notin Bypass \cup {"set_initial_pose"} =>
    verdicts[i] <= 1 /\ (i \in active => verdicts[i] = 0)

\* No other command passes a pending reset, and a reset that is about to be
\* sent has retired all that was open.
NotOvertaken ==
  \A c \in Client :
    /\ Under(c, {"lookup", "audit", "retire"}) /\ What(c) # "software_reset" => reset_pending = None
    /\ pc[c] = "retire" => \A i \in active : i \in retiring \/ kind[i] \in Bypass

\* Nor a pending power command; and a power command passes no movement.
NotMoved ==
  \A c \in Client :
    /\ pc[c] \in {"lookup", "audit"} /\ What(c) \notin LidarExempt => lidar_pending = None
    /\ pc[c] = "audit" /\ What(c) = "set_lidar_power" => \A i \in active : kind[i] \notin Moving
    /\ pc[c] = "send" /\ What(c) = "set_lidar_power" => request[c] \in active

\* Of the power commands still open at the robot, one at most is pending, and
\* the others ask for recovery.
LidarKnown == restarts = 0 => lidar_recovery_required \/ lidar_open \subseteq {lidar_pending}

\* Only a map command waits for its own cancel to be sent.
MapsClose == \A i \in active : entry[i].closing => kind[i] = "set_initial_pose"

IInv ==
  /\ TypeOK /\ Locked /\ Places /\ Leased /\ OnceSent /\ OnceTold
  /\ NotOvertaken /\ ResetBarrier /\ NotMoved /\ LidarBarrier /\ LidarKnown /\ MapsClose
----------------------------------------------------------------------------
(* The parts of the invariant.                                             *)

TaskTypes ==
  /\ pc \in [Client -> {"idle", "waiting"} \cup InFlight]
  /\ request \in [Client -> Id \cup {None}]
  /\ \A c \in Client : pc[c] # "idle" => request[c] \in Id
  /\ bound \subseteq Client /\ lock \in Client \cup {None} /\ retiring \subseteq Id

EntryTypes ==
  /\ active \subseteq Id /\ entry \in [Id -> Entry]
  /\ reset_pending \in Id \cup {None} /\ lidar_pending \in Id \cup {None}

SeenTypes == seen \in Seq(Id) /\ Len(seen) <= SeenMax

OtherTypes ==
  /\ audit \in [Id -> {"none", "open", "rejected", "closed"}]
  /\ lidar_recovery_required \in BOOLEAN /\ lidar_state_fresh \in BOOLEAN
  /\ holder \in Client \cup {None} /\ connected \subseteq Client /\ departed \subseteq Client
  /\ link \in BOOLEAN /\ robot \in [Id -> {"none", "got", "acked", "done"}] /\ cancels \subseteq Id
  /\ restarts \in 0 .. MaxRestarts
  /\ sends \in [Id -> 0 .. 2] /\ verdicts \in [Id -> 0 .. 2] /\ lidar_open \subseteq Id

LEMMA Parts ==
  ASSUME IInv
  PROVE  /\ TaskTypes /\ EntryTypes /\ SeenTypes /\ OtherTypes
         /\ Locked /\ Places /\ Leased /\ OnceSent /\ OnceTold
         /\ NotOvertaken /\ ResetBarrier /\ NotMoved /\ LidarBarrier /\ LidarKnown
         /\ MapsClose
BY DEF IInv, TypeOK, TaskTypes, EntryTypes, SeenTypes, OtherTypes

\* The constants, as the proofs use them.
LEMMA Constants ==
  /\ None \notin Client /\ None \notin Id /\ kind \in [Id -> AllKinds]
  /\ SeenMax \in Nat \ {0} /\ MaxRestarts \in Nat
BY BrokerAssumption

----------------------------------------------------------------------------
(* The steps, as the invariant sees them.                                  *)

\* Neither a task, nor a command, nor a lease.
Quiet ==
  /\ bound' \subseteq bound
  /\ UNCHANGED <<pc, request, lock, retiring, audit, active, reset_pending, lidar_pending,
                 lidar_recovery_required, holder, robot, restarts, sends, verdicts, lidar_open>>

\* A task that ends before its command was registered.
Refused(c) ==
  /\ pc[c] \in {"idle", "waiting", "lookup"} /\ pc' = [pc EXCEPT ![c] = "idle"]
  /\ lock' \in {lock, None} /\ (lock # c => lock' = lock) /\ bound' \subseteq bound
  /\ request' \in {request, [request EXCEPT ![c] = None]}
  /\ \A i \in Id : audit'[i] = "none" => audit[i] = "none"
  /\ UNCHANGED <<retiring, active, reset_pending, lidar_pending, lidar_recovery_required, holder,
                 robot, restarts, sends, verdicts, lidar_open>>

\* What a timer or the robot does to command i: it stays open, or it ends.
Ends(i) ==
  /\ i \in active
  /\ active' = active \ {i}
  /\ reset_pending' = IF kind[i] = "software_reset" THEN None ELSE reset_pending
  /\ lidar_pending' = IF kind[i] = "set_lidar_power" THEN None ELSE lidar_pending
  /\ verdicts' = Once(verdicts, i)
  /\ sends[i] # 0 \/ kind[i] \notin Uncertain
  /\ lidar_open' \subseteq lidar_open
  /\ kind[i] # "set_lidar_power" => UNCHANGED lidar_recovery_required
  /\ kind[i] = "set_lidar_power" =>
       \/ UNCHANGED lidar_recovery_required /\ lidar_open' = lidar_open \ {i}
       \/ lidar_recovery_required' \/ lidar_open' = {}

Settled(i) ==
  /\ UNCHANGED <<pc, request, bound, lock, retiring, holder, restarts, sends>>
  /\ \A j \in Id : /\ robot'[j] = "none" <=> robot[j] = "none"
                   /\ audit'[j] = "none" => audit[j] = "none"
  /\ \/ UNCHANGED <<active, reset_pending, lidar_pending, lidar_recovery_required, verdicts, lidar_open>>
     \/ Ends(i)

LEMMA TimerIs ==
  ASSUME IInv, NEW i \in Id, Timer(i)
  PROVE  Settled(i)
<1>0. EntryTypes /\ OtherTypes /\ MapsClose
  BY Parts
<1>1. ASSUME NEW left, Expire(i, left), i \in active PROVE Settled(i)
  <2>1. /\ UNCHANGED <<pc, request, bound, lock, retiring, holder, restarts, sends, robot,
                       lidar_recovery_required, lidar_open>>
        /\ \A j \in Id : audit'[j] = "none" => audit[j] = "none"
    BY <1>0, <1>1 DEF Expire, MarkUncertain, CloseOutByTimer, Completed, OtherTypes, taskVars, lidarVars, clientVars
  <2>2. CASE kind[i] \in Uncertain \cup {"set_initial_pose"}
    BY <1>1, <2>1, <2>2 DEF Expire, MarkUncertain, Uncertain, Settled, entryVars, barrierVars
  <2>3. CASE kind[i] \notin Uncertain \cup {"set_initial_pose"}
    BY <1>1, <2>1, <2>3 DEF Expire, CloseOutByTimer, Finish, Uncertain, Settled, Ends
  <2> QED BY <2>2, <2>3
<1>2. CASE AckTimeout(i)
  BY <1>1, <1>2 DEF AckTimeout
<1>3. CASE ResultTimeout(i)
  BY <1>1, <1>3 DEF ResultTimeout
<1>4. CASE TimerClosesMap(i)
  BY <1>0, <1>4 DEF TimerClosesMap, CloseOutByTimer, Finish, Completed, Settled, Ends, EntryTypes, OtherTypes,
    MapsClose, Uncertain, taskVars, lidarVars, clientVars, robotVars
<1> QED BY <1>2, <1>3, <1>4 DEF Timer

LEMMA ReplyIs ==
  ASSUME IInv, NEW i \in Id, RobotReplies(i)
  PROVE  Settled(i)
<1>0. EntryTypes /\ OtherTypes /\ (robot[i] # "none" => sends[i] # 0)
  BY Parts DEF OnceSent
<1>1. ASSUME NEW accepted \in BOOLEAN, RobotAck(i, accepted) PROVE Settled(i)
  BY <1>0, <1>1 DEF RobotAck, Finish, Completed, Settled, Ends, EntryTypes, OtherTypes,
    taskVars, entryVars, barrierVars, lidarVars, clientVars
<1>2. ASSUME NEW outcome \in Outcomes, RobotResult(i, outcome) PROVE Settled(i)
  <2>1. /\ UNCHANGED <<pc, request, bound, lock, retiring, holder, restarts, sends>>
        /\ \A j \in Id : robot'[j] = "none" <=> robot[j] = "none"
    BY <1>0, <1>2 DEF RobotResult, OtherTypes, taskVars, clientVars
  <2>2. \A j \in Id : audit'[j] = "none" => audit[j] = "none"
    BY <1>0, <1>2 DEF RobotResult, MarkUncertain, Completed, OtherTypes
  <2>3. CASE i \in active /\ Final(i, outcome)
    <3>1. /\ Finish(i) /\ ApplyLidarResult(i, outcome) /\ verdicts' = Once(verdicts, i) /\ sends[i] # 0
      BY <1>0, <1>2, <2>3 DEF RobotResult
    <3>2. /\ active' = active \ {i}
          /\ reset_pending' = IF kind[i] = "software_reset" THEN None ELSE reset_pending
          /\ lidar_pending' = IF kind[i] = "set_lidar_power" THEN None ELSE lidar_pending
      BY <2>3, <3>1 DEF Finish
    <3>3. /\ lidar_open' \subseteq lidar_open
          /\ kind[i] # "set_lidar_power" => UNCHANGED lidar_recovery_required
          /\ kind[i] = "set_lidar_power" => lidar_recovery_required' \/ lidar_open' = {}
      BY <3>1 DEF ApplyLidarResult, lidarVars
    <3>4. Ends(i)
      BY <2>3, <3>1, <3>2, <3>3 DEF Ends
    <3> QED BY <2>1, <2>2, <3>4 DEF Settled
  <2>4. CASE ~(i \in active /\ Final(i, outcome))
    <3>1. UNCHANGED <<active, reset_pending, lidar_pending, lidar_recovery_required, verdicts, lidar_open>>
      BY <1>2, <2>4 DEF RobotResult, MarkUncertain, entryVars, barrierVars, lidarVars
    <3> QED BY <2>1, <2>2, <3>1 DEF Settled
  <2> QED BY <2>3, <2>4
<1>3. CASE RobotReplyLost(i)
  BY <1>0, <1>3 DEF RobotReplyLost, Settled, OtherTypes, taskVars, entryVars, barrierVars, lidarVars, clientVars, histVars
<1> QED BY <1>1, <1>2, <1>3 DEF RobotReplies

LEMMA StepIs ==
  ASSUME IInv, [Next]_vars
  PROVE  \/ Quiet \/ Restart
         \/ \E i \in Id : Settled(i)
         \/ \E c \in Client : \/ Arrive(c) \/ Refused(c) \/ Admit(c) \/ Validate(c) \/ Audit(c) \/ Retire(c)
                              \/ Retired(c) \/ Send(c) \/ SendFails(c) \/ CloseOutMap(c) \/ Disconnect(c)
                              \/ DatabaseFails(c)
<1>0. TaskTypes /\ OtherTypes
  BY Parts
<1>1. ASSUME NEW c \in Client, Refuse(c), pc[c] \in {"waiting", "lookup"},
             UNCHANGED <<retiring, entryVars, lidarVars, clientVars, robotVars, restarts, histVars>>
      PROVE  Refused(c)
  BY <1>0, <1>1 DEF Refuse, Return, _reject_audited, Refused, TaskTypes, OtherTypes, entryVars, barrierVars, lidarVars,
    clientVars, robotVars, histVars
<1>2. ASSUME NEW c \in Client, RefuseAdmission(c) \/ RefuseValidation(c) PROVE Refused(c)
  BY <1>1, <1>2 DEF RefuseAdmission, RefuseValidation
<1>3. ASSUME NEW c \in Client, RejectInvalid(c) PROVE Refused(c)
  BY <1>0, <1>3 DEF RejectInvalid, _reject_audited, Refused, TaskTypes, OtherTypes, taskVars, entryVars, barrierVars,
    lidarVars, clientVars, robotVars, histVars
<1>4. ASSUME RobotConnects \/ RobotDisconnects \/ BaseState \/ UNCHANGED vars PROVE Quiet
  BY <1>4 DEF RobotConnects, RobotDisconnects, BaseState, Quiet, vars, taskVars, entryVars, barrierVars, lidarVars,
    clientVars, robotVars, histVars
<1>5. ASSUME NEW c \in Client, CancelForClient(c) PROVE Quiet
  BY <1>5 DEF CancelForClient, Quiet, taskVars, entryVars, barrierVars, lidarVars, histVars
<1> QED BY <1>2, <1>3, <1>4, <1>5, TimerIs, ReplyIs DEF Next, Handle, Connections

----------------------------------------------------------------------------
(* Every part of the invariant is kept.                                    *)

\* One field of an entry, or all of them.
LEMMA EntryIs ==
  ASSUME EntryTypes, NEW i \in Id
  PROVE  /\ entry[i] = [acked |-> entry[i].acked, uncertain |-> entry[i].uncertain, closing |-> entry[i].closing,
                        timers |-> entry[i].timers, initiator |-> entry[i].initiator]
         /\ entry[i].timers \subseteq {"ack", "result"} /\ entry[i].acked \in BOOLEAN
         /\ entry[i].uncertain \in BOOLEAN /\ entry[i].closing \in BOOLEAN
         /\ entry[i].initiator \in Client \cup {None}
         /\ NoEntry \in Entry /\ ~NoEntry.closing
BY DEF EntryTypes, Entry, NoEntry

Entries == EntryTypes /\ MapsClose

LEMMA FinishKeepsEntries ==
  ASSUME Entries, NEW i \in Id, Finish(i)
  PROVE  Entries'
<1>1. EntryTypes /\ NoEntry \in Entry
  BY EntryIs DEF Entries
<1>2. CASE i \in active
  <2>1. /\ active' = active \ {i} /\ entry' = [entry EXCEPT ![i] = NoEntry]
        /\ reset_pending' \in {reset_pending, None} /\ lidar_pending' \in {lidar_pending, None}
    BY <1>2 DEF Finish
  <2> QED BY <1>1, <2>1 DEF Entries, EntryTypes, MapsClose
<1>3. CASE i \notin active
  BY <1>3 DEF Finish, Entries, EntryTypes, MapsClose, entryVars, barrierVars
<1> QED BY <1>2, <1>3

\* The entry gets other flags and timers.
LEMMA FlagsKeepEntries ==
  ASSUME Entries, NEW i \in Id, NEW e \in Entry, entry' = [entry EXCEPT ![i] = e],
         e.closing => entry[i].closing \/ kind[i] = "set_initial_pose",
         UNCHANGED <<active, barrierVars>>
  PROVE  Entries'
BY DEF Entries, EntryTypes, MapsClose, barrierVars

LEMMA UncertainKeepsEntries ==
  ASSUME Entries, NEW i \in Id, NEW timers \in SUBSET {"ack", "result"}, MarkUncertain(i, timers)
  PROVE  Entries'
<1>1. CASE i \in active
  <2> DEFINE e == [acked |-> entry[i].acked, uncertain |-> TRUE, closing |-> entry[i].closing,
                   timers |-> timers, initiator |-> entry[i].initiator]
  <2>1. e \in Entry /\ entry' = [entry EXCEPT ![i] = e] /\ UNCHANGED <<active, barrierVars>>
    BY <1>1, EntryIs DEF MarkUncertain, Entries, EntryTypes, Entry
  <2>2. e.closing = entry[i].closing
    OBVIOUS
  <2> QED BY <2>1, <2>2, FlagsKeepEntries
<1>2. CASE i \notin active
  BY <1>2 DEF MarkUncertain, Entries, EntryTypes, MapsClose, entryVars, barrierVars
<1> QED BY <1>1, <1>2

LEMMA RegisterKeepsEntries ==
  ASSUME Entries, NEW c \in Client, request[c] \in Id, Register(c)
  PROVE  Entries'
<1> DEFINE e == [NoEntry EXCEPT !.timers = {"ack", "result"}, !.initiator = c]
<1>1. NoEntry \in Entry /\ ~NoEntry.closing
  BY EntryIs DEF Entries
<1>2. e \in Entry /\ e.closing = NoEntry.closing
  BY <1>1 DEF Entry
<1>3. /\ active' = active \cup {request[c]} /\ entry' = [entry EXCEPT ![request[c]] = e]
      /\ reset_pending' \in {reset_pending, request[c]} /\ lidar_pending' \in {lidar_pending, request[c]}
  BY DEF Register
<1> HIDE DEF e
<1> QED BY <1>1, <1>2, <1>3 DEF Entries, EntryTypes, MapsClose

LEMMA TimerKeepsEntries ==
  ASSUME Entries, NEW i \in Id, Timer(i)
  PROVE  Entries'
<1>1. ASSUME NEW t \in {"ack", "result"}, Expire(i, t) PROVE Entries'
  <2>1. CASE kind[i] \in Uncertain
    BY <1>1, <2>1, EntryIs, UncertainKeepsEntries DEF Expire, Entries
  <2>2. CASE kind[i] = "set_initial_pose"
    <3> DEFINE e == [acked |-> entry[i].acked, uncertain |-> entry[i].uncertain, closing |-> TRUE,
                     timers |-> entry[i].timers \ {t}, initiator |-> entry[i].initiator]
    <3>1. e \in Entry /\ entry' = [entry EXCEPT ![i] = e] /\ UNCHANGED <<active, barrierVars>>
      BY <1>1, <2>2, EntryIs DEF Expire, Entries, EntryTypes, Entry, Uncertain
    <3> QED BY <2>2, <3>1, FlagsKeepEntries
  <2>3. CASE kind[i] \notin Uncertain /\ kind[i] # "set_initial_pose"
    BY <1>1, <2>3, FinishKeepsEntries DEF Expire, CloseOutByTimer
  <2> QED BY <2>1, <2>2, <2>3
<1> QED BY <1>1, FinishKeepsEntries DEF Timer, AckTimeout, ResultTimeout, TimerClosesMap, CloseOutByTimer

LEMMA ReplyKeepsEntries ==
  ASSUME Entries, NEW i \in Id, RobotReplies(i)
  PROVE  Entries'
<1>1. UNCHANGED entryVars => Entries'
  BY DEF Entries, EntryTypes, MapsClose, entryVars, barrierVars
<1>2. ASSUME NEW accepted \in BOOLEAN, RobotAck(i, accepted) PROVE Entries'
  <2>1. CASE i \in active /\ accepted
    <3> DEFINE e == [acked |-> TRUE, uncertain |-> entry[i].uncertain, closing |-> entry[i].closing,
                     timers |-> entry[i].timers, initiator |-> entry[i].initiator]
    <3>1. e \in Entry /\ entry' = [entry EXCEPT ![i] = e] /\ UNCHANGED <<active, barrierVars>>
      BY <1>2, <2>1, EntryIs DEF RobotAck, Entries, EntryTypes, Entry
    <3>2. e.closing = entry[i].closing
      OBVIOUS
    <3> QED BY <3>1, <3>2, FlagsKeepEntries
  <2>2. CASE ~(i \in active /\ accepted)
    BY <1>1, <1>2, <2>2, FinishKeepsEntries DEF RobotAck
  <2> QED BY <2>1, <2>2
<1>3. ASSUME NEW outcome \in Outcomes, RobotResult(i, outcome) PROVE Entries'
  BY <1>1, <1>3, EntryIs, FinishKeepsEntries, UncertainKeepsEntries DEF RobotResult, Entries
<1>4. CASE RobotReplyLost(i)
  BY <1>1, <1>4 DEF RobotReplyLost
<1> QED BY <1>2, <1>3, <1>4 DEF RobotReplies

LEMMA EntriesKeep == IInv /\ [Next]_vars => Entries'
<1> SUFFICES ASSUME IInv, [Next]_vars PROVE Entries'
  OBVIOUS
<1>0. Entries /\ TaskTypes
  BY Parts DEF Entries
<1>1. UNCHANGED entryVars => Entries'
  BY <1>0 DEF Entries, EntryTypes, MapsClose, entryVars, barrierVars
<1>2. ASSUME NEW c \in Client, Handle(c) PROVE Entries'
  <2>1. CASE Audit(c) \/ Retired(c)
    BY <1>0, <1>1, <2>1, RegisterKeepsEntries DEF Audit, Retired, TaskTypes
  <2>2. CASE Retire(c) \/ CloseOutMap(c)
    BY <1>0, <2>2, FinishKeepsEntries DEF Retire, CloseOutMap, TaskTypes
  <2>3. CASE SendFails(c)
    <3>1. request[c] \in Id /\ entry[request[c]].timers \subseteq {"ack", "result"}
      BY <1>0, <2>3, EntryIs DEF SendFails, TaskTypes, Entries
    <3> QED BY <1>0, <1>1, <2>3, <3>1, FinishKeepsEntries, UncertainKeepsEntries DEF SendFails
  <2>4. CASE Arrive(c) \/ RejectInvalid(c) \/ RefuseAdmission(c) \/ Admit(c) \/ RefuseValidation(c)
             \/ Validate(c) \/ Send(c)
    BY <1>1, <2>4 DEF Arrive, RejectInvalid, RefuseAdmission, Admit, RefuseValidation, Validate, Send
  <2> QED BY <1>2, <2>1, <2>2, <2>3, <2>4 DEF Handle
<1>3. ASSUME NEW i \in Id, Timer(i) \/ RobotReplies(i) PROVE Entries'
  BY <1>0, <1>3, TimerKeepsEntries, ReplyKeepsEntries
<1>4. CASE Restart
  BY <1>4, Constants DEF Restart, Entries, EntryTypes, MapsClose, Entry, NoEntry
<1>5. ASSUME Connections, ~Restart PROVE Entries'
  BY <1>1, <1>5 DEF Connections, RobotConnects, RobotDisconnects, BaseState, Disconnect, CancelForClient, DatabaseFails
<1>6. CASE UNCHANGED vars
  BY <1>1, <1>6 DEF vars
<1> QED BY <1>2, <1>3, <1>4, <1>5, <1>6 DEF Next

\* _remember forgets the oldest.
LEMMA SeenKeeps == IInv /\ [Next]_vars => SeenTypes'
<1> SUFFICES ASSUME IInv, [Next]_vars PROVE SeenTypes'
  OBVIOUS
<1>0. SeenTypes /\ TaskTypes
  BY Parts
<1>1. UNCHANGED seen => SeenTypes'
  BY <1>0 DEF SeenTypes
<1>2. ASSUME NEW i \in Id, Remember(i) PROVE SeenTypes'
  <2>1. CASE \E n \in 1 .. Len(seen) : seen[n] = i
    <3>1. seen' = seen
      <4>1. seen' = IF Len(seen) > SeenMax THEN Tail(seen) ELSE seen
        BY <1>2, <2>1 DEF Remember
      <4> QED BY <1>0, <4>1, Constants DEF SeenTypes
    <3> QED BY <1>1, <3>1
  <2>2. CASE ~\E n \in 1 .. Len(seen) : seen[n] = i
    <3> DEFINE grown == Append(seen, i)
    <3>1. grown \in Seq(Id) /\ grown # << >> /\ Len(grown) = Len(seen) + 1
      BY <1>0, AppendProperties DEF SeenTypes
    <3>2. Tail(grown) \in Seq(Id) /\ Len(Tail(grown)) = Len(grown) - 1
      BY <3>1, HeadTailProperties
    <3>3. seen' = IF Len(grown) > SeenMax THEN Tail(grown) ELSE grown
      BY <1>2, <2>2 DEF Remember
    <3>4. Len(seen) \in Nat /\ Len(seen) <= SeenMax
      BY <1>0 DEF SeenTypes
    <3> HIDE DEF grown
    <3> QED BY <3>1, <3>2, <3>3, <3>4, Constants DEF SeenTypes
  <2> QED BY <2>1, <2>2
<1>3. ASSUME NEW c \in Client, Validate(c) \/ RefuseValidation(c) PROVE SeenTypes'
  BY <1>0, <1>1, <1>2, <1>3 DEF Validate, RefuseValidation, TaskTypes
<1>4. CASE Restart
  BY <1>4, Constants DEF Restart, SeenTypes
<1>5. ASSUME NEW c \in Client, Handle(c), ~Validate(c), ~RefuseValidation(c) PROVE SeenTypes'
  BY <1>1, <1>5 DEF Handle, Arrive, RejectInvalid, RefuseAdmission, Admit, Audit, Retire, Retired, Send, SendFails,
    CloseOutMap
<1>6. ASSUME NEW i \in Id, Timer(i) \/ RobotReplies(i) PROVE SeenTypes'
  BY <1>1, <1>6 DEF Timer, RobotReplies, AckTimeout, ResultTimeout, Expire, TimerClosesMap, RobotAck, RobotResult,
    RobotReplyLost
<1>7. ASSUME Connections, ~Restart PROVE SeenTypes'
  BY <1>1, <1>7 DEF Connections, RobotConnects, RobotDisconnects, BaseState, Disconnect, CancelForClient, DatabaseFails
<1>8. CASE UNCHANGED vars
  BY <1>1, <1>8 DEF vars
<1> QED BY <1>3, <1>4, <1>5, <1>6, <1>7, <1>8 DEF Next

LEMMA OthersKeep == IInv /\ [Next]_vars => OtherTypes'
<1> SUFFICES ASSUME IInv, [Next]_vars PROVE OtherTypes'
  OBVIOUS
<1>0. TaskTypes /\ EntryTypes /\ OtherTypes
  BY Parts
<1>1. ASSUME UNCHANGED <<audit, lidarVars, clientVars, robotVars, restarts, histVars>> PROVE OtherTypes'
  BY <1>0, <1>1 DEF OtherTypes, lidarVars, clientVars, robotVars, histVars
<1>2. ASSUME NEW i \in Id, NEW f \in [Id -> 0 .. 2] PROVE Once(f, i) \in [Id -> 0 .. 2]
  BY DEF Once
<1>3. ASSUME NEW i \in Id
      PROVE  Completed(i) \in [Id -> {"none", "open", "rejected", "closed"}]
             /\ _reject_audited(i) \in [Id -> {"none", "open", "rejected", "closed"}]
  BY <1>0 DEF OtherTypes, Completed, _reject_audited
<1>4. ASSUME NEW i \in Id, NEW timers, MarkUncertain(i, timers)
      PROVE  audit' \in [Id -> {"none", "open", "rejected", "closed"}]
  BY <1>0, <1>3, <1>4 DEF MarkUncertain, OtherTypes
<1>5. ASSUME NEW i \in Id, Deliver(i)
      PROVE  /\ robot' \in [Id -> {"none", "got", "acked", "done"}] /\ sends' \in [Id -> 0 .. 2]
             /\ lidar_open' \subseteq Id
  BY <1>0, <1>2, <1>5 DEF Deliver, OtherTypes
<1>6. ASSUME NEW S \in SUBSET Id, CancelMap(S) PROVE cancels' \subseteq Id
  BY <1>0, <1>6 DEF CancelMap, OtherTypes
<1>7. ASSUME NEW c \in Client, RefuseAdmission(c) \/ RefuseValidation(c) \/ RejectInvalid(c) PROVE OtherTypes'
  BY <1>0, <1>3, <1>7 DEF RefuseAdmission, RefuseValidation, RejectInvalid, Refuse, OtherTypes, TaskTypes,
    lidarVars, clientVars, robotVars, histVars
<1>8. ASSUME NEW c \in Client, Admit(c) PROVE OtherTypes'
  BY <1>0, <1>3, <1>8 DEF Admit, acquire, Refuse, OtherTypes, TaskTypes, lidarVars, robotVars, histVars
<1>9. ASSUME NEW c \in Client, Arrive(c) \/ Validate(c) \/ Retired(c) PROVE OtherTypes'
  BY <1>1, <1>9 DEF Arrive, Validate, Retired
<1>10. ASSUME NEW c \in Client, Audit(c) \/ Retire(c) PROVE OtherTypes'
  <2>1. CASE Audit(c)
    BY <1>0, <2>1 DEF Audit, OtherTypes, TaskTypes, lidarVars, clientVars, robotVars, histVars
  <2>2. CASE Retire(c)
    <3>1. lidar_recovery_required' \in BOOLEAN
      BY <1>0, <2>2 DEF Retire
    <3>2. audit' \in [Id -> {"none", "open", "rejected", "closed"}]
      BY <1>0, <1>3, <2>2 DEF Retire, TaskTypes, OtherTypes
    <3> QED BY <1>0, <2>2, <3>1, <3>2 DEF Retire, OtherTypes, clientVars, robotVars, histVars
  <2> QED BY <1>10, <2>1, <2>2
<1>11. ASSUME NEW c \in Client, Send(c) PROVE OtherTypes'
  BY <1>0, <1>5, <1>11 DEF Send, OtherTypes, TaskTypes, lidarVars, clientVars
<1>12. ASSUME NEW c \in Client, SendFails(c) PROVE OtherTypes'
  <2>0. request[c] \in Id
    BY <1>0, <1>12 DEF SendFails, TaskTypes
  <2>1. /\ robot' \in [Id -> {"none", "got", "acked", "done"}] /\ sends' \in [Id -> 0 .. 2]
        /\ lidar_open' \subseteq Id
    BY <1>0, <1>5, <1>12, <2>0 DEF SendFails, OtherTypes
  <2>2. audit' \in [Id -> {"none", "open", "rejected", "closed"}]
    BY <1>0, <1>3, <1>4, <1>12, <2>0 DEF SendFails, OtherTypes
  <2>3. verdicts' \in [Id -> 0 .. 2] /\ cancels' \subseteq Id
    BY <1>0, <1>2, <1>6, <1>12, <2>0 DEF SendFails, OtherTypes
  <2> QED BY <1>0, <1>12, <2>1, <2>2, <2>3 DEF SendFails, OtherTypes, lidarVars, clientVars
<1>13. ASSUME NEW c \in Client, CloseOutMap(c) PROVE OtherTypes'
  BY <1>0, <1>2, <1>3, <1>13 DEF CloseOutMap, OtherTypes, TaskTypes, lidarVars, clientVars, robotVars
<1>14. ASSUME NEW i \in Id, Timer(i) PROVE OtherTypes'
  <2>1. audit' \in [Id -> {"none", "open", "rejected", "closed"}] /\ verdicts' \in [Id -> 0 .. 2] /\ cancels' \subseteq Id
    BY <1>0, <1>2, <1>3, <1>4, <1>6, <1>14 DEF Timer, AckTimeout, ResultTimeout, Expire, TimerClosesMap,
      CloseOutByTimer, OtherTypes, robotVars
  <2> QED BY <1>0, <1>14, <2>1 DEF Timer, AckTimeout, ResultTimeout, Expire, TimerClosesMap, OtherTypes,
      lidarVars, clientVars, robotVars
<1>15. ASSUME NEW i \in Id, RobotReplies(i) PROVE OtherTypes'
  <2>1. ASSUME NEW accepted \in BOOLEAN, RobotAck(i, accepted) PROVE OtherTypes'
    BY <1>0, <1>2, <1>3, <2>1 DEF RobotAck, OtherTypes, lidarVars, clientVars
  <2>2. ASSUME NEW outcome \in Outcomes, RobotResult(i, outcome) PROVE OtherTypes'
    <3>1. /\ robot' \in [Id -> {"none", "got", "acked", "done"}]
          /\ audit' \in [Id -> {"none", "open", "rejected", "closed"}] /\ verdicts' \in [Id -> 0 .. 2]
      BY <1>0, <1>2, <1>3, <1>4, <2>2 DEF RobotResult, OtherTypes
    <3>2. lidar_open' \subseteq Id
      BY <1>0, <2>2 DEF RobotResult, ApplyLidarResult, OtherTypes
    <3>3. lidar_recovery_required' \in BOOLEAN
      BY <1>0, <2>2 DEF RobotResult, ApplyLidarResult, OtherTypes, lidarVars
    <3>4. lidar_state_fresh' \in BOOLEAN
      BY <1>0, <2>2 DEF RobotResult, ApplyLidarResult, OtherTypes, lidarVars
    <3> QED BY <1>0, <2>2, <3>1, <3>2, <3>3, <3>4 DEF RobotResult, OtherTypes, clientVars
  <2>3. CASE RobotReplyLost(i)
    BY <1>0, <2>3 DEF RobotReplyLost, OtherTypes, lidarVars, clientVars, histVars
  <2> QED BY <1>15, <2>1, <2>2, <2>3 DEF RobotReplies
<1>16. CASE Restart
  <2>1. cancels' \subseteq Id
    BY <1>0, <1>6, <1>16 DEF Restart, MapEntries, OtherTypes, EntryTypes
  <2>2. restarts' \in 0 .. MaxRestarts
    BY <1>0, <1>16, Constants DEF Restart, OtherTypes
  <2> QED BY <1>0, <1>16, <2>1, <2>2 DEF Restart, OtherTypes, histVars
<1>17. ASSUME RobotConnects \/ RobotDisconnects \/ BaseState PROVE OtherTypes'
  BY <1>0, <1>17 DEF RobotConnects, RobotDisconnects, BaseState, OtherTypes, lidarVars, clientVars, robotVars, histVars
<1>18. ASSUME NEW c \in Client, Disconnect(c) \/ DatabaseFails(c) PROVE OtherTypes'
  BY <1>0, <1>18 DEF Disconnect, DatabaseFails, Depart, release_client, OtherTypes, lidarVars, robotVars, histVars
<1>19. ASSUME NEW c \in Client, CancelForClient(c) PROVE OtherTypes'
  <2>1. cancels' \subseteq Id
    BY <1>0, <1>6, <1>19 DEF CancelForClient, MapEntries, EntryTypes
  <2> QED BY <1>0, <1>19, <2>1 DEF CancelForClient, OtherTypes, lidarVars, histVars
<1>20. CASE UNCHANGED vars
  BY <1>1, <1>20 DEF vars
<1> QED
  BY <1>7, <1>8, <1>9, <1>10, <1>11, <1>12, <1>13, <1>14, <1>15, <1>16, <1>17, <1>18, <1>19, <1>20
  DEF Next, Handle, Connections

LEMMA TasksKeep == IInv /\ [Next]_vars => TaskTypes'
<1> SUFFICES ASSUME IInv, [Next]_vars PROVE TaskTypes'
  OBVIOUS
<1>0. TaskTypes /\ EntryTypes
  BY Parts
<1> USE DEF TaskTypes, EntryTypes, InFlight
<1>1. ASSUME Quiet PROVE TaskTypes'
  BY <1>0, <1>1, Constants DEF Quiet
<1>2. ASSUME NEW i \in Id, Settled(i) PROVE TaskTypes'
  BY <1>0, <1>2, Constants DEF Settled, Ends, Once
<1>3. ASSUME NEW c \in Client, Refused(c) PROVE TaskTypes'
  BY <1>0, <1>3, Constants DEF Refused
<1>4. ASSUME NEW c \in Client, Arrive(c) PROVE TaskTypes'
  BY <1>0, <1>4, Constants DEF Arrive, entryVars, lidarVars, clientVars, robotVars, histVars, barrierVars
<1>5. ASSUME NEW c \in Client, Admit(c) PROVE TaskTypes'
  BY <1>0, <1>5, Constants DEF Admit, Turn, acquire, Refuse, _reject_audited, Return, entryVars, lidarVars,
    robotVars, histVars, barrierVars
<1>6. ASSUME NEW c \in Client, Validate(c) PROVE TaskTypes'
  BY <1>0, <1>6, Constants DEF Validate, Recorded, Permitted, entryVars, lidarVars, clientVars, robotVars,
    histVars, barrierVars
<1>7. ASSUME NEW c \in Client, Audit(c) PROVE TaskTypes'
  BY <1>0, <1>7, Constants DEF Audit, Register, entryVars, lidarVars, clientVars, robotVars, histVars,
    barrierVars
<1>8. ASSUME NEW c \in Client, Retire(c) PROVE TaskTypes'
  BY <1>0, <1>8, Constants DEF Retire, Finish, Completed, entryVars, clientVars, robotVars, histVars,
    barrierVars
<1>9. ASSUME NEW c \in Client, Retired(c) PROVE TaskTypes'
  BY <1>0, <1>9, Constants DEF Retired, Register, lidarVars, clientVars, robotVars, histVars
<1>10. ASSUME NEW c \in Client, Send(c) PROVE TaskTypes'
  BY <1>0, <1>10, Constants DEF Send, Deliver, Once, Return, entryVars, lidarVars, clientVars, barrierVars
<1>11. ASSUME NEW c \in Client, SendFails(c) PROVE TaskTypes'
  BY <1>0, <1>11, Constants DEF SendFails, Deliver, Once, Return, MarkUncertain, Completed, Finish,
    barrierVars, entryVars, lidarVars, clientVars
<1>12. ASSUME NEW c \in Client, CloseOutMap(c) PROVE TaskTypes'
  BY <1>0, <1>12, Constants DEF CloseOutMap, Once, Finish, Completed, Return, entryVars, lidarVars,
    clientVars, robotVars, barrierVars
<1>13. ASSUME NEW c \in Client, Disconnect(c) PROVE TaskTypes'
  BY <1>0, <1>13, Constants DEF Disconnect, Depart, release_client, taskVars, entryVars, lidarVars,
    robotVars, histVars, barrierVars
<1>14. ASSUME NEW c \in Client, DatabaseFails(c) PROVE TaskTypes'
  BY <1>0, <1>14, Constants DEF DatabaseFails, Return, Depart, release_client, entryVars, lidarVars,
    robotVars, histVars, barrierVars
<1>15. ASSUME Restart PROVE TaskTypes'
  BY <1>0, <1>15, Constants DEF Restart, histVars
<1> QED BY <1>1, <1>2, <1>3, <1>4, <1>5, <1>6, <1>7, <1>8, <1>9, <1>10, <1>11, <1>12, <1>13, <1>14, <1>15, StepIs

\* One task at a time is under the lock.
LEMMA LockedKeeps == IInv /\ [Next]_vars => Locked'
<1> SUFFICES ASSUME IInv, [Next]_vars PROVE Locked'
  OBVIOUS
<1>0. TaskTypes /\ Locked
  BY Parts
<1> USE DEF Locked, Under, What, TaskTypes, InFlight
<1>1. ASSUME Quiet PROVE Locked'
  BY <1>0, <1>1, Constants DEF Quiet
<1>2. ASSUME NEW i \in Id, Settled(i) PROVE Locked'
  BY <1>0, <1>2, Constants DEF Settled, Ends, Once
<1>3. ASSUME NEW c \in Client, Refused(c) PROVE Locked'
  BY <1>0, <1>3, Constants DEF Refused
<1>4. ASSUME NEW c \in Client, Arrive(c) PROVE Locked'
  BY <1>0, <1>4, Constants DEF Arrive, entryVars, lidarVars, clientVars, robotVars, histVars, barrierVars
<1>5. ASSUME NEW c \in Client, Admit(c) PROVE Locked'
  BY <1>0, <1>5, Constants DEF Admit, Turn, acquire, Refuse, _reject_audited, Return, entryVars, lidarVars,
    robotVars, histVars, barrierVars
<1>6. ASSUME NEW c \in Client, Validate(c) PROVE Locked'
  BY <1>0, <1>6, Constants DEF Validate, Recorded, Permitted, entryVars, lidarVars, clientVars, robotVars,
    histVars, barrierVars
<1>7. ASSUME NEW c \in Client, Audit(c) PROVE Locked'
  BY <1>0, <1>7, Constants DEF Audit, Register, entryVars, lidarVars, clientVars, robotVars, histVars,
    barrierVars
<1>8. ASSUME NEW c \in Client, Retire(c) PROVE Locked'
  BY <1>0, <1>8, Constants DEF Retire, Finish, Completed, entryVars, clientVars, robotVars, histVars,
    barrierVars
<1>9. ASSUME NEW c \in Client, Retired(c) PROVE Locked'
  BY <1>0, <1>9, Constants DEF Retired, Register, lidarVars, clientVars, robotVars, histVars
<1>10. ASSUME NEW c \in Client, Send(c) PROVE Locked'
  BY <1>0, <1>10, Constants DEF Send, Deliver, Once, Return, entryVars, lidarVars, clientVars, barrierVars
<1>11. ASSUME NEW c \in Client, SendFails(c) PROVE Locked'
  BY <1>0, <1>11, Constants DEF SendFails, Deliver, Once, Return, MarkUncertain, Completed, Finish,
    barrierVars, entryVars, lidarVars, clientVars
<1>12. ASSUME NEW c \in Client, CloseOutMap(c) PROVE Locked'
  BY <1>0, <1>12, Constants DEF CloseOutMap, Once, Finish, Completed, Return, entryVars, lidarVars,
    clientVars, robotVars, barrierVars
<1>13. ASSUME NEW c \in Client, Disconnect(c) PROVE Locked'
  BY <1>0, <1>13, Constants DEF Disconnect, Depart, release_client, taskVars, entryVars, lidarVars,
    robotVars, histVars, barrierVars
<1>14. ASSUME NEW c \in Client, DatabaseFails(c) PROVE Locked'
  BY <1>0, <1>14, Constants DEF DatabaseFails, Return, Depart, release_client, entryVars, lidarVars,
    robotVars, histVars, barrierVars
<1>15. ASSUME Restart PROVE Locked'
  BY <1>0, <1>15, Constants DEF Restart, histVars
<1> QED BY <1>1, <1>2, <1>3, <1>4, <1>5, <1>6, <1>7, <1>8, <1>9, <1>10, <1>11, <1>12, <1>13, <1>14, <1>15, StepIs

\* Only a reset retires, only a map command waits for its cancel.
LEMMA PlacesKeep == IInv /\ [Next]_vars => Places'
<1> SUFFICES ASSUME IInv, [Next]_vars PROVE Places'
  OBVIOUS
<1>0. TaskTypes /\ Places
  BY Parts
<1> USE DEF Places, What, TaskTypes
<1>1. ASSUME Quiet PROVE Places'
  BY <1>0, <1>1, Constants DEF Quiet
<1>2. ASSUME NEW i \in Id, Settled(i) PROVE Places'
  BY <1>0, <1>2, Constants DEF Settled, Ends, Once
<1>3. ASSUME NEW c \in Client, Refused(c) PROVE Places'
  BY <1>0, <1>3, Constants DEF Refused
<1>4. ASSUME NEW c \in Client, Arrive(c) PROVE Places'
  BY <1>0, <1>4, Constants DEF Arrive, entryVars, lidarVars, clientVars, robotVars, histVars, barrierVars
<1>5. ASSUME NEW c \in Client, Admit(c) PROVE Places'
  BY <1>0, <1>5, Constants DEF Admit, Turn, acquire, Refuse, _reject_audited, Return, entryVars, lidarVars,
    robotVars, histVars, barrierVars
<1>6. ASSUME NEW c \in Client, Validate(c) PROVE Places'
  BY <1>0, <1>6, Constants DEF Validate, Recorded, Permitted, entryVars, lidarVars, clientVars, robotVars,
    histVars, barrierVars
<1>7. ASSUME NEW c \in Client, Audit(c) PROVE Places'
  BY <1>0, <1>7, Constants DEF Audit, Register, entryVars, lidarVars, clientVars, robotVars, histVars,
    barrierVars
<1>8. ASSUME NEW c \in Client, Retire(c) PROVE Places'
  BY <1>0, <1>8, Constants DEF Retire, Finish, Completed, entryVars, clientVars, robotVars, histVars,
    barrierVars
<1>9. ASSUME NEW c \in Client, Retired(c) PROVE Places'
  BY <1>0, <1>9, Constants DEF Retired, Register, lidarVars, clientVars, robotVars, histVars
<1>10. ASSUME NEW c \in Client, Send(c) PROVE Places'
  BY <1>0, <1>10, Constants DEF Send, Deliver, Once, Return, entryVars, lidarVars, clientVars, barrierVars
<1>11. ASSUME NEW c \in Client, SendFails(c) PROVE Places'
  BY <1>0, <1>11, Constants DEF SendFails, Deliver, Once, Return, MarkUncertain, Completed, Finish,
    barrierVars, entryVars, lidarVars, clientVars
<1>12. ASSUME NEW c \in Client, CloseOutMap(c) PROVE Places'
  BY <1>0, <1>12, Constants DEF CloseOutMap, Once, Finish, Completed, Return, entryVars, lidarVars,
    clientVars, robotVars, barrierVars
<1>13. ASSUME NEW c \in Client, Disconnect(c) PROVE Places'
  BY <1>0, <1>13, Constants DEF Disconnect, Depart, release_client, taskVars, entryVars, lidarVars,
    robotVars, histVars, barrierVars
<1>14. ASSUME NEW c \in Client, DatabaseFails(c) PROVE Places'
  BY <1>0, <1>14, Constants DEF DatabaseFails, Return, Depart, release_client, entryVars, lidarVars,
    robotVars, histVars, barrierVars
<1>15. ASSUME Restart PROVE Places'
  BY <1>0, <1>15, Constants DEF Restart, histVars
<1> QED BY <1>1, <1>2, <1>3, <1>4, <1>5, <1>6, <1>7, <1>8, <1>9, <1>10, <1>11, <1>12, <1>13, <1>14, <1>15, StepIs

\* A lease changes hands at an admission, which no task under the lock lets in,
\* and when the holder itself leaves.
LEMMA LeasedKeeps == IInv /\ [Next]_vars => Leased'
<1> SUFFICES ASSUME IInv, [Next]_vars PROVE Leased'
  OBVIOUS
<1>0. TaskTypes /\ Locked /\ Leased
  BY Parts
<1> USE DEF Leased, Locked, Under, What, Bypass, Exempt, TaskTypes, InFlight
<1>1. ASSUME Quiet PROVE Leased'
  BY <1>0, <1>1, Constants DEF Quiet
<1>2. ASSUME NEW i \in Id, Settled(i) PROVE Leased'
  BY <1>0, <1>2, Constants DEF Settled, Ends, Once
<1>3. ASSUME NEW c \in Client, Refused(c) PROVE Leased'
  BY <1>0, <1>3, Constants DEF Refused
<1>4. ASSUME NEW c \in Client, Arrive(c) PROVE Leased'
  BY <1>0, <1>4, Constants DEF Arrive, entryVars, lidarVars, clientVars, robotVars, histVars, barrierVars
<1>5. ASSUME NEW c \in Client, Admit(c) PROVE Leased'
  BY <1>0, <1>5, Constants DEF Admit, Turn, acquire, Refuse, _reject_audited, Return, entryVars, lidarVars,
    robotVars, histVars, barrierVars
<1>6. ASSUME NEW c \in Client, Validate(c) PROVE Leased'
  BY <1>0, <1>6, Constants DEF Validate, Recorded, Permitted, entryVars, lidarVars, clientVars, robotVars,
    histVars, barrierVars
<1>7. ASSUME NEW c \in Client, Audit(c) PROVE Leased'
  BY <1>0, <1>7, Constants DEF Audit, Register, entryVars, lidarVars, clientVars, robotVars, histVars,
    barrierVars
<1>8. ASSUME NEW c \in Client, Retire(c) PROVE Leased'
  BY <1>0, <1>8, Constants DEF Retire, Finish, Completed, entryVars, clientVars, robotVars, histVars,
    barrierVars
<1>9. ASSUME NEW c \in Client, Retired(c) PROVE Leased'
  BY <1>0, <1>9, Constants DEF Retired, Register, lidarVars, clientVars, robotVars, histVars
<1>10. ASSUME NEW c \in Client, Send(c) PROVE Leased'
  BY <1>0, <1>10, Constants DEF Send, Deliver, Once, Return, entryVars, lidarVars, clientVars, barrierVars
<1>11. ASSUME NEW c \in Client, SendFails(c) PROVE Leased'
  BY <1>0, <1>11, Constants DEF SendFails, Deliver, Once, Return, MarkUncertain, Completed, Finish,
    barrierVars, entryVars, lidarVars, clientVars
<1>12. ASSUME NEW c \in Client, CloseOutMap(c) PROVE Leased'
  BY <1>0, <1>12, Constants DEF CloseOutMap, Once, Finish, Completed, Return, entryVars, lidarVars,
    clientVars, robotVars, barrierVars
<1>13. ASSUME NEW c \in Client, Disconnect(c) PROVE Leased'
  BY <1>0, <1>13, Constants DEF Disconnect, Depart, release_client, taskVars, entryVars, lidarVars,
    robotVars, histVars, barrierVars
<1>14. ASSUME NEW c \in Client, DatabaseFails(c) PROVE Leased'
  BY <1>0, <1>14, Constants DEF DatabaseFails, Return, Depart, release_client, entryVars, lidarVars,
    robotVars, histVars, barrierVars
<1>15. ASSUME Restart PROVE Leased'
  BY <1>0, <1>15, Constants DEF Restart, histVars
<1> QED BY <1>1, <1>2, <1>3, <1>4, <1>5, <1>6, <1>7, <1>8, <1>9, <1>10, <1>11, <1>12, <1>13, <1>14, <1>15, StepIs

\* The lookup, the row and the send of a command are one task's.
LEMMA SentKeeps == IInv /\ [Next]_vars => OnceSent'
<1> SUFFICES ASSUME IInv, [Next]_vars PROVE OnceSent'
  OBVIOUS
<1>0. TaskTypes /\ EntryTypes /\ OtherTypes /\ Locked /\ Places /\ OnceSent
  BY Parts
<1> USE DEF OnceSent, Fresh, Locked, Places, Under, What, Bypass, EntryTypes, OtherTypes, TaskTypes,
    InFlight
<1>1. ASSUME Quiet PROVE OnceSent'
  BY <1>0, <1>1, Constants DEF Quiet
<1>2. ASSUME NEW i \in Id, Settled(i) PROVE OnceSent'
  BY <1>0, <1>2, Constants DEF Settled, Ends, Once
<1>3. ASSUME NEW c \in Client, Refused(c) PROVE OnceSent'
  BY <1>0, <1>3, Constants DEF Refused
<1>4. ASSUME NEW c \in Client, Arrive(c) PROVE OnceSent'
  BY <1>0, <1>4, Constants DEF Arrive, entryVars, lidarVars, clientVars, robotVars, histVars, barrierVars
<1>5. ASSUME NEW c \in Client, Admit(c) PROVE OnceSent'
  BY <1>0, <1>5, Constants DEF Admit, Turn, acquire, Refuse, _reject_audited, Return, entryVars, lidarVars,
    robotVars, histVars, barrierVars
<1>6. ASSUME NEW c \in Client, Validate(c) PROVE OnceSent'
  BY <1>0, <1>6, Constants DEF Validate, Recorded, Permitted, entryVars, lidarVars, clientVars, robotVars,
    histVars, barrierVars
<1>7. ASSUME NEW c \in Client, Audit(c) PROVE OnceSent'
  BY <1>0, <1>7, Constants DEF Audit, Register, entryVars, lidarVars, clientVars, robotVars, histVars,
    barrierVars
<1>8. ASSUME NEW c \in Client, Retire(c) PROVE OnceSent'
  BY <1>0, <1>8, Constants DEF Retire, Finish, Completed, entryVars, clientVars, robotVars, histVars,
    barrierVars
<1>9. ASSUME NEW c \in Client, Retired(c) PROVE OnceSent'
  BY <1>0, <1>9, Constants DEF Retired, Register, lidarVars, clientVars, robotVars, histVars
<1>10. ASSUME NEW c \in Client, Send(c) PROVE OnceSent'
  BY <1>0, <1>10, Constants DEF Send, Deliver, Once, Return, entryVars, lidarVars, clientVars, barrierVars
<1>11. ASSUME NEW c \in Client, SendFails(c) PROVE OnceSent'
  BY <1>0, <1>11, Constants DEF SendFails, Deliver, Once, Return, MarkUncertain, Completed, Finish,
    barrierVars, entryVars, lidarVars, clientVars
<1>12. ASSUME NEW c \in Client, CloseOutMap(c) PROVE OnceSent'
  BY <1>0, <1>12, Constants DEF CloseOutMap, Once, Finish, Completed, Return, entryVars, lidarVars,
    clientVars, robotVars, barrierVars
<1>13. ASSUME NEW c \in Client, Disconnect(c) PROVE OnceSent'
  BY <1>0, <1>13, Constants DEF Disconnect, Depart, release_client, taskVars, entryVars, lidarVars,
    robotVars, histVars, barrierVars
<1>14. ASSUME NEW c \in Client, DatabaseFails(c) PROVE OnceSent'
  BY <1>0, <1>14, Constants DEF DatabaseFails, Return, Depart, release_client, entryVars, lidarVars,
    robotVars, histVars, barrierVars
<1>15. ASSUME Restart PROVE OnceSent'
  BY <1>0, <1>15, Constants DEF Restart, histVars
<1> QED BY <1>1, <1>2, <1>3, <1>4, <1>5, <1>6, <1>7, <1>8, <1>9, <1>10, <1>11, <1>12, <1>13, <1>14, <1>15, StepIs

\* A verdict ends an open command, and a command is opened once.
LEMMA ToldKeeps == IInv /\ [Next]_vars => OnceTold'
<1> SUFFICES ASSUME IInv, [Next]_vars PROVE OnceTold'
  OBVIOUS
<1>0. TaskTypes /\ EntryTypes /\ OtherTypes /\ Places /\ OnceSent /\ OnceTold
  BY Parts
<1> USE DEF OnceTold, OnceSent, Fresh, Places, Under, What, Bypass, EntryTypes, OtherTypes, TaskTypes,
    InFlight
<1>1. ASSUME Quiet PROVE OnceTold'
  BY <1>0, <1>1, Constants DEF Quiet
<1>2. ASSUME NEW i \in Id, Settled(i) PROVE OnceTold'
  BY <1>0, <1>2, Constants DEF Settled, Ends, Once
<1>3. ASSUME NEW c \in Client, Refused(c) PROVE OnceTold'
  BY <1>0, <1>3, Constants DEF Refused
<1>4. ASSUME NEW c \in Client, Arrive(c) PROVE OnceTold'
  BY <1>0, <1>4, Constants DEF Arrive, entryVars, lidarVars, clientVars, robotVars, histVars, barrierVars
<1>5. ASSUME NEW c \in Client, Admit(c) PROVE OnceTold'
  BY <1>0, <1>5, Constants DEF Admit, Turn, acquire, Refuse, _reject_audited, Return, entryVars, lidarVars,
    robotVars, histVars, barrierVars
<1>6. ASSUME NEW c \in Client, Validate(c) PROVE OnceTold'
  BY <1>0, <1>6, Constants DEF Validate, Recorded, Permitted, entryVars, lidarVars, clientVars, robotVars,
    histVars, barrierVars
<1>7. ASSUME NEW c \in Client, Audit(c) PROVE OnceTold'
  BY <1>0, <1>7, Constants DEF Audit, Register, entryVars, lidarVars, clientVars, robotVars, histVars,
    barrierVars
<1>8. ASSUME NEW c \in Client, Retire(c) PROVE OnceTold'
  BY <1>0, <1>8, Constants DEF Retire, Finish, Completed, entryVars, clientVars, robotVars, histVars,
    barrierVars
<1>9. ASSUME NEW c \in Client, Retired(c) PROVE OnceTold'
  BY <1>0, <1>9, Constants DEF Retired, Register, lidarVars, clientVars, robotVars, histVars
<1>10. ASSUME NEW c \in Client, Send(c) PROVE OnceTold'
  BY <1>0, <1>10, Constants DEF Send, Deliver, Once, Return, entryVars, lidarVars, clientVars, barrierVars
<1>11. ASSUME NEW c \in Client, SendFails(c) PROVE OnceTold'
  BY <1>0, <1>11, Constants DEF SendFails, Deliver, Once, Return, MarkUncertain, Completed, Finish,
    barrierVars, entryVars, lidarVars, clientVars
<1>12. ASSUME NEW c \in Client, CloseOutMap(c) PROVE OnceTold'
  BY <1>0, <1>12, Constants DEF CloseOutMap, Once, Finish, Completed, Return, entryVars, lidarVars,
    clientVars, robotVars, barrierVars
<1>13. ASSUME NEW c \in Client, Disconnect(c) PROVE OnceTold'
  BY <1>0, <1>13, Constants DEF Disconnect, Depart, release_client, taskVars, entryVars, lidarVars,
    robotVars, histVars, barrierVars
<1>14. ASSUME NEW c \in Client, DatabaseFails(c) PROVE OnceTold'
  BY <1>0, <1>14, Constants DEF DatabaseFails, Return, Depart, release_client, entryVars, lidarVars,
    robotVars, histVars, barrierVars
<1>15. ASSUME Restart PROVE OnceTold'
  BY <1>0, <1>15, Constants DEF Restart, histVars
<1> QED BY <1>1, <1>2, <1>3, <1>4, <1>5, <1>6, <1>7, <1>8, <1>9, <1>10, <1>11, <1>12, <1>13, <1>14, <1>15, StepIs

LEMMA OvertakenKeeps == IInv /\ [Next]_vars => NotOvertaken'
<1> SUFFICES ASSUME IInv, [Next]_vars PROVE NotOvertaken'
  OBVIOUS
<1>0. TaskTypes /\ EntryTypes /\ Locked /\ Places /\ NotOvertaken /\ ResetBarrier
  BY Parts
<1> USE DEF NotOvertaken, Locked, Places, Under, What, Bypass, ResetBarrier, Barred, ExplicitRetry,
    EntryTypes, TaskTypes, InFlight
<1>1. ASSUME Quiet PROVE NotOvertaken'
  BY <1>0, <1>1, Constants DEF Quiet
<1>2. ASSUME NEW i \in Id, Settled(i) PROVE NotOvertaken'
  BY <1>0, <1>2, Constants DEF Settled, Ends, Once
<1>3. ASSUME NEW c \in Client, Refused(c) PROVE NotOvertaken'
  BY <1>0, <1>3, Constants DEF Refused
<1>4. ASSUME NEW c \in Client, Arrive(c) PROVE NotOvertaken'
  BY <1>0, <1>4, Constants DEF Arrive, entryVars, lidarVars, clientVars, robotVars, histVars, barrierVars
<1>5. ASSUME NEW c \in Client, Admit(c) PROVE NotOvertaken'
  BY <1>0, <1>5, Constants DEF Admit, Turn, acquire, Refuse, _reject_audited, Return, entryVars, lidarVars,
    robotVars, histVars, barrierVars
<1>6. ASSUME NEW c \in Client, Validate(c) PROVE NotOvertaken'
  BY <1>0, <1>6, Constants DEF Validate, Recorded, Permitted, entryVars, lidarVars, clientVars, robotVars,
    histVars, barrierVars
<1>7. ASSUME NEW c \in Client, Audit(c) PROVE NotOvertaken'
  BY <1>0, <1>7, Constants DEF Audit, Register, entryVars, lidarVars, clientVars, robotVars, histVars,
    barrierVars
<1>8. ASSUME NEW c \in Client, Retire(c) PROVE NotOvertaken'
  BY <1>0, <1>8, Constants DEF Retire, Finish, Completed, entryVars, clientVars, robotVars, histVars,
    barrierVars
<1>9. ASSUME NEW c \in Client, Retired(c) PROVE NotOvertaken'
  BY <1>0, <1>9, Constants DEF Retired, Register, lidarVars, clientVars, robotVars, histVars
<1>10. ASSUME NEW c \in Client, Send(c) PROVE NotOvertaken'
  BY <1>0, <1>10, Constants DEF Send, Deliver, Once, Return, entryVars, lidarVars, clientVars, barrierVars
<1>11. ASSUME NEW c \in Client, SendFails(c) PROVE NotOvertaken'
  BY <1>0, <1>11, Constants DEF SendFails, Deliver, Once, Return, MarkUncertain, Completed, Finish,
    barrierVars, entryVars, lidarVars, clientVars
<1>12. ASSUME NEW c \in Client, CloseOutMap(c) PROVE NotOvertaken'
  BY <1>0, <1>12, Constants DEF CloseOutMap, Once, Finish, Completed, Return, entryVars, lidarVars,
    clientVars, robotVars, barrierVars
<1>13. ASSUME NEW c \in Client, Disconnect(c) PROVE NotOvertaken'
  BY <1>0, <1>13, Constants DEF Disconnect, Depart, release_client, taskVars, entryVars, lidarVars,
    robotVars, histVars, barrierVars
<1>14. ASSUME NEW c \in Client, DatabaseFails(c) PROVE NotOvertaken'
  BY <1>0, <1>14, Constants DEF DatabaseFails, Return, Depart, release_client, entryVars, lidarVars,
    robotVars, histVars, barrierVars
<1>15. ASSUME Restart PROVE NotOvertaken'
  BY <1>0, <1>15, Constants DEF Restart, histVars
<1> QED BY <1>1, <1>2, <1>3, <1>4, <1>5, <1>6, <1>7, <1>8, <1>9, <1>10, <1>11, <1>12, <1>13, <1>14, <1>15, StepIs

LEMMA ResetKeeps == IInv /\ [Next]_vars => ResetBarrier'
<1> SUFFICES ASSUME IInv, [Next]_vars PROVE ResetBarrier'
  OBVIOUS
<1>0. TaskTypes /\ EntryTypes /\ Locked /\ Places /\ NotOvertaken /\ ResetBarrier
  BY Parts
<1> USE DEF NotOvertaken, Locked, Places, Under, What, Bypass, ResetBarrier, EntryTypes, TaskTypes, InFlight
<1>1. ASSUME Quiet PROVE ResetBarrier'
  BY <1>0, <1>1, Constants DEF Quiet
<1>2. ASSUME NEW i \in Id, Settled(i) PROVE ResetBarrier'
  BY <1>0, <1>2, Constants DEF Settled, Ends, Once
<1>3. ASSUME NEW c \in Client, Refused(c) PROVE ResetBarrier'
  BY <1>0, <1>3, Constants DEF Refused
<1>4. ASSUME NEW c \in Client, Arrive(c) PROVE ResetBarrier'
  BY <1>0, <1>4, Constants DEF Arrive, entryVars, lidarVars, clientVars, robotVars, histVars, barrierVars
<1>5. ASSUME NEW c \in Client, Admit(c) PROVE ResetBarrier'
  BY <1>0, <1>5, Constants DEF Admit, Turn, acquire, Refuse, _reject_audited, Return, entryVars, lidarVars,
    robotVars, histVars, barrierVars
<1>6. ASSUME NEW c \in Client, Validate(c) PROVE ResetBarrier'
  BY <1>0, <1>6, Constants DEF Validate, Recorded, Permitted, entryVars, lidarVars, clientVars, robotVars,
    histVars, barrierVars
<1>7. ASSUME NEW c \in Client, Audit(c) PROVE ResetBarrier'
  BY <1>0, <1>7, Constants DEF Audit, Register, entryVars, lidarVars, clientVars, robotVars, histVars,
    barrierVars
<1>8. ASSUME NEW c \in Client, Retire(c) PROVE ResetBarrier'
  BY <1>0, <1>8, Constants DEF Retire, Finish, Completed, entryVars, clientVars, robotVars, histVars,
    barrierVars
<1>9. ASSUME NEW c \in Client, Retired(c) PROVE ResetBarrier'
  BY <1>0, <1>9, Constants DEF Retired, Register, lidarVars, clientVars, robotVars, histVars
<1>10. ASSUME NEW c \in Client, Send(c) PROVE ResetBarrier'
  BY <1>0, <1>10, Constants DEF Send, Deliver, Once, Return, entryVars, lidarVars, clientVars, barrierVars
<1>11. ASSUME NEW c \in Client, SendFails(c) PROVE ResetBarrier'
  BY <1>0, <1>11, Constants DEF SendFails, Deliver, Once, Return, MarkUncertain, Completed, Finish,
    barrierVars, entryVars, lidarVars, clientVars
<1>12. ASSUME NEW c \in Client, CloseOutMap(c) PROVE ResetBarrier'
  BY <1>0, <1>12, Constants DEF CloseOutMap, Once, Finish, Completed, Return, entryVars, lidarVars,
    clientVars, robotVars, barrierVars
<1>13. ASSUME NEW c \in Client, Disconnect(c) PROVE ResetBarrier'
  BY <1>0, <1>13, Constants DEF Disconnect, Depart, release_client, taskVars, entryVars, lidarVars,
    robotVars, histVars, barrierVars
<1>14. ASSUME NEW c \in Client, DatabaseFails(c) PROVE ResetBarrier'
  BY <1>0, <1>14, Constants DEF DatabaseFails, Return, Depart, release_client, entryVars, lidarVars,
    robotVars, histVars, barrierVars
<1>15. ASSUME Restart PROVE ResetBarrier'
  BY <1>0, <1>15, Constants DEF Restart, histVars
<1> QED BY <1>1, <1>2, <1>3, <1>4, <1>5, <1>6, <1>7, <1>8, <1>9, <1>10, <1>11, <1>12, <1>13, <1>14, <1>15, StepIs

LEMMA MovedKeeps == IInv /\ [Next]_vars => NotMoved'
<1> SUFFICES ASSUME IInv, [Next]_vars PROVE NotMoved'
  OBVIOUS
<1>0. TaskTypes /\ EntryTypes /\ OtherTypes /\ Locked /\ Places /\ OnceSent /\ NotMoved /\ LidarBarrier
  BY Parts
<1> USE DEF NotMoved, OnceSent, Locked, Places, Under, What, Bypass, LidarBarrier, Barred, LidarExempt,
    Exempt, Moving, Uncertain, EntryTypes, OtherTypes, TaskTypes, InFlight
<1>1. ASSUME Quiet PROVE NotMoved'
  BY <1>0, <1>1, Constants DEF Quiet
<1>2. ASSUME NEW i \in Id, Settled(i) PROVE NotMoved'
  BY <1>0, <1>2, Constants DEF Settled, Ends, Once
<1>3. ASSUME NEW c \in Client, Refused(c) PROVE NotMoved'
  BY <1>0, <1>3, Constants DEF Refused
<1>4. ASSUME NEW c \in Client, Arrive(c) PROVE NotMoved'
  BY <1>0, <1>4, Constants DEF Arrive, entryVars, lidarVars, clientVars, robotVars, histVars, barrierVars
<1>5. ASSUME NEW c \in Client, Admit(c) PROVE NotMoved'
  BY <1>0, <1>5, Constants DEF Admit, Turn, acquire, Refuse, _reject_audited, Return, entryVars, lidarVars,
    robotVars, histVars, barrierVars
<1>6. ASSUME NEW c \in Client, Validate(c) PROVE NotMoved'
  BY <1>0, <1>6, Constants DEF Validate, Recorded, Permitted, entryVars, lidarVars, clientVars, robotVars,
    histVars, barrierVars
<1>7. ASSUME NEW c \in Client, Audit(c) PROVE NotMoved'
  BY <1>0, <1>7, Constants DEF Audit, Register, entryVars, lidarVars, clientVars, robotVars, histVars,
    barrierVars
<1>8. ASSUME NEW c \in Client, Retire(c) PROVE NotMoved'
  BY <1>0, <1>8, Constants DEF Retire, Finish, Completed, entryVars, clientVars, robotVars, histVars,
    barrierVars
<1>9. ASSUME NEW c \in Client, Retired(c) PROVE NotMoved'
  BY <1>0, <1>9, Constants DEF Retired, Register, lidarVars, clientVars, robotVars, histVars
<1>10. ASSUME NEW c \in Client, Send(c) PROVE NotMoved'
  BY <1>0, <1>10, Constants DEF Send, Deliver, Once, Return, entryVars, lidarVars, clientVars, barrierVars
<1>11. ASSUME NEW c \in Client, SendFails(c) PROVE NotMoved'
  BY <1>0, <1>11, Constants DEF SendFails, Deliver, Once, Return, MarkUncertain, Completed, Finish,
    barrierVars, entryVars, lidarVars, clientVars
<1>12. ASSUME NEW c \in Client, CloseOutMap(c) PROVE NotMoved'
  BY <1>0, <1>12, Constants DEF CloseOutMap, Once, Finish, Completed, Return, entryVars, lidarVars,
    clientVars, robotVars, barrierVars
<1>13. ASSUME NEW c \in Client, Disconnect(c) PROVE NotMoved'
  BY <1>0, <1>13, Constants DEF Disconnect, Depart, release_client, taskVars, entryVars, lidarVars,
    robotVars, histVars, barrierVars
<1>14. ASSUME NEW c \in Client, DatabaseFails(c) PROVE NotMoved'
  BY <1>0, <1>14, Constants DEF DatabaseFails, Return, Depart, release_client, entryVars, lidarVars,
    robotVars, histVars, barrierVars
<1>15. ASSUME Restart PROVE NotMoved'
  BY <1>0, <1>15, Constants DEF Restart, histVars
<1> QED BY <1>1, <1>2, <1>3, <1>4, <1>5, <1>6, <1>7, <1>8, <1>9, <1>10, <1>11, <1>12, <1>13, <1>14, <1>15, StepIs

LEMMA LidarKeeps == IInv /\ [Next]_vars => LidarBarrier'
<1> SUFFICES ASSUME IInv, [Next]_vars PROVE LidarBarrier'
  OBVIOUS
<1>0. TaskTypes /\ EntryTypes /\ Locked /\ Places /\ NotMoved /\ LidarBarrier
  BY Parts
<1> USE DEF NotMoved, Locked, Places, Under, What, Bypass, LidarBarrier, LidarExempt, Exempt, Moving,
    EntryTypes, TaskTypes, InFlight
<1>1. ASSUME Quiet PROVE LidarBarrier'
  BY <1>0, <1>1, Constants DEF Quiet
<1>2. ASSUME NEW i \in Id, Settled(i) PROVE LidarBarrier'
  BY <1>0, <1>2, Constants DEF Settled, Ends, Once
<1>3. ASSUME NEW c \in Client, Refused(c) PROVE LidarBarrier'
  BY <1>0, <1>3, Constants DEF Refused
<1>4. ASSUME NEW c \in Client, Arrive(c) PROVE LidarBarrier'
  BY <1>0, <1>4, Constants DEF Arrive, entryVars, lidarVars, clientVars, robotVars, histVars, barrierVars
<1>5. ASSUME NEW c \in Client, Admit(c) PROVE LidarBarrier'
  BY <1>0, <1>5, Constants DEF Admit, Turn, acquire, Refuse, _reject_audited, Return, entryVars, lidarVars,
    robotVars, histVars, barrierVars
<1>6. ASSUME NEW c \in Client, Validate(c) PROVE LidarBarrier'
  BY <1>0, <1>6, Constants DEF Validate, Recorded, Permitted, entryVars, lidarVars, clientVars, robotVars,
    histVars, barrierVars
<1>7. ASSUME NEW c \in Client, Audit(c) PROVE LidarBarrier'
  BY <1>0, <1>7, Constants DEF Audit, Register, entryVars, lidarVars, clientVars, robotVars, histVars,
    barrierVars
<1>8. ASSUME NEW c \in Client, Retire(c) PROVE LidarBarrier'
  BY <1>0, <1>8, Constants DEF Retire, Finish, Completed, entryVars, clientVars, robotVars, histVars,
    barrierVars
<1>9. ASSUME NEW c \in Client, Retired(c) PROVE LidarBarrier'
  BY <1>0, <1>9, Constants DEF Retired, Register, lidarVars, clientVars, robotVars, histVars
<1>10. ASSUME NEW c \in Client, Send(c) PROVE LidarBarrier'
  BY <1>0, <1>10, Constants DEF Send, Deliver, Once, Return, entryVars, lidarVars, clientVars, barrierVars
<1>11. ASSUME NEW c \in Client, SendFails(c) PROVE LidarBarrier'
  BY <1>0, <1>11, Constants DEF SendFails, Deliver, Once, Return, MarkUncertain, Completed, Finish,
    barrierVars, entryVars, lidarVars, clientVars
<1>12. ASSUME NEW c \in Client, CloseOutMap(c) PROVE LidarBarrier'
  BY <1>0, <1>12, Constants DEF CloseOutMap, Once, Finish, Completed, Return, entryVars, lidarVars,
    clientVars, robotVars, barrierVars
<1>13. ASSUME NEW c \in Client, Disconnect(c) PROVE LidarBarrier'
  BY <1>0, <1>13, Constants DEF Disconnect, Depart, release_client, taskVars, entryVars, lidarVars,
    robotVars, histVars, barrierVars
<1>14. ASSUME NEW c \in Client, DatabaseFails(c) PROVE LidarBarrier'
  BY <1>0, <1>14, Constants DEF DatabaseFails, Return, Depart, release_client, entryVars, lidarVars,
    robotVars, histVars, barrierVars
<1>15. ASSUME Restart PROVE LidarBarrier'
  BY <1>0, <1>15, Constants DEF Restart, histVars
<1> QED BY <1>1, <1>2, <1>3, <1>4, <1>5, <1>6, <1>7, <1>8, <1>9, <1>10, <1>11, <1>12, <1>13, <1>14, <1>15, StepIs

\* A power command stops being pending with its answer, or asks for recovery.
LEMMA KnownKeeps == IInv /\ [Next]_vars => LidarKnown'
<1> SUFFICES ASSUME IInv, [Next]_vars PROVE LidarKnown'
  OBVIOUS
<1>0. /\ LidarKnown /\ LidarBarrier /\ NotMoved /\ TaskTypes
      /\ active \subseteq Id /\ lidar_open \subseteq Id /\ lidar_pending \in Id \cup {None} /\ restarts \in Nat
      /\ lidar_recovery_required \in BOOLEAN
  BY Parts, Constants DEF EntryTypes, OtherTypes
<1>1. ASSUME UNCHANGED <<lidar_recovery_required, lidar_open, lidar_pending, restarts>> PROVE LidarKnown'
  BY <1>0, <1>1 DEF LidarKnown
<1>2. ASSUME NEW i \in Id, Settled(i) PROVE LidarKnown'
  <2>1. CASE UNCHANGED <<active, reset_pending, lidar_pending, lidar_recovery_required, verdicts, lidar_open>>
    BY <1>1, <1>2, <2>1 DEF Settled
  <2>2. CASE Ends(i) /\ kind[i] # "set_lidar_power"
    <3>1. lidar_pending' = lidar_pending /\ lidar_open' \subseteq lidar_open
          /\ lidar_recovery_required' = lidar_recovery_required /\ restarts' = restarts
      BY <1>2, <2>2 DEF Settled, Ends
    <3> QED BY <1>0, <3>1 DEF LidarKnown
  <2>3. CASE Ends(i) /\ kind[i] = "set_lidar_power"
    <3>1. lidar_pending = i /\ restarts' = restarts
      BY <1>0, <1>2, <2>3 DEF Settled, Ends, LidarBarrier
    <3>2. CASE lidar_recovery_required' \/ lidar_open' = {}
      BY <3>2 DEF LidarKnown
    <3>3. CASE UNCHANGED lidar_recovery_required /\ lidar_open' = lidar_open \ {i}
      BY <1>0, <3>1, <3>3 DEF LidarKnown
    <3> QED BY <2>3, <3>2, <3>3 DEF Ends
  <2> QED BY <1>2, <2>1, <2>2, <2>3 DEF Settled
<1>3. ASSUME NEW c \in Client, Audit(c) \/ Retired(c) PROVE LidarKnown'
  <2>1. UNCHANGED <<lidar_recovery_required, lidar_open, restarts>>
    BY <1>3 DEF Audit, Retired, lidarVars, histVars
  <2>2. CASE UNCHANGED lidar_pending
    BY <1>1, <2>1, <2>2
  <2>3. CASE lidar_pending' # lidar_pending
    <3>1. Register(c) /\ What(c) = "set_lidar_power" /\ pc[c] \in {"audit", "retire"}
      BY <1>3, <2>3 DEF Audit, Retired, Register, entryVars, barrierVars
    <3>2. What(c) \notin LidarExempt /\ pc[c] = "audit"
      BY <3>1, Parts DEF LidarExempt, Exempt, Bypass, Places
    <3>3. lidar_pending = None
      BY <1>0, <3>2 DEF NotMoved
    <3> QED BY <1>0, <2>1, <3>3, Constants DEF LidarKnown
  <2> QED BY <2>2, <2>3
<1>4. ASSUME NEW c \in Client, Retire(c) PROVE LidarKnown'
  BY <1>0, <1>4 DEF Retire, Finish, LidarKnown, histVars, entryVars, barrierVars
<1>5. ASSUME NEW c \in Client, Send(c) \/ SendFails(c) PROVE LidarKnown'
  <2>1. UNCHANGED <<lidar_recovery_required, restarts>> /\ pc[c] = "send" /\ request[c] \in Id
    BY <1>0, <1>5 DEF Send, SendFails, lidarVars, TaskTypes
  <2>2. lidar_pending' = lidar_pending
    BY <1>5 DEF Send, SendFails, MarkUncertain, Finish, What, Uncertain, entryVars, barrierVars
  <2>3. \/ lidar_open' = lidar_open
        \/ What(c) = "set_lidar_power" /\ lidar_open' = lidar_open \cup {request[c]}
    <3>1. Deliver(request[c]) \/ lidar_open' = lidar_open
      BY <1>5 DEF Send, SendFails
    <3>2. Deliver(request[c]) =>
            lidar_open' = IF kind[request[c]] = "set_lidar_power" THEN lidar_open \cup {request[c]} ELSE lidar_open
      BY DEF Deliver
    <3> QED BY <3>1, <3>2 DEF What
  <2>4. What(c) = "set_lidar_power" => lidar_pending = request[c]
    BY <1>0, <2>1 DEF NotMoved, LidarBarrier, What
  <2> QED BY <1>0, <2>1, <2>2, <2>3, <2>4 DEF LidarKnown
<1>6. ASSUME NEW c \in Client, CloseOutMap(c) PROVE LidarKnown'
  <2>1. What(c) = "set_initial_pose"
    BY <1>6, Parts DEF CloseOutMap, Places
  <2> QED BY <1>1, <1>6, <2>1 DEF CloseOutMap, Finish, What, entryVars, barrierVars, lidarVars
<1>7. CASE Restart
  BY <1>0, <1>7 DEF Restart, LidarKnown
<1>8. ASSUME NEW c \in Client, Arrive(c) \/ Admit(c) \/ Validate(c) \/ Disconnect(c) \/ DatabaseFails(c)
      PROVE  LidarKnown'
  BY <1>1, <1>8 DEF Arrive, Admit, Validate, Disconnect, DatabaseFails, entryVars, barrierVars, lidarVars, histVars
<1>9. ASSUME NEW c \in Client, Refused(c) PROVE LidarKnown'
  BY <1>1, <1>9 DEF Refused
<1>10. ASSUME Quiet PROVE LidarKnown'
  BY <1>1, <1>10 DEF Quiet
<1> QED BY <1>2, <1>3, <1>4, <1>5, <1>6, <1>7, <1>8, <1>9, <1>10, StepIs

----------------------------------------------------------------------------
(* The theorems.                                                           *)

LEMMA StartKeeps == Init => IInv
<1> SUFFICES ASSUME Init PROVE IInv
  OBVIOUS
<1>1. entry \in [Id -> Entry]
  BY DEF Init, Entry, NoEntry
<1>2. TypeOK
  <2>1. seen \in Seq(Id) /\ Len(seen) <= SeenMax
    BY Constants, EmptySeq DEF Init
  <2>2. restarts \in 0 .. MaxRestarts
    BY Constants DEF Init
  <2>3. /\ pc \in [Client -> {"idle", "waiting"} \cup InFlight] /\ request \in [Client -> Id \cup {None}]
        /\ \A c \in Client : pc[c] # "idle" => request[c] \in Id
        /\ bound \subseteq Client /\ lock \in Client \cup {None} /\ retiring \subseteq Id
    BY DEF Init
  <2>4. /\ audit \in [Id -> {"none", "open", "rejected", "closed"}]
        /\ robot \in [Id -> {"none", "got", "acked", "done"}]
        /\ sends \in [Id -> 0 .. 2] /\ verdicts \in [Id -> 0 .. 2]
    BY DEF Init
  <2> QED BY <1>1, <2>1, <2>2, <2>3, <2>4 DEF Init, TypeOK
<1>3. Locked /\ Places /\ Leased /\ NotOvertaken /\ NotMoved
  BY DEF Init, Locked, Under, InFlight, Places, Leased, NotOvertaken, NotMoved
<1>4. OnceSent /\ OnceTold
  BY DEF Init, OnceSent, Under, Fresh, OnceTold
<1>5. ResetBarrier /\ LidarBarrier /\ LidarKnown /\ MapsClose
  BY DEF Init, ResetBarrier, LidarBarrier, LidarKnown, MapsClose
<1> QED BY <1>2, <1>3, <1>4, <1>5 DEF IInv

LEMMA StepKeeps == IInv /\ [Next]_vars => IInv'
<1> SUFFICES ASSUME IInv, [Next]_vars PROVE IInv'
  OBVIOUS
<1>1. TypeOK'
  BY TasksKeep, EntriesKeep, SeenKeeps, OthersKeep DEF Entries, TypeOK, TaskTypes, EntryTypes, SeenTypes, OtherTypes
<1> QED BY <1>1, EntriesKeep, LockedKeeps, PlacesKeep, LeasedKeeps, SentKeeps, ToldKeeps, OvertakenKeeps, ResetKeeps,
  MovedKeeps, LidarKeeps, KnownKeeps DEF IInv, Entries

LEMMA Invariant == Spec => []IInv
BY StartKeeps, StepKeeps, PTL DEF Spec

\* The broker's variables keep their types: _remember never holds more than its
\* limit of ids, and a task that handles a frame knows which.
THEOREM TypesHold == Spec => []TypeOK
<1>1. IInv => TypeOK
  BY DEF IInv
<1> QED BY <1>1, Invariant, PTL

\* Whatever is replayed, on whichever socket and after any number of restarts,
\* the robot is sent a command once and the browsers hear one verdict
\* (handle_browser_request, _close_out).
THEOREM OnceEachWay == Spec => []OnceAtBothEnds
<1>1. IInv => OnceAtBothEnds
  BY DEF IInv, OnceSent, OnceTold, OnceAtBothEnds, ForwardedOnce, OneVerdict
<1> QED BY <1>1, Invariant, PTL

\* Between its admission and its return a command that needs the lease has it:
\* no takeover, disconnection or database failure of another tab comes between
\* (OperatorLease.acquire, release_client).
THEOREM LeaseHeld == Spec => []HolderSends
<1>1. IInv => HolderSends
  BY Constants DEF IInv, Leased, HolderSends
<1> QED BY <1>1, Invariant, PTL

\* Nothing passes a pending reset, nothing moves under a LiDAR that is being
\* switched, and a power command without an answer is not forgotten
\* (_reset_pending, _lidar_pending, _finish).
THEOREM BarriersHold == Spec => []Barriers
<1>1. IInv => LidarOutcomeHeld
  BY Constants DEF IInv, TypeOK, LidarKnown, LidarOutcomeHeld
<1>2. IInv => Barriers
  BY <1>1 DEF IInv, Barriers
<1> QED BY <1>2, Invariant, PTL

----------------------------------------------------------------------------
(* What ends an open command: the safety half of NeverLeftOpen.            *)

\* A command without its result timer is closing, or its outcome is unknown.
Timed == \A i \in active : "result" \in entry[i].timers \/ entry[i].closing \/ entry[i].uncertain

\* One of the entry's timers may fire: the guards of _ack_timeout, _result_timeout and TimerClosesMap.
MayFire(i) ==
  \/ "ack" \in entry[i].timers /\ ~entry[i].acked
  \/ "result" \in entry[i].timers /\ ~entry[i].closing /\ (entry[i].acked \/ "ack" \notin entry[i].timers)
  \/ entry[i].closing

\* Every open command has a timer that may fire, or the outcome it waits for is
\* marked unknown.
OpenIsWaitedFor == \A i \in active : MayFire(i) \/ entry[i].uncertain

LEMMA FinishKeepsTimed ==
  ASSUME EntryTypes, Timed, NEW i \in Id, Finish(i)
  PROVE  Timed'
<1>1. CASE i \in active
  BY <1>1 DEF Finish, EntryTypes, Timed
<1>2. CASE i \notin active
  BY <1>2 DEF Finish, Timed, entryVars
<1> QED BY <1>1, <1>2

\* The entry gets other flags and timers.
LEMMA FlagsKeepTimed ==
  ASSUME EntryTypes, Timed, NEW i \in Id, NEW e \in Entry, entry' = [entry EXCEPT ![i] = e], UNCHANGED active,
         "result" \in e.timers \/ e.closing \/ e.uncertain
         \/ (e.timers = entry[i].timers /\ e.closing = entry[i].closing /\ e.uncertain = entry[i].uncertain)
  PROVE  Timed'
BY DEF EntryTypes, Timed

LEMMA UncertainKeepsTimed ==
  ASSUME EntryTypes, Timed, NEW i \in Id, NEW timers \in SUBSET {"ack", "result"}, MarkUncertain(i, timers)
  PROVE  Timed'
<1>1. CASE i \in active
  <2> DEFINE e == [acked |-> entry[i].acked, uncertain |-> TRUE, closing |-> entry[i].closing,
                   timers |-> timers, initiator |-> entry[i].initiator]
  <2>1. e \in Entry /\ entry' = [entry EXCEPT ![i] = e] /\ UNCHANGED active
    BY <1>1, EntryIs DEF MarkUncertain, EntryTypes, Entry
  <2>2. e.uncertain
    OBVIOUS
  <2> QED BY <2>1, <2>2, FlagsKeepTimed
<1>2. CASE i \notin active
  BY <1>2 DEF MarkUncertain, Timed, entryVars
<1> QED BY <1>1, <1>2

\* Both timers are started with the entry.
LEMMA RegisterKeepsTimed ==
  ASSUME EntryTypes, Timed, NEW c \in Client, request[c] \in Id, Register(c)
  PROVE  Timed'
<1> DEFINE e == [NoEntry EXCEPT !.timers = {"ack", "result"}, !.initiator = c]
<1>1. "result" \in e.timers
  BY DEF NoEntry
<1>2. active' = active \cup {request[c]} /\ entry' = [entry EXCEPT ![request[c]] = e]
  BY DEF Register
<1> HIDE DEF e
<1> QED BY <1>1, <1>2 DEF EntryTypes, Timed

LEMMA TimerKeepsTimed ==
  ASSUME EntryTypes, Timed, NEW i \in Id, Timer(i)
  PROVE  Timed'
<1>1. ASSUME NEW t \in {"ack", "result"}, Expire(i, t) PROVE Timed'
  <2>1. CASE kind[i] \in Uncertain
    BY <1>1, <2>1, EntryIs, UncertainKeepsTimed DEF Expire
  <2>2. CASE kind[i] = "set_initial_pose"
    <3> DEFINE e == [acked |-> entry[i].acked, uncertain |-> entry[i].uncertain, closing |-> TRUE,
                     timers |-> entry[i].timers \ {t}, initiator |-> entry[i].initiator]
    <3>1. e \in Entry /\ entry' = [entry EXCEPT ![i] = e] /\ UNCHANGED active
      BY <1>1, <2>2, EntryIs DEF Expire, EntryTypes, Entry, Uncertain
    <3>2. e.closing
      OBVIOUS
    <3> QED BY <3>1, <3>2, FlagsKeepTimed
  <2>3. CASE kind[i] \notin Uncertain /\ kind[i] # "set_initial_pose"
    BY <1>1, <2>3, FinishKeepsTimed DEF Expire, CloseOutByTimer
  <2> QED BY <2>1, <2>2, <2>3
<1> QED BY <1>1, FinishKeepsTimed DEF Timer, AckTimeout, ResultTimeout, TimerClosesMap, CloseOutByTimer

\* An ack leaves the result timer running; a timeout reported by the robot marks the outcome unknown.
LEMMA ReplyKeepsTimed ==
  ASSUME EntryTypes, Timed, NEW i \in Id, RobotReplies(i)
  PROVE  Timed'
<1>1. UNCHANGED entryVars => Timed'
  BY DEF Timed, entryVars
<1>2. ASSUME NEW accepted \in BOOLEAN, RobotAck(i, accepted) PROVE Timed'
  <2>1. CASE i \in active /\ accepted
    <3> DEFINE e == [acked |-> TRUE, uncertain |-> entry[i].uncertain, closing |-> entry[i].closing,
                     timers |-> entry[i].timers, initiator |-> entry[i].initiator]
    <3>1. e \in Entry /\ entry' = [entry EXCEPT ![i] = e] /\ UNCHANGED active
      BY <1>2, <2>1, EntryIs DEF RobotAck, EntryTypes, Entry
    <3>2. e.timers = entry[i].timers /\ e.closing = entry[i].closing /\ e.uncertain = entry[i].uncertain
      OBVIOUS
    <3> QED BY <3>1, <3>2, FlagsKeepTimed
  <2>2. CASE ~(i \in active /\ accepted)
    BY <1>1, <1>2, <2>2, FinishKeepsTimed DEF RobotAck
  <2> QED BY <2>1, <2>2
<1>3. ASSUME NEW outcome \in Outcomes, RobotResult(i, outcome) PROVE Timed'
  BY <1>1, <1>3, EntryIs, FinishKeepsTimed, UncertainKeepsTimed DEF RobotResult
<1>4. CASE RobotReplyLost(i)
  BY <1>1, <1>4 DEF RobotReplyLost
<1> QED BY <1>2, <1>3, <1>4 DEF RobotReplies

LEMMA TimedKeeps == IInv /\ Timed /\ [Next]_vars => Timed'
<1> SUFFICES ASSUME IInv, Timed, [Next]_vars PROVE Timed'
  OBVIOUS
<1>0. EntryTypes /\ TaskTypes
  BY Parts
<1>1. UNCHANGED entryVars => Timed'
  BY DEF Timed, entryVars
<1>2. ASSUME NEW c \in Client, Handle(c) PROVE Timed'
  <2>1. CASE Audit(c) \/ Retired(c)
    BY <1>0, <1>1, <2>1, RegisterKeepsTimed DEF Audit, Retired, TaskTypes
  <2>2. CASE Retire(c) \/ CloseOutMap(c)
    BY <1>0, <2>2, FinishKeepsTimed DEF Retire, CloseOutMap, TaskTypes
  <2>3. CASE SendFails(c)
    <3>1. request[c] \in Id /\ entry[request[c]].timers \subseteq {"ack", "result"}
      BY <1>0, <2>3, EntryIs DEF SendFails, TaskTypes
    <3> QED BY <1>0, <1>1, <2>3, <3>1, FinishKeepsTimed, UncertainKeepsTimed DEF SendFails
  <2>4. CASE Arrive(c) \/ RejectInvalid(c) \/ RefuseAdmission(c) \/ Admit(c) \/ RefuseValidation(c)
             \/ Validate(c) \/ Send(c)
    BY <1>1, <2>4 DEF Arrive, RejectInvalid, RefuseAdmission, Admit, RefuseValidation, Validate, Send
  <2> QED BY <1>2, <2>1, <2>2, <2>3, <2>4 DEF Handle
<1>3. ASSUME NEW i \in Id, Timer(i) \/ RobotReplies(i) PROVE Timed'
  BY <1>0, <1>3, TimerKeepsTimed, ReplyKeepsTimed
<1>4. CASE Restart
  BY <1>4 DEF Restart, Timed
<1>5. ASSUME Connections, ~Restart PROVE Timed'
  BY <1>1, <1>5 DEF Connections, RobotConnects, RobotDisconnects, BaseState, Disconnect, CancelForClient, DatabaseFails
<1>6. CASE UNCHANGED vars
  BY <1>1, <1>6 DEF vars
<1> QED BY <1>2, <1>3, <1>4, <1>5, <1>6 DEF Next

\* No command is open with nothing to end it: whatever was lost, acknowledged,
\* cancelled or answered late, one of its timers may fire, or its outcome is
\* already marked unknown (handle_browser_request, _ack_timeout, _result_timeout).
\* Under the fairness of FairSpec this is what NeverLeftOpen rests on.
THEOREM OpenCanEnd == Spec => []OpenIsWaitedFor
<1>1. Init => Timed
  BY DEF Init, Timed
<1>2. IInv /\ Timed => OpenIsWaitedFor
  BY DEF IInv, TypeOK, Timed, OpenIsWaitedFor, MayFire
<1> QED BY <1>1, <1>2, Invariant, TimedKeeps, PTL DEF Spec

=============================================================================
