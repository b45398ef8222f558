------------------------------ MODULE Dashboard ------------------------------
(* The server's telemetry side: the hub with its robot and its browser, and the
   recorder fed by it, started, stopped and deleted over HTTP.  A plan keeps an
   instance to one part of it.                                               *)
EXTENDS Telemetry

CONSTANT Plans       \* what an instance exercises, of "sessions", "browser" and "recorder"

ASSUME PlansAssumption == Plans \subseteq {"sessions", "browser", "recorder"}

VARIABLES plan, restarted
vars == <<plan, restarted, vars_t, recVars>>
planVars == <<plan, restarted>>

\* The robot is connected and at work.
Serving ==
  /\ connection = "online" /\ status = "ready" /\ capabilities = Robot
  /\ age = "fresh" /\ current = 1 /\ linked = {1} /\ said = "reachable"
  /\ task = [h \in Conn \cup {Monitor} |-> IF h = 1 THEN "serving" ELSE "idle"]
  /\ client = NoClient /\ browser = Unconnected

Init ==
  /\ plan \in Plans /\ restarted = FALSE
  /\ RecInit
  /\ IF plan = "recorder" THEN Serving ELSE TelemetryInit

----------------------------------------------------------------------------
(* The HTTP requests (api/recordings.py).                                    *)

\* start_recording: the robot must be connected.
StartRequest(c) ==
  /\ current # None /\ connection # "offline"
  /\ StartLooks(c) /\ UNCHANGED vars_t

\* emit_event, after the recording began or ended, and the derived status after
\* the database stored the event.
Tell(c) ==
  /\ StartBegins(c) \/ StopAnswers(c)
  /\ publish(<<"event.append", "">>)
  /\ UNCHANGED <<hubVars, browser>>

Answer(c) ==
  /\ Told(c)
  /\ _emit_derived(connection, client)
  /\ UNCHANGED <<connection, capabilities, age, current, linked, task, said, browser>>

Request(c) ==
  \/ StartRequest(c) \/ Tell(c) \/ Answer(c)
  \/ /\ StartInserts(c) \/ StartFindsNothing(c)
        \/ StopClears(c) \/ StopFlushes(c) \/ StopFindsNothing(c)
     /\ UNCHANGED vars_t

Restart ==
  /\ plan = "recorder" /\ ~restarted /\ restarted' = TRUE /\ UNCHANGED plan
  /\ RecRestart /\ HubRestarts

----------------------------------------------------------------------------
RecorderStep ==
  /\ \/ \E c \in Caller : Request(c)
     \/ (WriterStep \/ \E r \in Row : Delete(r)) /\ UNCHANGED vars_t
  /\ plan = "recorder" /\ UNCHANGED planVars

RobotStep ==
  /\ \E h \in Conn : Reading(h) \/ (plan # "browser" /\ Heartbeat(h))
  /\ UNCHANGED planVars

\* Connections overlap where nothing is recorded, and a third comes only where
\* there is no browser to watch it.
MayConnect(h) ==
  CASE plan = "sessions" -> TRUE
    [] plan = "browser"  -> h < 3
    [] plan = "recorder" -> restarted /\ h < 3 /\ \A g \in Conn : task[g] = "idle"

SessionStep ==
  /\ \/ \E h \in Conn : Gateway(h) \/ (MayConnect(h) /\ Hello(h))
     \/ /\ plan # "recorder"
        /\ MonitorStep \/ Quiet("silent") \/ \E h \in Conn : Hangup(h)
     \/ plan = "sessions" /\ Quiet("late")
  /\ UNCHANGED planVars

BrowserStep ==
  /\ Join \/ Joins \/ Send \/ Closes
  /\ plan = "browser" /\ UNCHANGED planVars

Next == RecorderStep \/ RobotStep \/ SessionStep \/ BrowserStep \/ Restart

Spec == Init /\ [][Next]_vars

\* The event loop runs what is ready, and the monitor sleeps for a second.
Fairness ==
  /\ WF_vars(MonitorStep /\ UNCHANGED planVars)
  /\ \A h \in Conn : WF_vars(Gateway(h) /\ UNCHANGED planVars)

FairSpec == Spec /\ Fairness

----------------------------------------------------------------------------
\* Types and bounds of both sides (writer.py, put_nowait; hub.py, QUEUE_LIMIT).
TypeOK == RecTypeOK /\ TelemetryTypeOK
=============================================================================
