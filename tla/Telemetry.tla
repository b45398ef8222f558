------------------------------ MODULE Telemetry ------------------------------
(* The hub between one robot and one browser: robot sessions that replace each
   other and the monitor that watches them (telemetry/hub.py,
   websocket/robot_gateway.py), the outbound queue of a browser (BrowserClient,
   websocket/ui_gateway.py) and what the browser keeps of it
   (frontend/src/stores/telemetryStore.ts, frontend/src/websocket/client.ts).

   A reading is a frame without content: RobotState has the readings.  Of
   robot_status the part that follows the connection and the recording is kept,
   and system_health goes the same way.  The socket to the browser is part of
   its queue.                                                                *)
EXTENDS Recording, SequencesExt

CONSTANTS
  Limit,        \* QUEUE_LIMIT
  MaxConn       \* robot connections that overlap

ASSUME TelemetryAssumption == Limit \in Nat \ {0} /\ MaxConn \in Nat \ {0}

VARIABLES
  connection, status, capabilities,    \* RobotState, shared by the sessions
  age,          \* of its last heartbeat
  current,      \* hub.robots: the session that is the robot's
  linked,       \* the sessions with a websocket
  task,         \* what each gateway (1 .. MaxConn) and the monitor (0) awaits
  client,       \* the browser's BrowserClient
  browser,      \* its telemetry store
  said          \* history: what was last said of the connection

stateVars == <<connection, status, capabilities, age>>
hubVars == <<stateVars, current, linked, task, said>>
vars_t == <<hubVars, client, browser>>

Conn == 1 .. MaxConn
Monitor == 0
Robot == {"undock"}       \* what the robot announces

NoClient == [at |-> "none", queue |-> <<>>, overloaded |-> FALSE, snapshot |-> <<>>, overtaken |-> FALSE]
Unconnected == [ws |-> FALSE, connection |-> "offline", status |-> "offline", capabilities |-> {}]

StateInit ==
  /\ connection = "offline" /\ status = "offline" /\ capabilities = {}
  /\ age = "never" /\ current = None
  /\ linked = {} /\ said = "nothing"

TelemetryInit ==
  /\ StateInit /\ task = [h \in Conn \cup {Monitor} |-> "idle"]
  /\ client = NoClient /\ browser = Unconnected

----------------------------------------------------------------------------
(* Fan-out (BrowserClient, publish).                                         *)

PROTECTED_TYPES == {"server.snapshot", "state.connection", "state.robot_status",
                    "state.capabilities", "event.append"}
Expendable(q) == {i \in DOMAIN q : q[i][1] \notin PROTECTED_TYPES}
Oldest(S) == CHOOSE i \in S : \A j \in S : i <= j

\* Mutant: the queue drops its oldest frame, whatever it is.
OfferDropsOldest(cl, frame) ==
  IF cl.at = "none" \/ cl.overloaded THEN cl
  ELSE [cl EXCEPT !.queue = Append(IF Len(@) < Limit THEN @ ELSE Tail(@), frame)]

\* Mutant: eviction never finds a frame to spare, and the queue still grows.
OfferUnbounded(cl, frame) ==
  IF cl.at = "none" \/ cl.overloaded THEN cl ELSE [cl EXCEPT !.queue = Append(@, frame)]

\* _evict_unprotected, in offer.
Offer(cl, frame) ==
  IF cl.at = "none" \/ cl.overloaded THEN cl
  ELSE IF Len(cl.queue) < Limit THEN [cl EXCEPT !.queue = Append(@, frame)]
  ELSE IF Expendable(cl.queue) = {} THEN [cl EXCEPT !.overloaded = TRUE]
  ELSE [cl EXCEPT !.queue = Append(RemoveAt(@, Oldest(Expendable(@))), frame)]

publish(frame) == client' = Offer(client, frame)

\* _emit_derived: the status as it now is, published when it changed, to a
\* browser that was offered the step's other frames already.
StatusNow(conn, recording) ==
  IF conn = "offline" THEN conn ELSE IF recording THEN "recording" ELSE "ready"
_emit_derived(conn, cl) ==
  /\ status' = StatusNow(conn, flag)
  /\ client' = IF status' = status THEN cl ELSE Offer(cl, <<"state.robot_status", status'>>)

----------------------------------------------------------------------------
(* The connection state (_apply_connection).                                 *)

\* Mutant: a session with a websocket counts as connected.
ConnectionForSocket(has_socket, a) == IF has_socket THEN "online" ELSE "offline"

ConnectionFor(has_socket, a) ==
  IF ~has_socket \/ a \in {"never", "silent"} THEN "offline"
  ELSE IF a = "fresh" THEN "online" ELSE "stale"

\* Mutant: the alert is raised by every handler that found the robot offline.
AlertingAlways(state) == state # "stale"

\* set_connection looks at the present connection, not at the one before the
\* pose was saved.
Alerting(state) == state # connection /\ state # "stale"

Said(state) ==
  IF state # "offline" THEN "reachable"
  ELSE IF ~Alerting(state) THEN said
  ELSE IF said \in {"disconnected", "disconnected twice"} THEN "disconnected twice" ELSE "disconnected"

\* set_connection, its frame and its alert, which is also a sample; handler h
\* then awaits the database for the alert, or derives at once.
Announce(h, state, settling, settled) ==
  /\ connection' = state /\ said' = Said(state)
  /\ LET offered == Offer(client, <<"state.connection", state>>) IN
     IF Alerting(state)
     THEN /\ client' = Offer(offered, <<"event.append", "">>) /\ offer
          /\ task' = [task EXCEPT ![h] = settling] /\ UNCHANGED status
     ELSE /\ _emit_derived(state, offered) /\ task' = [task EXCEPT ![h] = settled]
          /\ UNCHANGED <<queue, samples, accepted>>

\* A session that is found offline saves its last pose first.
Apply(h, state, persisting, settling, settled) ==
  IF state = connection
  THEN /\ _emit_derived(connection, client) /\ task' = [task EXCEPT ![h] = settled]
       /\ UNCHANGED <<connection, said, queue, samples, accepted>>
  ELSE IF state = "offline"
  THEN /\ task' = [task EXCEPT ![h] = persisting]
       /\ UNCHANGED <<connection, status, said, client, queue, samples, accepted>>
  ELSE Announce(h, state, settling, settled)

\* The part of the recorder that no frame of the robot changes.
recIdle == <<rowVars, active, writing, flag, call, lost, answer>>

\* The pose is saved: offline it is.
Persisted(h, persisting, settling, settled) ==
  /\ task[h] = persisting
  /\ Announce(h, "offline", settling, settled)
  /\ UNCHANGED <<capabilities, age, current, linked, browser, recIdle>>

\* The alert is stored: derive.
Settled(h, settling, settled) ==
  /\ task[h] = settling
  /\ _emit_derived(connection, client)
  /\ task' = [task EXCEPT ![h] = settled]
  /\ UNCHANGED <<connection, capabilities, age, current, linked, said, browser, recVars>>

\* _monitor_loop.
Tick ==
  /\ task[Monitor] = "idle" /\ current # None
  /\ Apply(Monitor, ConnectionFor(current \in linked, age), "persisting", "settling", "idle")
  /\ UNCHANGED <<capabilities, age, current, linked, browser, recIdle>>

MonitorStep ==
  \/ Tick
  \/ Persisted(Monitor, "persisting", "settling", "idle")
  \/ Settled(Monitor, "settling", "idle")

\* One threshold, or both, go by without a frame.
Quiet(until) ==
  /\ age = "fresh" \/ (age = "late" /\ until = "silent")
  /\ age' = until
  /\ UNCHANGED <<connection, status, capabilities, current, linked, task, said, client, browser, recVars>>

----------------------------------------------------------------------------
(* The robot gateway.                                                        *)

\* robot_connected up to its awaits: the teleop owner is revoked and the
\* previous socket closed.  The number of a gateway that ended is free for
\* another, once its session is no longer the robot's.
Hello(h) ==
  /\ task[h] = "idle" /\ current # h
  /\ task' = [task EXCEPT ![h] = "replacing"]
  /\ UNCHANGED <<stateVars, current, linked, said, client, browser, recVars>>

\* The new session takes the robot over.
Swap(h) ==
  /\ task[h] = "replacing"
  /\ current' = h /\ linked' = linked \cup {h}
  /\ capabilities' = {} /\ age' = "fresh"
  /\ Apply(h, "online", "none", "joined", "announcing")
  /\ UNCHANGED <<browser, recIdle>>

\* The gateway publishes the capabilities of the hello and acknowledges it;
\* when that fails nobody calls robot_disconnected.
Capabilities(h) ==
  /\ task[h] = "announcing"
  /\ capabilities' = Robot /\ publish(<<"state.capabilities", Robot>>)
  /\ task' \in {[task EXCEPT ![h] = "serving"], [task EXCEPT ![h] = "idle"]}
  /\ UNCHANGED <<connection, status, age, current, linked, said, browser, recVars>>

\* handle_robot_message: a reading, which is also a sample, or a heartbeat; a
\* superseded session's frames are ignored.
Reading(h) ==
  /\ task[h] = "serving" /\ current = h
  /\ age' = "fresh" /\ offer
  /\ _emit_derived(connection, Offer(client, <<"telemetry.pose", "">>))
  /\ UNCHANGED <<connection, capabilities, current, linked, task, said, browser, recIdle>>

Heartbeat(h) ==
  /\ task[h] = "serving" /\ current = h
  /\ age' = "fresh" /\ _emit_derived(connection, client)
  /\ UNCHANGED <<connection, capabilities, current, linked, task, said, browser, recVars>>

\* The socket ends, and robot_disconnected begins with an await.
Hangup(h) ==
  /\ task[h] = "serving"
  /\ task' = [task EXCEPT ![h] = IF current = h /\ h \in linked THEN "leaving" ELSE "idle"]
  /\ UNCHANGED <<stateVars, current, linked, said, client, browser, recVars>>

\* It goes on without looking again whether its session is still the robot's.
Leave(h) ==
  /\ task[h] = "leaving"
  /\ linked' = linked \ {h} /\ age' = "never"
  /\ Apply(h, "offline", "saving", "closing", "idle")
  /\ UNCHANGED <<capabilities, current, browser, recIdle>>

Gateway(h) ==
  \/ Swap(h) \/ Settled(h, "joined", "announcing") \/ Capabilities(h)
  \/ Leave(h) \/ Persisted(h, "saving", "closing", "idle") \/ Settled(h, "closing", "idle")

----------------------------------------------------------------------------
(* The browser.                                                              *)

View == [ws |-> TRUE, connection |-> connection, status |-> status,
         capabilities |-> capabilities]

\* browser_connected takes the snapshot and awaits the last known pose; frames
\* published meanwhile are queued.
Join ==
  /\ client = NoClient
  /\ client' = [NoClient EXCEPT !.at = "joining", !.snapshot = View]
  /\ browser' = [browser EXCEPT !.ws = TRUE]
  /\ UNCHANGED <<hubVars, recVars>>

Joins ==
  /\ client.at = "joining"
  /\ client' = [Offer(client, <<"server.snapshot", client.snapshot>>)
                EXCEPT !.at = "live", !.snapshot = <<>>, !.overtaken = client.snapshot # View]
  /\ UNCHANGED <<hubVars, browser, recVars>>

\* handleFrame.
handleFrame(b, frame) ==
  CASE frame[1] = "server.snapshot"    -> frame[2]
    [] frame[1] = "state.connection"   -> [b EXCEPT !.connection = frame[2]]
    [] frame[1] = "state.robot_status" -> [b EXCEPT !.status = frame[2]]
    [] frame[1] = "state.capabilities" -> [b EXCEPT !.capabilities = frame[2]]
    [] OTHER -> b

\* sender: one frame to the browser.
Send ==
  /\ client.at = "live" /\ client.queue # <<>> /\ ~client.overloaded
  /\ client' = [client EXCEPT !.queue = Tail(@)]
  /\ browser' = handleFrame(browser, Head(client.queue))
  /\ UNCHANGED <<hubVars, recVars>>

\* onclose, setWsConnected(false): a lost link, or the sender's close of an
\* overloaded client.  What else the store keeps, the next snapshot replaces.
Closes ==
  /\ client # NoClient
  /\ client' = NoClient
  /\ browser' = Unconnected
  /\ UNCHANGED <<hubVars, recVars>>

\* The server process ends; its successor knows nothing of the robot.
HubRestarts ==
  /\ connection' = "offline" /\ status' = "offline" /\ capabilities' = {}
  /\ age' = "never" /\ current' = None /\ linked' = {} /\ said' = "nothing"
  /\ task' = [h \in DOMAIN task |-> "idle"]
  /\ client' = NoClient /\ browser' = Unconnected

----------------------------------------------------------------------------
TelemetryTypeOK ==
  /\ {connection, browser.connection} \subseteq {"online", "stale", "offline"}
  /\ {status, browser.status} \subseteq {"offline", "recording", "ready"}
  /\ {capabilities, browser.capabilities} \subseteq {{}, Robot}
  /\ age \in {"fresh", "late", "silent", "never"}
  /\ current \in {None} \cup Conn /\ linked \subseteq Conn
  /\ Len(client.queue) <= Limit
  /\ client.overloaded => Len(client.queue) = Limit /\ Expendable(client.queue) = {}

\* What the browser will show once it has been sent what is queued for it:
\* of each field the last frame decides that tells it, its own or a snapshot.
Telling(type, q) == {i \in DOMAIN q : q[i][1] \in {"server.snapshot", type}}
Newest(S) == CHOOSE i \in S : \A j \in S : j <= i
Says(field, frame) == IF frame[1] = "server.snapshot" THEN frame[2][field] ELSE frame[2]
Shown(type, field) ==
  LET S == Telling(type, client.queue)
  IN  IF S = {} THEN browser[field] ELSE Says(field, client.queue[Newest(S)])

ShowsServer ==
  /\ Shown("state.connection", "connection") = connection
  /\ Shown("state.robot_status", "status") = status
  /\ (current = None \/ task[current] \notin {"joined", "announcing"})
       => Shown("state.capabilities", "capabilities") = capabilities

\* A browser that is neither disconnected nor overloaded loses nothing that is
\* protected: once it has its queue it shows the connection, the status and the
\* capabilities the server has (hub.py, BrowserClient: "eviction only ever takes
\* an unprotected frame").  A snapshot overtaken by the frames of its own await
\* is excluded.
BrowserCatchesUp ==
  client.at = "live" /\ ~client.overloaded /\ ~client.overtaken => ShowsServer

\* protocol.md, server.snapshot: "full current state".
SnapshotIsCurrent == client.at = "live" /\ ~client.overloaded => ShowsServer

\* The alert "Robot disconnected" is raised once for each time the robot goes
\* offline, though the monitor and the gateways may find it out together, each
\* with the database between its look and its alert (set_connection).
DisconnectToldOnce == said # "disconnected twice"

\* The connection follows the robot: what the heartbeat and the socket of its
\* session say is shown in time, whichever handlers were in the middle of
\* something else, and also for a session whose gateway is gone.
Due == IF current = None \/ current \notin linked \/ age \in {"never", "silent"} THEN "offline"
       ELSE IF age = "fresh" THEN "online" ELSE "stale"
ConnectionFollows ==
  \A c \in {"online", "stale", "offline"} : [](Due = c => <>(connection = c \/ Due # c))
=============================================================================
