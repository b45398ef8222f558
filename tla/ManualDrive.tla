---------------------------- MODULE ManualDrive ----------------------------
(***************************************************************************)
(* Web manual drive on the robot: the session that owns the velocity       *)
(* stream (teleop.py), the part of the bridge node that feeds it           *)
(* (bridge_node.py) and the connection whose generation it is bound to     *)
(* (ws_client.py).                                                         *)
(*                                                                         *)
(* Two threads take steps.  The WS thread connects, disconnects and        *)
(* enqueues; the ROS executor runs one callback at a time (all are in the  *)
(* node's default group, which is mutually exclusive and is assumed to     *)
(* serialise futures too, multi-threaded as the executor is), and its      *)
(* longest one, _drain_commands, is cut where the WS thread gets between.  *)
(* Time is a number of units, kept as the age of each stamp the code       *)
(* takes; every age is capped one past the last value the code tells       *)
(* apart.  A manual-drive speed is one natural number and a runtime policy *)
(* is the cap it allows: two policies differ iff their caps do.            *)
(***************************************************************************)
EXTENDS Integers, Sequences, FiniteSets

CONSTANTS
  Ids,          \* command ids of manual sessions
  Origins,      \* the drive-base session and map a session is bound to
  Policies,     \* runtime speed policies, each the speed it allows
  HardMax,      \* the commissioned speed limit
  Speeds,       \* speeds the dashboard asks for; more than HardMax is invalid
  Claims,       \* what can take motion away: a subset of AllClaims
  Topics,       \* downstream velocity topics whose drain is observed
  Timeout,      \* web_bridge_zero_watchdog_ms, in time units
  DrainTime,    \* HARDWARE_TIMEOUT_S, in time units
  PrepTimeout,  \* the 5 s a start may wait for its drain, in time units
  QueueCap,     \* the command deque's maxlen
  SeenCap,      \* how many closed ids are remembered before refusing
  MaxGen,       \* bound: connection generations
  MaxSeq,       \* bound: last sequence number of a stream
  MaxCmds,      \* bound: commands the dashboard sends
  PublishOk     \* {TRUE}, or {TRUE, FALSE} when publishing may raise

AllClaims == {"hardware", "joystick", "maintenance", "action"}

None == [none |-> TRUE]

ASSUME ManualAssumption ==
  /\ None \notin Ids
  /\ Policies \subseteq 0 .. HardMax /\ HardMax \in Nat /\ Speeds \subseteq Nat
  /\ Claims \subseteq AllClaims /\ Origins # {}
  /\ Timeout \in Nat \ {0} /\ DrainTime \in Nat \ {0}
  /\ PrepTimeout \in Nat /\ PrepTimeout >= DrainTime
  /\ QueueCap \in Nat \ {0} /\ SeenCap \in Nat
  /\ MaxGen \in Nat /\ MaxSeq \in Nat /\ MaxCmds \in Nat
  /\ TRUE \in PublishOk /\ PublishOk \subseteq BOOLEAN

VARIABLES
  \* WS thread
  link,         \* connection phase
  gen,          \* ws.connection_generation
  downAge,      \* time since the connection was lost
  \* shared between the threads
  queue,        \* _command_queue
  latest,       \* _latest_teleop_frame
  release,      \* _teleop_release_frame
  invalidated,  \* _teleop_transport_invalidated
  \* the ROS callback in progress
  pc,           \* where _drain_commands is, or "idle"
  cur,          \* the command it is about to hand to RosTeleop.handle
  rel, smp,     \* the release and the sample it took from the slots
  taken,        \* history: per session id, the starts it took from the queue
  \* TeleopSession and RosTeleop
  session,      \* the open session, or NoSession
  seen,         \* _seen: ids that were ever opened
  drain,        \* _drain: per topic, how long it has been still and last heard
  claims,       \* what currently refuses manual input
  origin,       \* _teleop_origin and _teleop_map_context
  policy,       \* what the tuning adapter's teleop_policy() resolves to
  \* what others can see
  vel,          \* last velocity published to the mux
  evid,         \* last web_teleop_active evidence published
  src,          \* the frame that velocity came from
  replies,      \* per session id, the acks and results sent to the dashboard
  granted,      \* maintenance was told the web session is idle
  wire, cmds    \* bounds of the dashboard's stream and commands

wsVars   == <<link, gen, downAge>>
inVars   == <<queue, latest, release, invalidated, wire, cmds>>
cbVars   == <<pc, cur, rel, smp, taken>>
envVars  == <<claims, origin, policy, granted>>
sessVars == <<session, seen, vel, evid, src, replies>>
vars     == <<wsVars, inVars, cbVars, envVars, sessVars, drain>>

----------------------------------------------------------------------------
(* Data *)

NoPolicy  == -1                      \* required but missing, stale or malformed
NoSession == [id |-> None]
Still     == [since |-> -1, last |-> 0]   \* nothing still has been seen

Older(a, cap) == IF a < cap THEN a + 1 ELSE cap
Stale         == Timeout + 1         \* any age the freshness checks refuse

\* Only the manual-drive commands are stamped when they arrive; the age of a
\* stop is never read.
StartCommand(i)      == [cmd |-> "teleop_start", id |-> i, gen |-> gen, age |-> 0]
StopCommand          == [cmd |-> "teleop_stop", gen |-> gen]
PlainStop            == [cmd |-> "stop"]   \* stop, motor_disable or software_reset
Frame(i, s, dead, v) == [id |-> i, seq |-> s, deadman |-> dead, speed |-> v,
                         gen |-> gen, age |-> 0]

FrameSet == [id : Ids, seq : 0 .. MaxSeq, deadman : BOOLEAN, speed : Speeds \cup {0},
             gen : 0 .. MaxGen, age : 0 .. Stale]
CommandSet == [cmd : {"teleop_start"}, id : Ids, gen : 0 .. MaxGen, age : 0 .. Stale]
              \cup [cmd : {"teleop_stop"}, gen : 0 .. MaxGen]
              \cup {PlainStop}
SessionSet == [id : Ids, gen : 0 .. MaxGen, origin : Origins, seq : -1 .. MaxSeq,
               age : 0 .. Timeout, acked : BOOLEAN, prep : 0 .. PrepTimeout,
               policy : Policies]
Outcomes == {"succeeded", "canceled", "failed"}

\* What was sent under one id: command.ack that say yes, command.ack that say
\* no, and the outcomes of command.result.  (A teleop_stop is answered under an
\* id of its own, which no session has.)
NoReplies   == [accepted |-> 0, refused |-> 0, results |-> <<>>]
Accept(r)   == [r EXCEPT !.accepted = @ + 1]
Refuse(r)   == [r EXCEPT !.refused = @ + 1]
Result(r, o) == [r EXCEPT !.results = Append(@, o)]

Connected == link = "up"
Active    == session # NoSession
Accepted  == Active /\ session.acked
Preparing == Active /\ ~session.acked

Init ==
  /\ link = "down" /\ gen = 0 /\ downAge = Stale
  /\ queue = <<>> /\ latest = None /\ release = None /\ invalidated = FALSE
  /\ wire = [i \in Ids |-> -1] /\ cmds = 0
  /\ pc = "idle" /\ cur = None /\ rel = None /\ smp = None
  /\ taken = [i \in Ids |-> 0]
  /\ session = NoSession /\ seen = {}
  /\ drain = [t \in Topics |-> Still]
  /\ claims = {} /\ origin \in Origins /\ policy \in Policies \cup {NoPolicy}
  /\ vel = 0 /\ evid = FALSE /\ src = None
  /\ replies = [i \in Ids |-> NoReplies] /\ granted = FALSE

----------------------------------------------------------------------------
(* WS thread: the connection *)

\* The generation is raised before the dial, once the retry delay is over.
Dial ==
  /\ link = "down" /\ downAge > Timeout /\ gen < MaxGen
  /\ link' = "dialing" /\ gen' = gen + 1
  /\ UNCHANGED <<downAge, inVars, cbVars, envVars, sessVars, drain>>

\* A dial that fails changes nothing but starts the retry delay again.
DialFails ==
  /\ link = "dialing"
  /\ link' = "down" /\ downAge' = 0
  /\ UNCHANGED <<gen, inVars, cbVars, envVars, sessVars, drain>>

HelloAcked ==
  /\ link = "dialing"
  /\ link' = "up"
  /\ UNCHANGED <<gen, downAge, inVars, cbVars, envVars, sessVars, drain>>

\* The end of a connection, in the order the code does it: connected.clear(),
\* generation + 1, on_disconnect().
ClearConnected ==
  /\ link = "up" /\ gen < MaxGen
  /\ link' = "closing"
  /\ UNCHANGED <<gen, downAge, inVars, cbVars, envVars, sessVars, drain>>

BumpGeneration ==
  /\ link = "closing"
  /\ link' = "closed" /\ gen' = gen + 1
  /\ UNCHANGED <<downAge, inVars, cbVars, envVars, sessVars, drain>>

TeleopDisconnected ==
  /\ link = "closed"
  /\ link' = "down" /\ downAge' = 0
  /\ latest' = None /\ release' = None /\ invalidated' = TRUE
  /\ UNCHANGED <<gen, queue, wire, cmds, cbVars, envVars, sessVars, drain>>

(* WS thread: what the dashboard sends *)

\* A full deque drops its oldest command.
EnqueueCommand(c) ==
  /\ Connected /\ cmds < MaxCmds
  /\ queue' = Append(IF Len(queue) = QueueCap THEN Tail(queue) ELSE queue, c)
  /\ cmds' = cmds + 1
  /\ wire' = IF c.cmd = "teleop_start" /\ wire[c.id] < 0 THEN [wire EXCEPT ![c.id] = 0]
             ELSE wire
  /\ UNCHANGED <<latest, release, invalidated, wsVars, cbVars, envVars,
                 sessVars, drain>>

\* The latest-only slots.  The server forwards frames only of a session it has
\* asked for, with growing sequence numbers; a frame that is too old when it
\* arrives is dropped, which is the same as one that never came.
EnqueueTeleop(f) ==
  /\ Connected /\ f.seq = wire[f.id] /\ f.seq \in 0 .. MaxSeq
  /\ wire' = [wire EXCEPT ![f.id] = f.seq + 1]
  /\ IF ~f.deadman
     THEN release' = f /\ latest' = None
     ELSE /\ UNCHANGED release
          /\ latest' = IF \/ release # None /\ release.id = f.id
                          \/ latest # None /\ latest.id = f.id /\ latest.seq >= f.seq
                       THEN latest ELSE f
  /\ UNCHANGED <<queue, invalidated, cmds, wsVars, cbVars, envVars, sessVars, drain>>

----------------------------------------------------------------------------
(* The session *)

Safe    == Connected /\ claims = {}
SameContext == session.gen = gen /\ session.origin = origin
PolicyHolds == policy # NoPolicy /\ policy = session.policy

\* TeleopSession.end: forget the session, ask for zero, send its result, or the
\* refusal of a start that was not accepted yet.
\* Without a session the zero is still published and nobody is told.
EndLeaving(outcome, last, from) ==   \* the velocity last published, and its frame
  \E ok \in PublishOk :
    /\ session' = NoSession
    /\ vel' = IF ok THEN 0 ELSE last
    /\ evid' \in IF ok THEN {FALSE} ELSE {evid, FALSE}
    /\ replies' =
         IF ~Active THEN replies
         ELSE [replies EXCEPT ![session.id] =
                 IF ~session.acked THEN Refuse(@)
                 ELSE Result(@, IF ~ok THEN "failed"
                                ELSE IF outcome = "timeout" THEN "canceled" ELSE outcome)]
    /\ src' = from
    /\ UNCHANGED seen

End(outcome) == EndLeaving(outcome, vel, src)

\* Mutant: a missing policy is not asked for.
StartRefusedWithoutPolicy(c) ==
  Active \/ c.id \in seen \/ c.age > Timeout \/ ~Safe \/ Cardinality(seen) >= SeenCap

\* Mutant: closed ids are forgotten.
StartRefusedForgetful(c) ==
  Active \/ c.age > Timeout \/ ~Safe \/ policy = NoPolicy

\* Mutant: only the connection is looked at.
StartRefusedOffline(c) ==
  \/ Active \/ c.id \in seen \/ c.age > Timeout \/ ~Connected
  \/ policy = NoPolicy \/ Cardinality(seen) >= SeenCap

\* Why a start is refused.
StartRefused(c) ==
  \/ Active
  \/ c.id \in seen
  \/ c.age > Timeout
  \/ ~Safe
  \/ policy = NoPolicy
  \/ Cardinality(seen) >= SeenCap

\* A start that opens nothing is told no, under its own id, whichever session
\* is open and whether or not that id was ever open.
SendRefusal(c) ==
  /\ replies' = [replies EXCEPT ![c.id] = Refuse(@)]
  /\ UNCHANGED <<session, seen, vel, evid, src>>

\* TeleopSession.start with defer_ack: a zero is published before the session
\* counts; if that raises, the session ends at once.
Start(c) ==
  \E ok \in PublishOk :
    /\ seen' = seen \cup {c.id}
    /\ UNCHANGED src
    /\ IF ok
       THEN /\ session' = [id |-> c.id, gen |-> gen, origin |-> origin, seq |-> -1,
                           age |-> 0, acked |-> FALSE, prep |-> 0, policy |-> policy]
            /\ vel' = 0 /\ evid' = FALSE /\ UNCHANGED replies
       ELSE /\ session' = NoSession
            /\ \/ vel' = 0 /\ evid' = FALSE          \* end's own zero succeeds
               \/ FALSE \in PublishOk /\ UNCHANGED vel /\ evid' \in {evid, FALSE}
            /\ replies' = [replies EXCEPT ![c.id] = Refuse(@)]

\* Mutant: a preparing session takes input.
FrameIgnoredOnceActive(f) ==
  ~Active \/ f.id # session.id \/ (SameContext /\ f.speed <= HardMax /\ f.seq <= session.seq)

\* Mutant: without the session's policy no frame is looked at, a release included.
FrameIgnoredWithoutPolicy(f) ==
  ~Accepted \/ f.id # session.id \/ ~PolicyHolds
  \/ (SameContext /\ f.speed <= HardMax /\ f.seq <= session.seq)

\* TeleopSession.frame: the frames that change nothing.
FrameIgnored(f) ==
  \/ ~Accepted
  \/ f.id # session.id
  \/ SameContext /\ f.speed <= HardMax /\ f.seq <= session.seq

\* Mutant: the speed is held against the policy of the moment.
FrameEndsCurrentCap(f) ==
  IF ~SameContext \/ f.speed > HardMax \/ (~f.deadman /\ f.speed # 0) THEN "failed"
  ELSE IF f.age > Timeout \/ session.age >= Timeout THEN "timeout"
  ELSE IF ~f.deadman THEN "succeeded"
  ELSE IF policy = NoPolicy \/ f.speed > policy \/ ~Safe THEN "failed" ELSE "none"

FrameEnds(f) ==   \* the outcome of a frame that ends its session, else "none"
  IF ~SameContext \/ f.speed > HardMax \/ (~f.deadman /\ f.speed # 0) THEN "failed"
  ELSE IF f.age > Timeout \/ session.age >= Timeout THEN "timeout"
  ELSE IF ~f.deadman THEN "succeeded"
  ELSE IF ~PolicyHolds \/ f.speed > policy \/ ~Safe THEN "failed"
  ELSE "none"

\* Publishing is two messages: it may raise before or after the first.
Drive(f) ==
  LET from == [id |-> f.id, gen |-> f.gen] IN
  \/ /\ session' = [session EXCEPT !.seq = f.seq, !.age = 0]
     /\ vel' = f.speed /\ evid' = TRUE /\ src' = from
     /\ UNCHANGED <<seen, replies>>
  \/ /\ FALSE \in PublishOk
     /\ End("failed") \/ EndLeaving("failed", f.speed, from)

OnFrame(f) ==
  IF f = None \/ f.gen # gen THEN UNCHANGED sessVars
  ELSE IF FrameIgnored(f) THEN UNCHANGED sessVars
  ELSE IF FrameEnds(f) # "none" THEN End(FrameEnds(f))
  ELSE Drive(f)

----------------------------------------------------------------------------
(* ROS executor: _drain_commands, step by step *)

\* Under the lock the slots are taken; a lost connection ends the session.
DrainBegin ==
  /\ pc = "idle" /\ pc' = "commands"
  /\ rel' = release /\ smp' = latest
  /\ release' = None /\ latest' = None /\ invalidated' = FALSE
  /\ IF invalidated THEN End("failed") ELSE UNCHANGED sessVars
  /\ UNCHANGED <<queue, wire, cmds, cur, taken, wsVars, envVars, drain>>

\* A manual-drive command is checked against the connection it came on, and
\* handled a moment later or told no.  A stop ends the session and goes on to its executor;
\* the other commands, refused while a session is open, change nothing here.
DrainCommand ==
  /\ pc = "commands" /\ queue # <<>>
  /\ queue' = Tail(queue)
  /\ LET c == Head(queue) IN
       /\ taken' = IF c.cmd = "teleop_start" THEN [taken EXCEPT ![c.id] = @ + 1] ELSE taken
       /\ IF c.cmd \in {"teleop_start", "teleop_stop"} /\ c.gen = gen /\ Connected
          THEN pc' = "handle" /\ cur' = c
          ELSE UNCHANGED <<pc, cur>>
       /\ CASE c.cmd = "teleop_start" /\ (c.gen # gen \/ ~Connected) -> SendRefusal(c)
            [] c.cmd = "stop" /\ Active -> End("canceled")
            [] OTHER -> UNCHANGED sessVars
  /\ UNCHANGED <<latest, release, invalidated, wire, cmds, rel, smp, wsVars, envVars,
                 drain>>

\* Mutant: the drain evidence is kept.
HandleKeepsDrain ==
  /\ pc = "handle" /\ pc' = "commands" /\ cur' = None
  /\ \/ /\ cur.cmd = "teleop_start"
        /\ IF StartRefused(cur) THEN SendRefusal(cur) ELSE Start(cur)
     \/ cur.cmd = "teleop_stop" /\ End("canceled")
  /\ UNCHANGED <<drain, rel, smp, taken, inVars, wsVars, envVars>>

\* Mutant: a start that is refused gets no answer.
HandleSilent ==
  /\ pc = "handle" /\ pc' = "commands" /\ cur' = None
  /\ \/ /\ cur.cmd = "teleop_start"
        /\ drain' = IF Active THEN drain ELSE [t \in Topics |-> Still]
        /\ IF StartRefused(cur) THEN UNCHANGED sessVars ELSE Start(cur)
     \/ cur.cmd = "teleop_stop" /\ End("canceled") /\ UNCHANGED drain
  /\ UNCHANGED <<rel, smp, taken, inVars, wsVars, envVars>>

\* RosTeleop.handle.  The drain evidence of an earlier session is dropped
\* before a new one starts.
Handle ==
  /\ pc = "handle" /\ pc' = "commands" /\ cur' = None
  /\ \/ /\ cur.cmd = "teleop_start"
        /\ drain' = IF Active THEN drain ELSE [t \in Topics |-> Still]
        /\ IF StartRefused(cur) THEN SendRefusal(cur) ELSE Start(cur)
     \/ /\ cur.cmd = "teleop_stop"
        /\ End("canceled")
        /\ UNCHANGED drain
  /\ UNCHANGED <<rel, smp, taken, inVars, wsVars, envVars>>

DrainRelease ==
  /\ pc = "commands" /\ queue = <<>> /\ pc' = "sample"
  /\ OnFrame(rel)
  /\ UNCHANGED <<cur, rel, smp, taken, inVars, wsVars, envVars, drain>>

DrainSample ==
  /\ pc = "sample" /\ pc' = "idle"
  /\ OnFrame(smp)
  /\ rel' = None /\ smp' = None
  /\ UNCHANGED <<cur, taken, inVars, wsVars, envVars, drain>>

----------------------------------------------------------------------------
(* ROS executor: the other callbacks *)

\* Both topics have been still for DrainTime and were heard from since.
Drained ==
  \A t \in Topics : drain[t].since >= DrainTime /\ drain[t].last <= DrainTime

\* Mutant: no input watchdog.
TickEndsUnwatched ==
  IF ~Safe \/ ~SameContext \/ ~PolicyHolds THEN "failed"
  ELSE IF ~session.acked /\ session.prep >= PrepTimeout THEN "timeout" ELSE "none"

\* Mutant: a start may prepare for ever.
TickEndsPatient ==
  IF ~Safe \/ ~SameContext \/ ~PolicyHolds THEN "failed"
  ELSE IF session.acked /\ session.age >= Timeout THEN "timeout" ELSE "none"

\* TeleopSession.tick: why the session ends, if it does.
TickEnds ==
  IF ~Safe \/ ~SameContext \/ ~PolicyHolds THEN "failed"
  ELSE IF ~session.acked /\ session.prep >= PrepTimeout THEN "timeout"
  ELSE IF session.acked /\ session.age >= Timeout THEN "timeout"
  ELSE "none"

\* TeleopSession.confirm_start.  What it asks of the session tick has just seen.
confirm_start ==
  /\ session' = [session EXCEPT !.acked = TRUE, !.age = 0]
  /\ replies' = [replies EXCEPT ![session.id] = Accept(@)]

\* RosTeleop.tick: the watchdogs, then a heartbeat of zeros while preparing and
\* the acceptance once the drain is complete.
Tick ==
  /\ pc = "idle"
  /\ IF ~Active
     THEN evid' = FALSE /\ UNCHANGED <<session, seen, vel, src, replies>>
     ELSE IF TickEnds # "none" THEN End(TickEnds) /\ evid' = FALSE
     ELSE IF session.acked THEN UNCHANGED sessVars
     ELSE /\ vel' = 0 /\ evid' = FALSE /\ UNCHANGED <<seen, src>>
          /\ IF Drained THEN confirm_start
             ELSE UNCHANGED <<session, replies>>
  /\ UNCHANGED <<inVars, cbVars, wsVars, envVars, drain>>

\* _on_joystick, _on_tuning_hold, _on_action: a claim on motion ends the session
\* at once.  A reading that safety() refuses only shows at the next look.
Claim(c) ==
  /\ pc = "idle" /\ c \notin claims
  /\ claims' = claims \cup {c}
  /\ IF Active /\ c # "hardware"
     THEN End(IF c = "action" THEN "failed" ELSE "canceled")
     ELSE UNCHANGED sessVars
  /\ UNCHANGED <<origin, policy, granted, inVars, cbVars, wsVars, drain>>

Unclaim(c) ==
  /\ pc = "idle" /\ c \in claims
  /\ claims' = claims \ {c}
  /\ granted' = (granted /\ c # "maintenance")
  /\ UNCHANGED <<origin, policy, inVars, cbVars, wsVars, sessVars, drain>>

\* The web_tuning_idle service, when its answer is yes.
TuningIdle ==
  /\ pc = "idle" /\ "maintenance" \in claims /\ ~Active
  /\ granted' = TRUE
  /\ UNCHANGED <<claims, origin, policy, inVars, cbVars, wsVars, sessVars, drain>>

\* _on_buffer: a message from a downstream velocity topic.
OnBuffer(t, m) ==
  /\ pc = "idle" /\ Active
  /\ IF m = "invalid"
     THEN End("failed") /\ UNCHANGED drain
     ELSE /\ UNCHANGED sessVars
          /\ drain' = IF m = "zero"
                      THEN [drain EXCEPT ![t] = [since |-> IF @.since < 0 THEN 0 ELSE @.since,
                                                 last |-> 0]]
                      ELSE IF session.acked THEN drain
                      ELSE [drain EXCEPT ![t] = Still]
  /\ UNCHANGED <<inVars, cbVars, wsVars, envVars>>

\* The base state names another drive-base session, whose odometry is yet to
\* come, or another map; the tuning adapter reports another policy, or none.
OnBaseState(o) ==
  /\ pc = "idle" /\ o # origin
  /\ origin' = o
  /\ claims' \in {claims, claims \cup ({"hardware"} \cap Claims)}
  /\ UNCHANGED <<policy, granted, inVars, cbVars, wsVars, sessVars, drain>>

PolicyChanges(p) ==
  /\ p # policy
  /\ policy' = p
  /\ UNCHANGED <<claims, origin, granted, inVars, cbVars, wsVars, sessVars, drain>>

----------------------------------------------------------------------------
(* Time *)

Aged(r) == IF "age" \in DOMAIN r THEN [r EXCEPT !.age = Older(@, Stale)] ELSE r

\* A stamp ages while something will read it: last_received once the session is
\* accepted, preparing_at and the drain until then.
Advance ==
  /\ downAge' = Older(downAge, Stale)
  /\ queue' = [k \in DOMAIN queue |-> Aged(queue[k])]
  /\ latest' = Aged(latest) /\ release' = Aged(release)
  /\ cur' = Aged(cur) /\ rel' = Aged(rel) /\ smp' = Aged(smp)
  /\ session' = IF Accepted THEN [session EXCEPT !.age = Older(@, Timeout)]
                ELSE IF Preparing THEN [session EXCEPT !.prep = Older(@, PrepTimeout)]
                ELSE session
  /\ drain' = [t \in Topics |->
                 IF ~Preparing \/ drain[t].since < 0 THEN drain[t]
                 ELSE [since |-> Older(drain[t].since, DrainTime),
                       last  |-> Older(drain[t].last, DrainTime + 1)]]
  /\ UNCHANGED <<link, gen, invalidated, wire, cmds, pc, taken, envVars,
                 seen, vel, evid, src, replies>>

----------------------------------------------------------------------------
Link    == Dial \/ DialFails \/ HelloAcked \/ ClearConnected \/ BumpGeneration
           \/ TeleopDisconnected
Inbound == \/ \E i \in Ids : EnqueueCommand(StartCommand(i))
           \/ EnqueueCommand(StopCommand)
           \/ EnqueueCommand(PlainStop)
           \/ \E i \in Ids : \E v \in Speeds : EnqueueTeleop(Frame(i, wire[i], TRUE, v))
           \/ \E i \in Ids : EnqueueTeleop(Frame(i, wire[i], FALSE, 0))
Drains  == DrainBegin \/ DrainCommand \/ Handle \/ DrainRelease \/ DrainSample
Robot   == \/ \E c \in Claims : Claim(c) \/ Unclaim(c)
           \/ TuningIdle
           \/ \E t \in Topics : \E m \in {"zero", "moving", "invalid"} : OnBuffer(t, m)
           \/ \E o \in Origins : OnBaseState(o)
           \/ \E p \in Policies \cup {NoPolicy} : PolicyChanges(p)

Next == Link \/ Inbound \/ Drains \/ Tick \/ Robot \/ Advance

Spec == Init /\ [][Next]_vars

\* The executor finishes a callback it has begun and serves its timers in turn,
\* so a tick that is due again and again runs; time passes.  Nothing is assumed
\* of the connection, the dashboard or the robot.
FairSpec == Spec /\ WF_vars(Drains) /\ SF_vars(Tick) /\ WF_vars(Advance)

----------------------------------------------------------------------------
(* Properties *)

TypeOK ==
  /\ link \in {"down", "dialing", "up", "closing", "closed"}
  /\ gen \in 0 .. MaxGen /\ downAge \in 0 .. Stale
  /\ queue \in Seq(CommandSet) /\ Len(queue) <= QueueCap
  /\ latest \in FrameSet \cup {None} /\ release \in FrameSet \cup {None}
  /\ rel \in FrameSet \cup {None} /\ smp \in FrameSet \cup {None}
  /\ invalidated \in BOOLEAN /\ granted \in BOOLEAN /\ evid \in BOOLEAN
  /\ wire \in [Ids -> -1 .. MaxSeq + 1] /\ cmds \in 0 .. MaxCmds
  /\ pc \in {"idle", "commands", "handle", "sample"}
  /\ cur \in CommandSet \cup {None} /\ (pc = "handle" <=> cur # None)
  /\ session \in SessionSet \cup {NoSession} /\ seen \subseteq Ids
  /\ drain \in [Topics -> [since : -1 .. DrainTime, last : 0 .. DrainTime + 1]]
  /\ claims \subseteq Claims /\ origin \in Origins /\ policy \in Policies \cup {NoPolicy}
  /\ vel \in Nat /\ src \in [id : Ids, gen : 0 .. MaxGen] \cup {None}
  /\ replies \in [Ids -> [accepted : Nat, refused : Nat, results : Seq(Outcomes)]]
  /\ taken \in [Ids -> Nat]

\* The robot is asked to move, and told that someone holds the controls, only by
\* the accepted session, with a frame that
\* came on the connection the session was started on, and never faster than the
\* policy the session started under; the one exception is a zero that could not
\* be published, and then the session was reported failed, not succeeded or
\* canceled (TeleopSession.frame, end).
MotionIsOwned ==
  vel > 0 \/ evid =>
    IF Active
    THEN session.acked /\ src = [id |-> session.id, gen |-> session.gen] /\ vel <= session.policy
    ELSE replies[src.id].results = <<"failed">>

\* An answer that is still due: the start in hand, or the one being prepared.
Due(i) == (IF cur # None /\ cur.cmd = "teleop_start" /\ cur.id = i THEN 1 ELSE 0)
          + (IF Preparing /\ session.id = i THEN 1 ELSE 0)

\* What the dashboard was told of an id agrees with its session: every start
\* that was taken from the queue, a redelivered one too, is answered by exactly
\* one ack; at most one of them says yes, so a closed id never opens again; and
\* that yes is followed by exactly one result, once the session is over
\* (TeleopSession.start, confirm_start, end, _seen; _drain_commands).
VerdictMatchesSession ==
  \A i \in Ids :
    LET r == replies[i] IN
    /\ r.accepted + r.refused + Due(i) = taken[i]
    /\ r.accepted <= (IF i \in seen THEN 1 ELSE 0)
    /\ Len(r.results) = r.accepted - (IF Accepted /\ session.id = i THEN 1 ELSE 0)

\* Once the maintenance service was told that the web session is idle, no
\* session is open until maintenance lets go (RosTeleop._tuning_idle, safety).
MaintenanceExclusive == granted => ~Active

\* The stillness a preparing session counts was all observed after it started
\* (RosTeleop.handle clears the evidence of earlier sessions).
DrainIsOwn ==
  Preparing => \A t \in Topics : drain[t].since <= session.prep

\* A session begins and ends where everyone believes it does: the answers the
\* dashboard got, the idle that maintenance was promised and the stillness the
\* start waited for all belong to the session of TeleopSession at hand.
SessionIsKnown == VerdictMatchesSession /\ MaintenanceExclusive /\ DrainIsOwn

\* A drain that took the release of the accepted session leaves it closed,
\* whatever the policy, the safety readings and the other slot hold
\* ("Release always reaches the robot", TeleopSession.frame).
ReleaseHonoured ==
  [][/\ pc = "sample" /\ pc' = "idle"
     /\ rel # None /\ rel.gen = gen
     => ~(session'.id = rel.id /\ session'.acked)]_vars

\* A moving robot whose stream stops, whose connection is lost or whose operator
\* lets go is told to stop: the watchdog, not the dashboard, sees to it.
MotionEnds == (Accepted /\ vel > 0) ~> (~Accepted \/ vel = 0)

\* A start is answered: accepted once drained, or refused at the latest after
\* the 5 s (TeleopSession.tick).
StartIsAnswered == Preparing ~> ~Preparing

\* With the connection lost and coming back, nothing of a session waits for a
\* message that may never arrive: neither the wheels nor the operator
\* (TeleopSession.tick).
NothingHangs == MotionEnds /\ StartIsAnswered
=============================================================================
