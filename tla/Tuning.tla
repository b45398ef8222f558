------------------------------- MODULE Tuning -------------------------------
(***************************************************************************)
(* Tuning requests from the browser to the robot's core and back: the      *)
(* server's TuningBroker, the robot connection that carries the frames,    *)
(* the bridge's RosTuning adapter and the core service it calls.           *)
(*                                                                         *)
(* The server is one asyncio loop: a request runs from one await to the    *)
(* next, and its task waits for the socket (sending) or for the reply      *)
(* (waiting).  On the bridge the websocket thread queues requests and the  *)
(* ROS thread serves them, so a connection may be lost and made again      *)
(* between two statements of tick.  A frame is named by the call it        *)
(* carries; what the frame holds is wrap(Doc, User, issued).               *)
(***************************************************************************)
EXTENDS TuningRequest

CONSTANTS
  Call,       \* HTTP requests
  Id,         \* the request_id of each
  Doc, User,  \* the document and the credential of each
  MaxPending, \* TuningBroker.max_pending
  DedupeTtl,  \* TuningBroker.dedupe_ttl_s
  MaxQueue,   \* RosTuning's MAX_QUEUE
  Plans,      \* bounds: which requests come, and how much happens around them
  None

Change == {c \in Call : Doc[c].operation \in Mutations}

ASSUME TuningAssumption ==
  /\ DOMAIN Id = Call /\ DOMAIN Doc = Call /\ DOMAIN User = Call /\ None \notin Call
  /\ \A c \in Call \ Change : \A o \in Call \ {c} : Id[o] # Id[c]  \* reads are given a fresh uuid4
  /\ {MaxPending, MaxQueue, DedupeTtl} \subseteq Nat /\ DedupeTtl >= Lifetime
  /\ Plans \subseteq [calls : SUBSET Call, breaks : Nat, ticks : Nat, shutdown : BOOLEAN]

VARIABLES
  call,      \* what the server holds of each request
  seen,      \* _seen: when each request_id was last remembered
  conn, up,  \* the session in hub.robots, and whether it has its websocket
  replacing, \* the connection robot_connected is about to install, or 0
  leaving,   \* the session robot_disconnected is about to give up, or 0
  closed,    \* the server has shut down
  links,     \* connections the bridge has opened
  rlink,     \* the one it is on, or 0
  gen,       \* connection_generation
  down, upq, \* frames to the robot, and replies queued or on the wire
  queue,     \* RosTuning._queue
  hand,      \* what _dispatch is holding
  inflight,  \* RosTuning._inflight
  relay,     \* a reply on its way into WsClient.send
  core, res, \* external: calls the core service works on, and its results
  performed, \* external: changes the core has carried out
  clock,
  plan       \* the bounds of this behavior

serverVars == <<call, seen, conn, up, replacing, leaving, closed>>
wireVars   == <<down, upq>>
linkVars   == <<links, rlink, gen>>
tickVars   == <<hand, inflight, relay>>
coreVars   == <<core, res, performed>>
vars == <<serverVars, wireVars, linkVars, queue, tickVars, coreVars, clock, plan>>

NoReply == [out |-> "none", link |-> 0]
NoHand  == [at |-> "empty", call |-> None, gen |-> 0]
NoCall  == [call |-> None, gen |-> 0]
NoRelay == [call |-> None, out |-> "none"]
Never   == -(DedupeTtl + 1)

Fresh == [at |-> "new", sess |-> 0, issued |-> 0, reply |-> NoReply, answer |-> "open"]

Replies == {"ok", "no", "unknown", "invalid"}

TypeOK ==
  /\ \A c \in Call : /\ call[c].at \in {"new", "sending", "waiting", "done"}
                     /\ call[c].sess \in 0 .. plan.breaks + 1 /\ call[c].issued \in 0 .. plan.ticks
                     /\ call[c].reply.out \in Replies \cup {"none", "lost"}
                     /\ call[c].answer \in {"open", "refused", "ok", "no", "unknown", "unavailable"}
  /\ \A i \in DOMAIN seen : seen[i] \in {Never} \cup 0 .. plan.ticks
  /\ {conn, replacing, leaving, links, rlink} \subseteq 0 .. plan.breaks + 1 /\ up \in BOOLEAN
  /\ \A i \in DOMAIN down : down[i] \in Call
  /\ \A i \in DOMAIN upq : upq[i].call \in Call /\ upq[i].out \in Replies
  /\ Len(queue) <= MaxQueue /\ core \subseteq Call /\ performed \subseteq Change
  /\ inflight.call \in Call \cup {None} /\ relay.call \in Call \cup {None}

\* The robot is connected; nothing has been asked yet.
Init ==
  /\ call = [c \in Call |-> Fresh]
  /\ seen = [i \in {Id[c] : c \in Call} |-> Never]
  /\ conn = 1 /\ up = TRUE /\ replacing = 0 /\ leaving = 0 /\ closed = FALSE
  /\ links = 1 /\ rlink = 1 /\ gen = 1
  /\ down = <<>> /\ upq = <<>> /\ queue = <<>>
  /\ hand = NoHand /\ inflight = NoCall /\ relay = NoRelay
  /\ core = {} /\ res = [c \in Call |-> "none"] /\ performed = {} /\ clock = 0
  /\ plan \in Plans

----------------------------------------------------------------------------
(* The server: TuningBroker. *)

InFlight(c) == call[c].at \in {"sending", "waiting"}

_pending == {c \in Call : InFlight(c)}

bound(c) == up /\ conn = call[c].sess

\* Mutant: an id is forgotten in half the time, when its signature still lives.
SeenTooBriefly(i) == seen[i] + DedupeTtl \div 2 > clock

seen_recently(i) == seen[i] + DedupeTtl >= clock

in_flight_already(c) ==
  \E o \in _pending : Id[o] = Id[c]

duplicate(c) == in_flight_already(c) \/ (c \in Change /\ seen_recently(Id[c]))

\* Too many requests, or another change under way for the robot.
busy(c) ==
  \/ Cardinality(_pending) >= MaxPending
  \/ c \in Change /\ _pending \cap Change # {}

\* What the endpoint and the broker require of the request itself.
admitted(c) ==
  /\ c \in Change => post_admitted(Doc[c], TRUE, User[c])
  /\ User[c].valid /\ validate_request(Doc[c]) /\ require_administrator(User[c], Doc[c].operation)
  /\ actor_admitted(actor_from_user(User[c]))

\* The store of the browser (tuningStore: commitGroup, confirmRedeploy) keeps a
\* group's request_id, and sends it again only after a definite refusal; a
\* request may also be delivered twice while the first is remembered.
BrowserSends(c) ==
  \A o \in Call \ {c} : (Id[o] = Id[c] /\ call[o].at # "new") =>
    call[o].answer \in {"no", "refused"} \/ InFlight(o) \/ seen_recently(Id[c])

answered(c, what) ==
  [call EXCEPT ![c].at = "done", ![c].answer = what, ![c].reply = NoReply]

\* A change that may have reached the robot is unknown; a read can be repeated.
indeterminate(c) == answered(c, IF c \in Change THEN "unknown" ELSE "unavailable")

\* TuningBroker.request up to the send: available is whether the session is
\* online and advertises the capability, the key loads and the cached revision
\* does not contradict the request.
Request(c) ==
  /\ c \in plan.calls /\ call[c].at = "new" /\ ~closed /\ BrowserSends(c)
  /\ \E available \in BOOLEAN :
       IF ~admitted(c) \/ duplicate(c) \/ busy(c) \/ ~up \/ ~available
         THEN call' = answered(c, "refused") /\ UNCHANGED <<seen, down>>
         ELSE /\ call' = [call EXCEPT ![c] = [Fresh EXCEPT !.at = "sending", !.sess = conn, !.issued = clock]]
              /\ seen' = IF c \in Change THEN [seen EXCEPT ![Id[c]] = clock] ELSE seen
              /\ down' = IF rlink = conn THEN Append(down, c) ELSE down
  /\ UNCHANGED <<conn, up, replacing, leaving, closed, upq, linkVars, queue, tickVars, coreVars, clock, plan>>

Rest == <<seen, conn, up, replacing, leaving, closed, wireVars, linkVars, queue, tickVars, coreVars, clock, plan>>

SendReturns(c) ==
  /\ call[c].at = "sending"
  /\ call' = IF bound(c) THEN [call EXCEPT ![c].at = "waiting"] ELSE indeterminate(c)
  /\ UNCHANGED Rest

\* Mutant: a change whose send failed is reported as not made.
SendFailsRefused(c) ==
  /\ call[c].at = "sending" /\ call' = answered(c, "refused") /\ UNCHANGED Rest

\* The send raises or takes longer than five seconds, with the frame sent or not.
SendFails(c) == call[c].at = "sending" /\ call' = indeterminate(c) /\ UNCHANGED Rest

\* Mutant: only a read gives up waiting.
TimeoutOfReads(c) ==
  /\ call[c].at = "waiting" /\ call[c].reply = NoReply /\ c \notin Change
  /\ call' = indeterminate(c) /\ UNCHANGED Rest

Timeout(c) ==
  call[c].at = "waiting" /\ call[c].reply = NoReply /\ call' = indeterminate(c) /\ UNCHANGED Rest

\* Mutant: an ok reply is passed on whatever became of its session.
SettleUnbound(c) ==
  /\ call[c].at = "waiting" /\ call[c].reply # NoReply
  /\ call' = IF call[c].reply.out = "lost" THEN indeterminate(c) ELSE answered(c, call[c].reply.out)
  /\ UNCHANGED Rest

\* The task wakes up with its reply.
Settle(c) ==
  /\ call[c].at = "waiting" /\ call[c].reply # NoReply
  /\ LET out == call[c].reply.out
     IN call' = IF out = "lost" \/ (out = "ok" /\ ~bound(c)) THEN indeterminate(c)
                ELSE answered(c, out)
  /\ UNCHANGED Rest

Awaited(c) == InFlight(c) /\ call[c].reply = NoReply

\* A request whose reply cannot come any more.
given_up(c) ==
  [call[c] EXCEPT !.reply = [out |-> IF c \in Change THEN "unknown" ELSE "lost", link |-> 0]]

\* The broker's disconnected(session) and shutdown, as changes of call.
lost(session) ==
  [c \in Call |-> IF Awaited(c) /\ call[c].sess = session THEN given_up(c) ELSE call[c]]

shutdown == [c \in Call |-> IF Awaited(c) THEN given_up(c) ELSE call[c]]

\* The request a reply belongs to: sent on the very connection it came back on.
matching(m) == {c \in _pending : Id[c] = Id[m.call] /\ call[c].sess = m.link}

\* robot_ws and handle_response; a reply that does not validate settles its
\* request as unknown.
HandleResponse ==
  /\ upq # <<>> /\ Head(upq).link # 0
  /\ LET m == Head(upq)
         heard == IF m.link = conn /\ up /\ ~closed THEN matching(m) ELSE {}
         out == IF m.out = "invalid" THEN "unknown" ELSE m.out
     IN /\ call' = [c \in Call |-> IF c \in heard /\ call[c].reply = NoReply
                      THEN [call[c] EXCEPT !.reply = [out |-> out, link |-> m.link]] ELSE call[c]]
        /\ seen' = IF heard \cap Change # {} /\ m.out # "invalid"
                     THEN [seen EXCEPT ![Id[m.call]] = clock] ELSE seen
  /\ upq' = Tail(upq)
  /\ UNCHANGED <<conn, up, replacing, leaving, closed, down, linkVars, queue, tickVars, coreVars, clock, plan>>

\* TelemetryHub.stop, as far as it concerns tuning; nothing is admitted afterwards.
Shutdown ==
  /\ plan.shutdown /\ ~closed /\ closed' = TRUE
  /\ call' = shutdown
  /\ UNCHANGED <<seen, conn, up, replacing, leaving, wireVars, linkVars, queue, tickVars, coreVars, clock, plan>>

----------------------------------------------------------------------------
(* The connection. *)

\* RosTuning.disconnected: nothing is dispatched again, and nobody is told.
disconnected == queue' = <<>> /\ inflight' = NoCall

\* WsClient's session ends; replies still in its queue are taken out, those
\* already written may be lost too.
LinkBreaks ==
  /\ rlink # 0 /\ links <= plan.breaks /\ rlink' = 0 /\ gen' = gen + 1
  /\ down' = <<>> /\ \E n \in 0 .. Len(upq) : upq' = SubSeq(upq, 1, n)
  /\ disconnected
  /\ UNCHANGED <<serverVars, links, hand, relay, coreVars, clock, plan>>

\* WsClient._session and robot_connected up to its first await: the previous
\* session's requests are given up, but it stays in hub.robots.
Connects ==
  /\ rlink = 0 /\ replacing = 0 /\ ~closed
  /\ links' = links + 1 /\ gen' = gen + 1 /\ replacing' = links + 1
  /\ call' = lost(conn)
  /\ UNCHANGED <<seen, conn, up, leaving, closed, wireVars, rlink, queue, tickVars, coreVars, clock, plan>>

\* The new session is installed and server.hello_ack sent: the bridge is
\* connected, and sends what was put in its queue meanwhile.
Connected ==
  /\ replacing # 0
  /\ conn' = replacing /\ up' = TRUE /\ rlink' = replacing /\ replacing' = 0
  /\ upq' = [i \in DOMAIN upq |-> IF upq[i].link = 0 THEN [upq[i] EXCEPT !.link = replacing] ELSE upq[i]]
  /\ UNCHANGED <<call, seen, leaving, closed, down, links, gen, queue, tickVars, coreVars, clock, plan>>

\* The receive loop of the current session ends: robot_disconnected up to its await.
SocketEnds ==
  /\ up /\ conn # rlink /\ leaving = 0
  /\ \A i \in DOMAIN upq : upq[i].link # conn
  /\ leaving' = conn
  /\ UNCHANGED <<call, seen, conn, up, replacing, closed, wireVars, linkVars, queue, tickVars, coreVars, clock, plan>>

\* Its rest: the session it began with, which may have been replaced meanwhile.
Disconnected ==
  /\ leaving # 0
  /\ call' = lost(leaving) /\ up' = (up /\ conn # leaving) /\ leaving' = 0
  /\ UNCHANGED <<seen, conn, replacing, closed, wireVars, linkVars, queue, tickVars, coreVars, clock, plan>>

----------------------------------------------------------------------------
(* The bridge: RosTuning. *)

\* Mutant: the queue is not bounded.
EnqueueUnbounded ==
  /\ down # <<>> /\ down' = Tail(down) /\ queue' = Append(queue, Head(down))
  /\ UNCHANGED <<serverVars, upq, linkVars, tickVars, coreVars, clock, plan>>

\* The websocket thread.
Enqueue ==
  /\ down # <<>> /\ down' = Tail(down)
  /\ IF Len(queue) >= MaxQueue
       THEN upq' = Append(upq, [call |-> Head(down), out |-> "unknown", link |-> rlink]) /\ UNCHANGED queue
       ELSE queue' = Append(queue, Head(down)) /\ UNCHANGED upq
  /\ UNCHANGED <<serverVars, linkVars, tickVars, coreVars, clock, plan>>

TickFree == hand = NoHand /\ relay = NoRelay

\* tick takes the oldest request when none is in flight.
Pop ==
  /\ TickFree /\ inflight = NoCall /\ queue # <<>>
  /\ hand' = [at |-> "popped", call |-> Head(queue), gen |-> 0]
  /\ queue' = Tail(queue)
  /\ UNCHANGED <<serverVars, wireVars, linkVars, inflight, relay, coreVars, clock, plan>>

envelope(c) == wrap(Doc[c], User[c], call[c].issued)

\* _dispatch up to call_async: ready is service_is_ready, and starts whether
\* call_async returns.
Dispatch ==
  /\ hand.at = "popped"
  /\ \E ready, starts \in BOOLEAN :
       LET c == hand.call
           told == IF ~wrapper_admitted(envelope(c)) \/ ~ready THEN "no"
                   ELSE IF ~starts THEN "unknown" ELSE "none"
       IN IF told = "none"
            THEN /\ core' = core \cup {c} /\ hand' = [hand EXCEPT !.at = "called", !.gen = gen]
                 /\ UNCHANGED relay
            ELSE /\ hand' = NoHand /\ UNCHANGED core
                 /\ relay' = IF rlink = 0 THEN NoRelay ELSE [call |-> c, out |-> told]
  /\ UNCHANGED <<serverVars, wireVars, linkVars, queue, inflight, res, performed, clock, plan>>

\* The last statement of _dispatch; disconnected() may have run before it.
Dispatched ==
  /\ hand.at = "called"
  /\ inflight' = [call |-> hand.call, gen |-> hand.gen] /\ hand' = NoHand
  /\ UNCHANGED <<serverVars, wireVars, linkVars, queue, relay, coreVars, clock, plan>>

\* _finish: the result is relayed unless the connection has changed.
Finish ==
  /\ TickFree /\ inflight # NoCall /\ res[inflight.call] # "none"
  /\ inflight' = NoCall
  /\ relay' = IF inflight.gen # gen \/ rlink = 0 THEN NoRelay
              ELSE [call |-> inflight.call, out |-> res[inflight.call]]
  /\ UNCHANGED <<serverVars, wireVars, linkVars, queue, hand, coreVars, clock, plan>>

Deadline ==
  /\ TickFree /\ inflight # NoCall /\ res[inflight.call] = "none"
  /\ inflight' = NoCall
  /\ relay' = IF rlink = 0 THEN NoRelay ELSE [call |-> inflight.call, out |-> "unknown"]
  /\ UNCHANGED <<serverVars, wireVars, linkVars, queue, hand, coreVars, clock, plan>>

\* WsClient.send has seen connected set and appends under its lock: the
\* connection it appends for may be gone, or another one.
Relay ==
  /\ relay # NoRelay /\ relay' = NoRelay
  /\ upq' = Append(upq, [call |-> relay.call, out |-> relay.out, link |-> rlink])
  /\ UNCHANGED <<serverVars, down, linkVars, queue, hand, inflight, coreVars, clock, plan>>

----------------------------------------------------------------------------
(* External: the core's tuning service, which verifies a change's signature  *)
(* and carries it out or not.                                                *)

Serve(c) ==
  /\ c \in core /\ core' = core \ {c}
  /\ \E out \in {"ok", "no", "invalid"} :
       /\ c \in Change /\ ~verified(envelope(c), clock) => out = "no"
       /\ res' = IF c \in {hand.call, inflight.call} THEN [res EXCEPT ![c] = out] ELSE res
       /\ performed' = IF c \in Change /\ out # "no" THEN performed \cup {c} ELSE performed
  /\ UNCHANGED <<serverVars, wireVars, linkVars, queue, tickVars, clock, plan>>

Elapse ==
  /\ clock < plan.ticks /\ clock' = clock + 1
  /\ UNCHANGED <<serverVars, wireVars, linkVars, queue, tickVars, coreVars, plan>>

----------------------------------------------------------------------------
Wakes(c) == SendReturns(c) \/ SendFails(c) \/ Timeout(c) \/ Settle(c)

Server(c) == Request(c) \/ Wakes(c)

Link == LinkBreaks \/ Connects \/ Connected \/ SocketEnds \/ Disconnected

Bridge == Enqueue \/ Pop \/ Dispatch \/ Dispatched \/ Finish \/ Deadline \/ Relay

Next ==
  \/ \E c \in Call : Server(c) \/ Serve(c)
  \/ HandleResponse \/ Shutdown \/ Link \/ Bridge \/ Elapse

Spec == Init /\ [][Next]_vars

\* Only the server's own tasks are fair: send and wait_for have a time limit
\* and the loop runs every task that is ready.
FairSpec == Spec /\ \A c \in Call : WF_vars(Wakes(c))

----------------------------------------------------------------------------
\* A request_id never has two signatures the core would accept at once: a
\* resent change is held off for as long as the first could still be carried
\* out (_seen, dedupe_ttl_s and MAX_LIFETIME_MS).
OneLiveSignature ==
  \A c, o \in Change :
    (c # o /\ Id[c] = Id[o] /\ call[c].sess # 0 /\ call[o].sess # 0)
      => ~(verified(envelope(c), clock) /\ verified(envelope(o), clock))

\* What the server signs is what the robot end takes, and a request_id is never
\* carried out under two signatures: the checks of the two ends, the lifetime
\* of a signature and the server's memory of ids fit together.
SignaturesFit == OneLiveSignature /\ BridgeTakesWhatServerSends

\* An "ok" is passed to the browser only over the connection that still is the
\* robot's, and only when that very connection brought it (_bound_entry,
\* _bound): a view of a replaced session is never shown as current.
OkIsCurrent ==
  [][\A c \in Call : (call[c].answer = "open" /\ call'[c].answer = "ok") =>
       up /\ call[c].reply.link = conn]_vars

\* A request that was sent is answered (request's wait_for), whatever becomes of the robot, so the
\* robot's mutation lock and its place among the pending are given back.
EveryRequestSettles == \A c \in Call : InFlight(c) ~> call[c].at = "done"

\* The promise of TuningPromise to the user, kept by server, link and bridge together.
Told(c) == CASE call[c].answer \in {"refused", "no"} -> "no"
             [] OTHER -> call[c].answer

Promise == INSTANCE TuningPromise WITH
  Change <- Change, answer <- [c \in Change |-> Told(c)], performed <- performed

KeepsPromise == Promise!Spec
=============================================================================
