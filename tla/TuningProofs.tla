---------------------------- MODULE TuningProofs ----------------------------
(***************************************************************************)
(* Proofs about tuning requests, for any set of requests, ids, documents,  *)
(* users and bounds: the types, that a request_id never has two live       *)
(* signatures, that an "ok" comes over the current connection, and that    *)
(* server, link and bridge together keep TuningPromise.                    *)
(***************************************************************************)
EXTENDS Tuning, SequenceLemmas

Names(s) == [i \in DOMAIN s |-> s[i].call]

Link_ == 0 .. plan.breaks + 1
Tick_ == 0 .. plan.ticks
Ids == {Id[c] : c \in Call}

\* A reply that does not validate was put down as unknown.
ReplySet == [out : {"none", "ok", "no", "unknown", "lost"}, link : Link_]
CallSet == [at : {"new", "sending", "waiting", "done"}, sess : Link_, issued : Tick_,
            reply : ReplySet, answer : {"open", "refused", "ok", "no", "unknown", "unavailable"}]

----------------------------------------------------------------------------
(* Types.                                                                  *)

ServerTypes ==
  /\ plan \in Plans /\ clock \in Tick_
  /\ call \in [Call -> CallSet]
  /\ seen \in [Ids -> {Never} \cup Tick_]
  /\ conn \in Link_ \ {0} /\ replacing \in Link_ /\ leaving \in Link_
  /\ up \in BOOLEAN /\ closed \in BOOLEAN

LinkTypes ==
  /\ links \in Link_ /\ rlink \in Link_ /\ gen \in Nat
  /\ rlink = 0 /\ replacing = 0 => links <= plan.breaks
  /\ down \in Seq(Call)
  /\ upq \in Seq([call : Call, out : Replies, link : Link_])

BridgeTypes ==
  /\ queue \in Seq(Call) /\ Len(queue) <= MaxQueue
  /\ hand \in [at : {"popped", "called"}, call : Call, gen : Nat] \cup {NoHand}
  /\ inflight \in [call : Call, gen : Nat] \cup {NoCall}
  /\ relay \in [call : Call, out : Replies] \cup {NoRelay}
  /\ hand # NoHand => inflight = NoCall /\ relay = NoRelay
  /\ inflight # NoCall => relay = NoRelay
  /\ core \subseteq Call /\ performed \subseteq Change
  /\ res \in [Call -> {"none", "ok", "no", "invalid"}]

\* What the phase of a request says of its other fields.
Sent(c) == call[c].sess # 0

Shape(c) ==
  /\ call[c].at = "new" => call[c].answer = "open" /\ ~Sent(c) /\ call[c].reply = NoReply
  /\ InFlight(c) => call[c].answer = "open" /\ Sent(c)
  /\ call[c].reply.out = "none" => call[c].reply = NoReply
  /\ call[c].answer = "refused" => ~Sent(c)
  /\ c \in Change => call[c].answer # "unavailable"
  /\ call[c].reply.out = "ok" => call[c].reply.link = call[c].sess

CallShape == \A c \in Call : Shape(c)

TypeInv == ServerTypes /\ LinkTypes /\ BridgeTypes /\ CallShape

----------------------------------------------------------------------------
(* The server's memory of ids against the lifetime of a signature.         *)

\* A signed id was remembered when it was signed or later, and two signatures
\* of one id are further apart than that memory is long.
Remembered ==
  /\ \A i \in Ids : seen[i] <= clock
  /\ \A c \in Change : Sent(c) => call[c].issued <= clock /\ call[c].issued <= seen[Id[c]]
  /\ \A c, o \in Change : c # o /\ Id[c] = Id[o] /\ Sent(c) /\ Sent(o) =>
       call[c].issued + DedupeTtl < call[o].issued \/ call[o].issued + DedupeTtl < call[c].issued

----------------------------------------------------------------------------
(* Where a request is, and what its replies are worth.                     *)

Down == Range(down)
Queued == Range(queue)
Up == Range(Names(upq))
Held == {hand.call, inflight.call, relay.call} \ {None}
Popped == IF hand.at = "popped" THEN {hand.call} ELSE {}

\* Requests the core may still be asked for, or is working on.
Ahead == Down \cup Queued \cup Popped \cup core

\* A request is in one place at a time: its frame until the core has it, and
\* its one reply afterwards.
OnePlace ==
  /\ IsInjective(down) /\ IsInjective(queue) /\ IsInjective(Names(upq))
  /\ Down \cap Queued = {} /\ Down \cap Held = {} /\ Down \cap Up = {}
  /\ Queued \cap Held = {} /\ Queued \cap Up = {} /\ Held \cap Up = {}
  /\ core \cap (Down \cup Queued \cup Popped) = {}
  /\ performed \cap Ahead = {}
  /\ \A c \in Call : res[c] # "none" => c \notin Ahead
  /\ \A c \in Down \cup Queued \cup Held \cup Up \cup core \cup performed : Sent(c)
  /\ \A c \in Call : res[c] # "none" => Sent(c)

\* What "ok" and "no" mean for a change, at every place they pass through.
Means(c, out) ==
  c \in Change => /\ out = "ok" => c \in performed
                  /\ out = "no" => c \notin performed \cup Ahead

Backed ==
  /\ \A c \in Call : Means(c, res[c])
  /\ Means(relay.call, relay.out)
  /\ \A m \in Range(upq) : Means(m.call, m.out)
  /\ \A c \in Call : Means(c, call[c].reply.out) /\ Means(c, call[c].answer)
  /\ \A c \in Change : call[c].reply.out = "no" \/ call[c].answer = "no" => c \notin Held \cup Up

\* An id is sent again only once its earlier request was refused by the robot.
OneOpen ==
  \A c, o \in Call : c # o /\ Id[c] = Id[o] /\ Sent(c) /\ Sent(o) =>
    c \in Change /\ o \in Change /\ (call[c].answer = "no" \/ call[o].answer = "no")

Custody == OnePlace /\ Backed /\ OneOpen

IInv == TypeInv /\ Remembered /\ Custody

----------------------------------------------------------------------------
(* Lemmas about the changes of call the server makes.                      *)

Answers == {"open", "refused", "ok", "no", "unknown", "unavailable"}

\* The plan of a behavior has its bounds.
LEMMA PlanBounds ==
  ASSUME plan \in Plans
  PROVE  plan.breaks \in Nat /\ plan.ticks \in Nat
BY TuningAssumption

\* answered touches one request, and not what was signed for it.
LEMMA AnsweredIs ==
  ASSUME ServerTypes, NEW c \in Call, NEW what \in Answers
  PROVE  /\ answered(c, what) \in [Call -> CallSet]
         /\ answered(c, what)[c].at = "done" /\ answered(c, what)[c].answer = what
         /\ answered(c, what)[c].reply = NoReply
         /\ answered(c, what)[c].sess = call[c].sess /\ answered(c, what)[c].issued = call[c].issued
         /\ \A o \in Call \ {c} : answered(c, what)[o] = call[o]
<1> DEFINE new == [call[c] EXCEPT !.at = "done", !.answer = what, !.reply = NoReply]
<1>1. NoReply \in ReplySet
  BY PlanBounds DEF ServerTypes, NoReply, ReplySet, Link_
<1>2. call[c] \in CallSet /\ call \in [Call -> CallSet]
  BY DEF ServerTypes
<1>3. /\ new \in CallSet /\ new.at = "done" /\ new.answer = what /\ new.reply = NoReply
      /\ new.sess = call[c].sess /\ new.issued = call[c].issued
  BY <1>1, <1>2 DEF CallSet, Answers
<1>4. answered(c, what) = [call EXCEPT ![c] = new]
  BY <1>2 DEF answered, CallSet
<1> HIDE DEF new
<1> QED BY <1>2, <1>3, <1>4

\* given_up touches the reply only: a change's outcome is unknown.
LEMMA GivenUpIs ==
  ASSUME ServerTypes, NEW c \in Call
  PROVE  /\ given_up(c) \in CallSet
         /\ given_up(c).reply \in [out : {"unknown", "lost"}, link : {0}]
         /\ given_up(c).at = call[c].at /\ given_up(c).answer = call[c].answer
         /\ given_up(c).sess = call[c].sess /\ given_up(c).issued = call[c].issued
<1> DEFINE reply == [out |-> IF c \in Change THEN "unknown" ELSE "lost", link |-> 0]
<1>1. given_up(c) = [call[c] EXCEPT !.reply = reply]
  BY DEF given_up
<1>2. call[c] \in CallSet
  BY DEF ServerTypes
<1>3. reply \in [out : {"unknown", "lost"}, link : {0}] /\ reply \in ReplySet
  BY PlanBounds DEF ServerTypes, ReplySet, Link_
<1> HIDE DEF reply
<1> QED BY <1>1, <1>2, <1>3 DEF CallSet

\* lost and shutdown give up some of the awaited requests and touch no other.
LEMMA LostIs ==
  ASSUME ServerTypes, NEW new, new = shutdown \/ \E session : new = lost(session)
  PROVE  /\ new \in [Call -> CallSet]
         /\ \A c \in Call : new[c] = call[c] \/ (Awaited(c) /\ new[c] = given_up(c))
BY GivenUpIs DEF lost, shutdown, ServerTypes

\* The phases of a request are kept when replies are given up or one request is
\* answered.
LEMMA LostShape ==
  ASSUME ServerTypes, CallShape, call' = shutdown \/ \E session : call' = lost(session)
  PROVE  CallShape'
<1> SUFFICES ASSUME NEW c \in Call PROVE Shape(c)'
  BY DEF CallShape
<1>1. Shape(c) /\ (call'[c] = call[c] \/ (Awaited(c) /\ call'[c] = given_up(c)))
  BY LostIs DEF CallShape
<1>2. CASE call'[c] = call[c]
  BY <1>1, <1>2 DEF Shape, InFlight, Sent
<1>3. CASE Awaited(c) /\ call'[c] = given_up(c)
  BY <1>1, <1>3, GivenUpIs DEF Shape, InFlight, Sent, Awaited
<1> QED BY <1>1, <1>2, <1>3

LEMMA AnsweredShape ==
  ASSUME ServerTypes, CallShape, NEW c \in Call, NEW what \in Answers \ {"open"},
         what = "refused" => ~Sent(c), c \in Change => what # "unavailable",
         call' = answered(c, what)
  PROVE  CallShape'
<1> SUFFICES ASSUME NEW o \in Call PROVE Shape(o)'
  BY DEF CallShape
<1>1. Shape(o) /\ what \in Answers /\ NoReply.out = "none"
  BY DEF CallShape, NoReply
<1>2. CASE o = c
  BY <1>1, <1>2, AnsweredIs DEF Shape, InFlight, Sent
<1>3. CASE o # c
  <2>1. call'[o] = call[o]
    BY <1>1, <1>3, AnsweredIs
  <2> QED BY <1>1, <2>1 DEF Shape, InFlight, Sent
<1> QED BY <1>2, <1>3

----------------------------------------------------------------------------
(* Types are kept.                                                         *)

LEMMA InitTypes == Init => TypeInv
<1> SUFFICES ASSUME Init PROVE TypeInv
  OBVIOUS
<1> USE TuningAssumption, PlanBounds DEF Init
<1>0. 0 \in Link_ /\ 1 \in Link_ /\ 0 \in Tick_
  BY DEF Link_, Tick_
<1>1. NoReply \in ReplySet /\ NoReply.out = "none"
  BY <1>0 DEF NoReply, ReplySet
<1>2. Fresh \in CallSet
  BY <1>0, <1>1 DEF Fresh, CallSet
<1>3. call \in [Call -> CallSet] /\ seen \in [Ids -> {Never} \cup Tick_]
  BY <1>2 DEF Ids
<1>4. up \in BOOLEAN /\ closed \in BOOLEAN
  OBVIOUS
<1>8. ServerTypes
  BY <1>0, <1>3, <1>4 DEF ServerTypes
<1>5. LinkTypes
  BY <1>0 DEF LinkTypes
<1>6. BridgeTypes
  BY DEF BridgeTypes
<1>7. CallShape
  BY <1>1 DEF CallShape, Shape, Fresh, InFlight, Sent
<1> QED BY <1>5, <1>6, <1>7, <1>8 DEF TypeInv

\* The sets of types depend on the plan only.
LEMMA SameSets ==
  ASSUME plan' = plan
  PROVE  Link_' = Link_ /\ Tick_' = Tick_ /\ CallSet' = CallSet
BY DEF Link_, Tick_, CallSet, ReplySet

\* What Request makes of a request it sends.
asked(c) ==
  [call EXCEPT ![c] = [Fresh EXCEPT !.at = "sending", !.sess = conn, !.issued = clock]]

LEMMA AskedIs ==
  ASSUME ServerTypes, NEW c \in Call
  PROVE  /\ asked(c) \in [Call -> CallSet]
         /\ asked(c)[c].at = "sending" /\ asked(c)[c].sess = conn /\ asked(c)[c].issued = clock
         /\ asked(c)[c].reply = NoReply /\ asked(c)[c].answer = "open"
         /\ \A o \in Call \ {c} : asked(c)[o] = call[o]
<1> DEFINE new == [Fresh EXCEPT !.at = "sending", !.sess = conn, !.issued = clock]
<1>1. NoReply \in ReplySet /\ 0 \in Link_ /\ 0 \in Tick_
  BY PlanBounds DEF NoReply, ReplySet, Link_, Tick_, ServerTypes
<1>2. Fresh \in CallSet /\ Fresh.reply = NoReply /\ Fresh.answer = "open"
  BY <1>1 DEF CallSet, Fresh
<1>3. /\ new \in CallSet /\ new.at = "sending" /\ new.sess = conn /\ new.issued = clock
      /\ new.reply = NoReply /\ new.answer = "open"
  BY <1>2 DEF CallSet, ServerTypes
<1>4. asked(c) = [call EXCEPT ![c] = new] /\ call \in [Call -> CallSet]
  BY DEF asked, ServerTypes
<1> HIDE DEF new
<1> QED BY <1>3, <1>4

LEMMA RequestTypes ==
  ASSUME TypeInv, NEW c \in Call, Request(c)
  PROVE  TypeInv'
<1>1. plan' = plan /\ UNCHANGED <<conn, up, replacing, leaving, closed, upq, linkVars, queue, tickVars, coreVars, clock>>
  BY DEF Request
<1>2. ServerTypes /\ CallShape /\ LinkTypes /\ BridgeTypes /\ Shape(c)
  BY DEF TypeInv, CallShape
<1>3. CASE call' = answered(c, "refused") /\ UNCHANGED <<seen, down>>
  <2>1. call' \in [Call -> CallSet]
    BY <1>2, <1>3, AnsweredIs DEF Answers
  <2>2. ~Sent(c)
    BY <1>2 DEF Shape, Request
  <2>3. CallShape'
    BY <1>2, <1>3, <2>2, AnsweredShape DEF Answers
  <2>4. ServerTypes'
    BY <1>1, <1>2, <1>3, <2>1, SameSets DEF ServerTypes
  <2>5. LinkTypes' /\ BridgeTypes'
    BY <1>1, <1>2, <1>3, SameSets DEF LinkTypes, BridgeTypes, linkVars, tickVars, coreVars
  <2> QED BY <2>3, <2>4, <2>5 DEF TypeInv
<1>4. CASE /\ call' = asked(c)
           /\ seen' = IF c \in Change THEN [seen EXCEPT ![Id[c]] = clock] ELSE seen
           /\ down' = IF rlink = conn THEN Append(down, c) ELSE down
  <2>1. /\ call' \in [Call -> CallSet]
        /\ call'[c].at = "sending" /\ call'[c].sess = conn /\ call'[c].reply = NoReply
        /\ call'[c].answer = "open"
        /\ \A o \in Call \ {c} : call'[o] = call[o]
    BY <1>2, <1>4, AskedIs
  <2>2. conn # 0 /\ NoReply.out = "none"
    BY <1>2 DEF ServerTypes, NoReply
  <2>3. CallShape'
    BY <1>2, <2>1, <2>2 DEF CallShape, Shape, InFlight, Sent
  <2>4. seen' \in [Ids -> {Never} \cup Tick_]
    BY <1>2, <1>4 DEF ServerTypes, Ids
  <2>5. ServerTypes'
    BY <1>1, <1>2, <2>1, <2>4, SameSets DEF ServerTypes
  <2>6. down' \in Seq(Call)
    BY <1>2, <1>4, AppendOne DEF LinkTypes
  <2>7. LinkTypes' /\ BridgeTypes'
    BY <1>1, <1>2, <2>6, SameSets DEF LinkTypes, BridgeTypes, linkVars, tickVars, coreVars
  <2> QED BY <2>3, <2>5, <2>7 DEF TypeInv
<1> QED BY <1>3, <1>4 DEF Request, asked

\* What a task does when it wakes.
LEMMA WakesAs ==
  ASSUME TypeInv, NEW c \in Call, Wakes(c)
  PROVE  /\ InFlight(c) /\ UNCHANGED Rest
         /\ \/ call[c].at = "sending" /\ call' = [call EXCEPT ![c].at = "waiting"]
            \/ \E what \in {"ok", "no", "unknown", "unavailable"} :
                 /\ call' = answered(c, what)
                 /\ c \in Change => what # "unavailable"
                 /\ what \in {"ok", "no"} => call[c].reply.out = what
                 /\ what = "ok" => bound(c)
<1>1. /\ call[c] \in CallSet /\ Shape(c)
      /\ call[c].reply.out \in {"none", "ok", "no", "unknown", "lost"}
  BY DEF TypeInv, ServerTypes, CallShape, CallSet, ReplySet
<1>2. ASSUME call' = indeterminate(c)
      PROVE  \E what \in {"unknown", "unavailable"} :
               call' = answered(c, what) /\ (c \in Change => what # "unavailable")
  BY <1>2 DEF indeterminate
<1>3. CASE SendReturns(c)
  BY <1>2, <1>3 DEF SendReturns, InFlight
<1>4. CASE SendFails(c) \/ Timeout(c)
  BY <1>2, <1>4 DEF SendFails, Timeout, InFlight
<1>5. CASE Settle(c)
  <2>1. InFlight(c) /\ UNCHANGED Rest /\ call[c].reply # NoReply /\ call[c].reply.out # "none"
    BY <1>1, <1>5 DEF Settle, InFlight, Shape
  <2>2. CASE call' = indeterminate(c)
    BY <1>2, <2>1, <2>2
  <2>3. CASE /\ call' = answered(c, call[c].reply.out) /\ call[c].reply.out # "lost"
             /\ call[c].reply.out = "ok" => bound(c)
    BY <1>1, <2>1, <2>3
  <2> QED BY <1>5, <2>2, <2>3 DEF Settle
<1> QED BY <1>3, <1>4, <1>5 DEF Wakes

LEMMA WakesTypes ==
  ASSUME TypeInv, NEW c \in Call, Wakes(c)
  PROVE  TypeInv'
<1>1. ServerTypes /\ CallShape /\ LinkTypes /\ BridgeTypes /\ Shape(c)
  BY DEF TypeInv, CallShape
<1>2. InFlight(c) /\ UNCHANGED Rest
  BY WakesAs
<1>3. call' \in [Call -> CallSet] /\ CallShape'
  <2>1. CASE call[c].at = "sending" /\ call' = [call EXCEPT ![c].at = "waiting"]
    <3>1. call[c] \in CallSet /\ call \in [Call -> CallSet]
      BY <1>1 DEF ServerTypes
    <3>2. /\ call' \in [Call -> CallSet] /\ \A o \in Call \ {c} : call'[o] = call[o]
          /\ call'[c].at = "waiting" /\ call'[c].sess = call[c].sess
          /\ call'[c].reply = call[c].reply /\ call'[c].answer = call[c].answer
      BY <2>1, <3>1 DEF CallSet
    <3> QED BY <1>1, <1>2, <3>2 DEF CallShape, Shape, InFlight, Sent
  <2>2. CASE \E what \in {"ok", "no", "unknown", "unavailable"} :
               call' = answered(c, what) /\ (c \in Change => what # "unavailable")
    BY <1>1, <2>2, AnsweredIs, AnsweredShape DEF Answers
  <2> QED BY <2>1, <2>2, WakesAs
<1>4. ServerTypes' /\ LinkTypes' /\ BridgeTypes'
  BY <1>1, <1>2, <1>3, SameSets DEF Rest, ServerTypes, LinkTypes, BridgeTypes, linkVars, wireVars, tickVars, coreVars
<1> QED BY <1>3, <1>4 DEF TypeInv

\* A reply settles requests that wait for it, on its own connection only.
Hears(c, m) ==
  /\ InFlight(c) /\ call[c].reply = NoReply /\ Id[c] = Id[m.call] /\ call[c].sess = m.link
  /\ m.link = conn /\ up
  /\ call'[c].reply = [out |-> IF m.out = "invalid" THEN "unknown" ELSE m.out, link |-> m.link]
  /\ call'[c].at = call[c].at /\ call'[c].answer = call[c].answer
  /\ call'[c].sess = call[c].sess /\ call'[c].issued = call[c].issued

LEMMA HandleAs ==
  ASSUME TypeInv, HandleResponse, NEW m, m = Head(upq)
  PROVE  /\ upq # <<>> /\ m \in [call : Call, out : Replies, link : Link_] /\ m.link # 0
         /\ upq' = Tail(upq)
         /\ call' \in [Call -> CallSet]
         /\ \A c \in Call : call'[c] = call[c] \/ Hears(c, m)
         /\ \/ seen' = seen
            \/ /\ seen' = [seen EXCEPT ![Id[m.call]] = clock]
               /\ \E c \in Change : InFlight(c) /\ Id[c] = Id[m.call]
<1>1. /\ upq # <<>> /\ m \in [call : Call, out : Replies, link : Link_] /\ m.link # 0
      /\ upq' = Tail(upq)
  BY TakeFirst DEF TypeInv, LinkTypes, HandleResponse
<1> DEFINE heard == IF m.link = conn /\ up /\ ~closed THEN matching(m) ELSE {}
           reply == [out |-> IF m.out = "invalid" THEN "unknown" ELSE m.out, link |-> m.link]
<1>2. /\ call' = [c \in Call |-> IF c \in heard /\ call[c].reply = NoReply
                      THEN [call[c] EXCEPT !.reply = reply] ELSE call[c]]
      /\ seen' = IF heard \cap Change # {} /\ m.out # "invalid"
                     THEN [seen EXCEPT ![Id[m.call]] = clock] ELSE seen
  BY DEF HandleResponse
<1>3. reply \in ReplySet
  BY <1>1 DEF ReplySet, Replies
<1>4. \A c \in heard : /\ c \in Call /\ InFlight(c) /\ Id[c] = Id[m.call] /\ call[c].sess = m.link
                       /\ m.link = conn /\ up
  BY DEF matching, _pending
<1> HIDE DEF heard
<1>5. ASSUME NEW c \in Call
      PROVE  call'[c] \in CallSet /\ (call'[c] = call[c] \/ Hears(c, m))
  <2>1. call[c] \in CallSet
    BY DEF TypeInv, ServerTypes
  <2>2. CASE c \in heard /\ call[c].reply = NoReply
    <3>1. call'[c] = [call[c] EXCEPT !.reply = reply]
      BY <1>2, <2>2
    <3> HIDE DEF reply
    <3>2. /\ call'[c] \in CallSet /\ call'[c].reply = reply
          /\ call'[c].at = call[c].at /\ call'[c].answer = call[c].answer
          /\ call'[c].sess = call[c].sess /\ call'[c].issued = call[c].issued
      BY <1>3, <2>1, <3>1 DEF CallSet
    <3>3. call'[c].reply = [out |-> IF m.out = "invalid" THEN "unknown" ELSE m.out, link |-> m.link]
      BY <3>2 DEF reply
    <3> QED BY <1>4, <2>2, <3>2, <3>3 DEF Hears
  <2>3. CASE ~(c \in heard /\ call[c].reply = NoReply)
    BY <1>2, <2>1, <2>3
  <2> QED BY <2>2, <2>3
<1>6. call' \in [Call -> CallSet]
  <2> HIDE DEF reply
  <2> QED BY <1>2, <1>5
<1>7. \/ seen' = seen
      \/ /\ seen' = [seen EXCEPT ![Id[m.call]] = clock]
         /\ \E c \in Change : InFlight(c) /\ Id[c] = Id[m.call]
  BY <1>2, <1>4
<1> QED BY <1>1, <1>5, <1>6, <1>7

LEMMA HandleTypes ==
  ASSUME TypeInv, HandleResponse
  PROVE  TypeInv'
<1> DEFINE m == Head(upq)
<1>1. /\ upq # <<>> /\ m \in [call : Call, out : Replies, link : Link_] /\ m.link # 0
      /\ upq' = Tail(upq) /\ call' \in [Call -> CallSet]
      /\ \A c \in Call : call'[c] = call[c] \/ Hears(c, m)
      /\ seen' = seen \/ seen' = [seen EXCEPT ![Id[m.call]] = clock]
  BY HandleAs
<1> HIDE DEF m
<1>2. ServerTypes /\ CallShape /\ LinkTypes /\ BridgeTypes
  BY DEF TypeInv
<1>3. CallShape'
  <2> SUFFICES ASSUME NEW c \in Call PROVE Shape(c)'
    BY DEF CallShape
  <2>1. Shape(c)
    BY <1>2 DEF CallShape
  <2>2. CASE call'[c] = call[c]
    BY <2>1, <2>2 DEF Shape, InFlight, Sent
  <2>3. CASE Hears(c, m)
    BY <1>1, <2>1, <2>3 DEF Shape, InFlight, Sent, Hears, Replies
  <2> QED BY <1>1, <2>2, <2>3
<1>4. seen' \in [Ids -> {Never} \cup Tick_]
  BY <1>1, <1>2 DEF ServerTypes
<1>5. /\ plan' = plan
      /\ UNCHANGED <<conn, up, replacing, leaving, closed, down, linkVars, queue, tickVars, coreVars, clock>>
  BY DEF HandleResponse
<1>6. ServerTypes'
  BY <1>1, <1>2, <1>4, <1>5, SameSets DEF ServerTypes
<1>7. upq' \in Seq([call : Call, out : Replies, link : Link_])
  BY <1>1, <1>2, TakeFirst DEF LinkTypes
<1>8. LinkTypes' /\ BridgeTypes'
  BY <1>2, <1>5, <1>7, SameSets DEF LinkTypes, BridgeTypes, linkVars, tickVars, coreVars
<1> QED BY <1>3, <1>6, <1>8 DEF TypeInv

\* The server gives requests up.
GivesUp == Shutdown \/ Connects \/ Disconnected

LEMMA GivesUpTypes ==
  ASSUME TypeInv, GivesUp
  PROVE  TypeInv'
<1>1. ServerTypes /\ CallShape /\ LinkTypes /\ BridgeTypes
  BY DEF TypeInv
<1>2. call' = shutdown \/ \E session : call' = lost(session)
  BY DEF GivesUp, Shutdown, Connects, Disconnected
<1>3. call' \in [Call -> CallSet] /\ CallShape'
  BY <1>1, <1>2, LostIs, LostShape
<1>4. plan' = plan /\ UNCHANGED <<seen, conn, wireVars, rlink, queue, tickVars, coreVars, clock>>
  BY DEF GivesUp, Shutdown, Connects, Disconnected, linkVars
<1>5. /\ replacing' \in Link_ /\ leaving' \in Link_ /\ links' \in Link_ /\ gen' \in Nat
      /\ up' \in BOOLEAN /\ closed' \in BOOLEAN
      /\ rlink' = 0 /\ replacing' = 0 => links' <= plan'.breaks
  <2>1. plan.breaks \in Nat /\ 0 \in Link_
    BY <1>1, PlanBounds DEF ServerTypes, Link_
  <2>2. CASE Shutdown
    BY <1>1, <2>2 DEF Shutdown, linkVars, ServerTypes, LinkTypes
  <2>3. CASE Connects
    <3>1. links + 1 \in Link_
      BY <1>1, <2>1, <2>3 DEF Connects, LinkTypes, Link_
    <3> QED BY <1>1, <2>1, <2>3, <3>1 DEF Connects, ServerTypes, LinkTypes, Link_
  <2>4. CASE Disconnected
    <3>1. up' \in BOOLEAN
      BY <2>4 DEF Disconnected
    <3> QED BY <1>1, <2>1, <2>4, <3>1 DEF Disconnected, linkVars, ServerTypes, LinkTypes
  <2> QED BY <2>2, <2>3, <2>4 DEF GivesUp
<1>6. ServerTypes' /\ LinkTypes' /\ BridgeTypes'
  BY <1>1, <1>3, <1>4, <1>5, SameSets DEF ServerTypes, LinkTypes, BridgeTypes, wireVars, tickVars, coreVars
<1> QED BY <1>3, <1>6 DEF TypeInv

\* The connection, the wire and the clock.
LEMMA LinkTypesKept ==
  ASSUME TypeInv, LinkBreaks \/ Connected \/ SocketEnds \/ Elapse
  PROVE  TypeInv'
<1>1. ServerTypes /\ CallShape /\ LinkTypes /\ BridgeTypes
  BY DEF TypeInv
<1>2. plan' = plan /\ call' = call
  BY DEF LinkBreaks, Connected, SocketEnds, Elapse, serverVars
<1>3. CallShape'
  BY <1>1, <1>2 DEF CallShape, Shape, InFlight, Sent
<1>4. plan.breaks \in Nat /\ plan.ticks \in Nat /\ 0 \in Link_
  BY <1>1, PlanBounds DEF ServerTypes, Link_
<1>5. CASE LinkBreaks
  <2>1. upq' \in Seq([call : Call, out : Replies, link : Link_])
    BY <1>1, <1>5, KeepPrefix DEF LinkBreaks, LinkTypes
  <2>2. queue' \in Seq(Call) /\ Len(queue') <= MaxQueue
    BY <1>5, TuningAssumption DEF LinkBreaks, disconnected
  <2>3. ServerTypes'
    BY <1>1, <1>2, <1>5, SameSets DEF LinkBreaks, ServerTypes, serverVars
  <2>4. LinkTypes'
    BY <1>1, <1>2, <1>4, <1>5, <2>1, SameSets DEF LinkBreaks, LinkTypes, serverVars
  <2>5. BridgeTypes'
    BY <1>1, <1>5, <2>2 DEF LinkBreaks, BridgeTypes, disconnected, coreVars
  <2> QED BY <1>3, <2>3, <2>4, <2>5 DEF TypeInv
<1>6. CASE Connected
  <2>1. upq' \in Seq([call : Call, out : Replies, link : Link_])
    <3> DEFINE R == [call : Call, out : Replies, link : Link_]
    <3>1. /\ upq' = [i \in 1 .. Len(upq) |-> IF upq[i].link = 0 THEN [upq[i] EXCEPT !.link = replacing] ELSE upq[i]]
          /\ Len(upq) \in Nat /\ \A i \in 1 .. Len(upq) : upq[i] \in R
      <4>1. upq \in Seq(R)
        BY <1>1 DEF LinkTypes
      <4>2. upq' = [i \in DOMAIN upq |-> IF upq[i].link = 0 THEN [upq[i] EXCEPT !.link = replacing] ELSE upq[i]]
        BY <1>6 DEF Connected
      <4> HIDE DEF R
      <4>3. Len(upq) \in Nat /\ DOMAIN upq = 1 .. Len(upq) /\ \A i \in 1 .. Len(upq) : upq[i] \in R
        BY <4>1
      <4> QED BY <4>2, <4>3
    <3>2. \A i \in 1 .. Len(upq) : upq'[i] \in R
      BY <1>1, <3>1 DEF ServerTypes
    <3> HIDE DEF R
    <3> QED BY <3>1, <3>2 DEF R
  <2>2. ServerTypes'
    BY <1>1, <1>2, <1>4, <1>6, SameSets DEF Connected, ServerTypes
  <2>3. LinkTypes'
    BY <1>1, <1>2, <1>6, <2>1, SameSets DEF Connected, LinkTypes, ServerTypes
  <2>4. BridgeTypes'
    BY <1>1, <1>6 DEF Connected, BridgeTypes, tickVars, coreVars
  <2> QED BY <1>3, <2>2, <2>3, <2>4 DEF TypeInv
<1>7. CASE SocketEnds
  <2>1. ServerTypes'
    BY <1>1, <1>2, <1>7, SameSets DEF SocketEnds, ServerTypes
  <2>2. LinkTypes' /\ BridgeTypes'
    BY <1>1, <1>2, <1>7, SameSets DEF SocketEnds, LinkTypes, BridgeTypes, linkVars, wireVars, tickVars, coreVars
  <2> QED BY <1>3, <2>1, <2>2 DEF TypeInv
<1>8. CASE Elapse
  <2>1. clock' \in Tick_
    BY <1>1, <1>4, <1>8 DEF Elapse, ServerTypes, Tick_
  <2>2. ServerTypes'
    BY <1>1, <1>2, <1>8, <2>1, SameSets DEF Elapse, ServerTypes, serverVars
  <2>3. LinkTypes' /\ BridgeTypes'
    BY <1>1, <1>2, <1>8, SameSets DEF Elapse, LinkTypes, BridgeTypes, linkVars, wireVars, tickVars, coreVars, serverVars
  <2> QED BY <1>3, <2>2, <2>3 DEF TypeInv
<1> QED BY <1>5, <1>6, <1>7, <1>8

\* The bridge and the core.
LEMMA BridgeTypesKept ==
  ASSUME TypeInv, Bridge \/ \E c \in Call : Serve(c)
  PROVE  TypeInv'
<1>1. ServerTypes /\ CallShape /\ LinkTypes /\ BridgeTypes
  BY DEF TypeInv
<1>2. plan' = plan /\ UNCHANGED <<serverVars, linkVars, clock>>
  BY DEF Bridge, Enqueue, Pop, Dispatch, Dispatched, Finish, Deadline, Relay, Serve
<1>3. CallShape' /\ ServerTypes'
  BY <1>1, <1>2, SameSets DEF CallShape, Shape, InFlight, Sent, ServerTypes, serverVars
<1>4. /\ \A c \in Call : c # None
      /\ \A h \in [at : {"popped", "called"}, call : Call, gen : Nat] : h # NoHand
      /\ \A h \in [call : Call, gen : Nat] : h # NoCall
      /\ \A h \in [call : Call, out : Replies] : h # NoRelay
  BY TuningAssumption DEF NoHand, NoCall, NoRelay
<1>5. ASSUME upq' \in Seq([call : Call, out : Replies, link : Link_]), down' \in Seq(Call)
      PROVE  LinkTypes'
  BY <1>1, <1>2, <1>5, SameSets DEF LinkTypes, linkVars, serverVars
<1>6. CASE Enqueue
  <2>1. down # <<>> /\ Head(down) \in Call /\ down' \in Seq(Call)
    BY <1>1, <1>6, TakeFirst DEF Enqueue, LinkTypes
  <2>2. CASE UNCHANGED queue /\ upq' = Append(upq, [call |-> Head(down), out |-> "unknown", link |-> rlink])
    <3>1. upq' \in Seq([call : Call, out : Replies, link : Link_])
      BY <1>1, <2>1, <2>2, AppendOne DEF LinkTypes, Replies
    <3>2. BridgeTypes'
      BY <1>1, <1>6, <2>2 DEF Enqueue, BridgeTypes, tickVars, coreVars
    <3> QED BY <1>3, <1>5, <2>1, <3>1, <3>2 DEF TypeInv
  <2>3. CASE UNCHANGED upq /\ Len(queue) < MaxQueue /\ queue' = Append(queue, Head(down))
    <3>1. queue' \in Seq(Call) /\ Len(queue') <= MaxQueue
      BY <1>1, <2>1, <2>3, AppendOne, TuningAssumption DEF BridgeTypes
    <3>2. BridgeTypes'
      BY <1>1, <1>6, <3>1 DEF Enqueue, BridgeTypes, tickVars, coreVars
    <3> QED BY <1>1, <1>3, <1>5, <2>1, <2>3, <3>2 DEF TypeInv, LinkTypes
  <2> QED BY <1>1, <1>6, <2>2, <2>3, TuningAssumption DEF Enqueue, BridgeTypes
<1>7. CASE Pop
  <2>1. queue # <<>> /\ Head(queue) \in Call /\ queue' \in Seq(Call) /\ Len(queue') <= MaxQueue
    BY <1>1, <1>7, TakeFirst, TuningAssumption DEF Pop, BridgeTypes
  <2>2. BridgeTypes'
    BY <1>1, <1>7, <2>1 DEF Pop, BridgeTypes, TickFree, coreVars
  <2> QED BY <1>1, <1>3, <1>5, <1>7, <2>2 DEF Pop, TypeInv, LinkTypes, wireVars
<1>8. CASE Dispatch
  <2>1. hand # NoHand /\ hand \in [at : {"popped", "called"}, call : Call, gen : Nat]
        /\ inflight = NoCall /\ relay = NoRelay
    BY <1>1, <1>8 DEF Dispatch, BridgeTypes, NoHand
  <2>2. \/ /\ core' = core \cup {hand.call} /\ hand' = [hand EXCEPT !.at = "called", !.gen = gen]
           /\ UNCHANGED relay
        \/ /\ hand' = NoHand /\ UNCHANGED core
           /\ \E told \in {"no", "unknown"} :
                relay' = IF rlink = 0 THEN NoRelay ELSE [call |-> hand.call, out |-> told]
    BY <1>8 DEF Dispatch
  <2>3. BridgeTypes'
    <3>1. inflight' = NoCall /\ UNCHANGED <<queue, res, performed>> /\ hand.call \in Call
      BY <1>8, <2>1 DEF Dispatch
    <3>2. CASE /\ core' = core \cup {hand.call} /\ hand' = [hand EXCEPT !.at = "called", !.gen = gen]
               /\ UNCHANGED relay
      <4>1. hand' \in [at : {"popped", "called"}, call : Call, gen : Nat] /\ relay' = NoRelay
        BY <1>1, <2>1, <3>2 DEF LinkTypes
      <4>2. core' \subseteq Call
        BY <1>1, <3>1, <3>2 DEF BridgeTypes
      <4> QED BY <1>1, <3>1, <4>1, <4>2 DEF BridgeTypes
    <3>3. CASE /\ hand' = NoHand /\ UNCHANGED core
               /\ \E told \in {"no", "unknown"} :
                    relay' = IF rlink = 0 THEN NoRelay ELSE [call |-> hand.call, out |-> told]
      <4>1. relay' \in [call : Call, out : Replies] \cup {NoRelay}
        BY <3>1, <3>3 DEF Replies
      <4> QED BY <1>1, <3>1, <3>3, <4>1 DEF BridgeTypes
    <3> QED BY <2>2, <3>2, <3>3
  <2> QED BY <1>1, <1>3, <1>5, <1>8, <2>3 DEF Dispatch, TypeInv, LinkTypes, wireVars
<1>9. CASE Dispatched
  <2>1. hand # NoHand /\ hand \in [at : {"popped", "called"}, call : Call, gen : Nat]
        /\ relay = NoRelay
    BY <1>1, <1>9 DEF Dispatched, BridgeTypes, NoHand
  <2>2. BridgeTypes'
    BY <1>1, <1>9, <2>1 DEF Dispatched, BridgeTypes, coreVars
  <2> QED BY <1>1, <1>3, <1>5, <1>9, <2>2 DEF Dispatched, TypeInv, LinkTypes, wireVars
<1>10. CASE Finish \/ Deadline
  <2>1. /\ inflight \in [call : Call, gen : Nat] /\ hand = NoHand /\ relay = NoRelay
        /\ inflight' = NoCall /\ UNCHANGED <<wireVars, queue, hand, coreVars>>
    BY <1>1, <1>10 DEF Finish, Deadline, BridgeTypes, TickFree
  <2>2. relay' = NoRelay \/ \E out \in Replies : relay' = [call |-> inflight.call, out |-> out]
    BY <1>1, <1>10, <2>1 DEF Finish, Deadline, BridgeTypes, Replies
  <2>3. BridgeTypes'
    BY <1>1, <2>1, <2>2 DEF BridgeTypes, coreVars
  <2> QED BY <1>1, <1>3, <1>5, <2>1, <2>3 DEF TypeInv, LinkTypes, wireVars
<1>11. CASE Relay
  <2>1. relay \in [call : Call, out : Replies]
    BY <1>1, <1>11 DEF Relay, BridgeTypes
  <2>2. upq' \in Seq([call : Call, out : Replies, link : Link_])
    BY <1>1, <1>11, <2>1, AppendOne DEF Relay, LinkTypes
  <2>3. BridgeTypes'
    BY <1>1, <1>11 DEF Relay, BridgeTypes, coreVars
  <2> QED BY <1>1, <1>3, <1>5, <1>11, <2>2, <2>3 DEF Relay, TypeInv, LinkTypes
<1>12. ASSUME NEW c \in Call, Serve(c) PROVE TypeInv'
  <2>1. core' = core \ {c} /\ UNCHANGED <<wireVars, queue, tickVars>>
    BY <1>12 DEF Serve
  <2>2. PICK out \in {"ok", "no", "invalid"} :
          /\ res' = IF c \in {hand.call, inflight.call} THEN [res EXCEPT ![c] = out] ELSE res
          /\ performed' = IF c \in Change /\ out # "no" THEN performed \cup {c} ELSE performed
    BY <1>12 DEF Serve
  <2>3. res' \in [Call -> {"none", "ok", "no", "invalid"}] /\ performed' \subseteq Change
    BY <1>1, <2>2 DEF BridgeTypes
  <2>4. BridgeTypes'
    BY <1>1, <2>1, <2>3 DEF BridgeTypes, tickVars
  <2> QED BY <1>1, <1>3, <1>5, <2>1, <2>4 DEF TypeInv, LinkTypes, wireVars
<1> QED BY <1>6, <1>7, <1>8, <1>9, <1>10, <1>11, <1>12 DEF Bridge

\* Every step keeps the types.
LEMMA TypesKept == TypeInv /\ [Next]_vars => TypeInv'
<1> SUFFICES ASSUME TypeInv, [Next]_vars PROVE TypeInv'
  OBVIOUS
<1>1. CASE UNCHANGED vars
  <2>1. UNCHANGED <<serverVars, wireVars, linkVars, queue, tickVars, coreVars, clock, plan>>
    BY <1>1 DEF vars
  <2>2. ServerTypes' /\ LinkTypes' /\ BridgeTypes'
    BY <2>1, SameSets DEF TypeInv, ServerTypes, LinkTypes, BridgeTypes, serverVars, linkVars, wireVars, tickVars, coreVars
  <2>3. CallShape'
    BY <2>1 DEF TypeInv, CallShape, Shape, InFlight, Sent, serverVars
  <2> QED BY <2>2, <2>3 DEF TypeInv
<1>2. CASE Next
  BY <1>2, RequestTypes, WakesTypes, HandleTypes, GivesUpTypes, LinkTypesKept, BridgeTypesKept
  DEF Next, Server, Link, GivesUp
<1> QED BY <1>1, <1>2

LEMMA TypeCorrect == Spec => []TypeInv
<1> QED BY InitTypes, TypesKept, PTL DEF Spec

\* Whatever happens, a request's task is one of the few phases, its session one
\* of the connections there have been, and the bridge's queue within MAX_QUEUE.
THEOREM TypesHold == Spec => []TypeOK
<1>1. TypeInv => TypeOK
  <2> SUFFICES ASSUME TypeInv PROVE TypeOK
    OBVIOUS
  <2>1. \A c \in Call : call[c] \in CallSet
    BY DEF TypeInv, ServerTypes
  <2>2. \A c \in Call : /\ call[c].at \in {"new", "sending", "waiting", "done"}
                        /\ call[c].sess \in 0 .. plan.breaks + 1 /\ call[c].issued \in 0 .. plan.ticks
                        /\ call[c].reply.out \in Replies \cup {"none", "lost"}
                        /\ call[c].answer \in {"open", "refused", "ok", "no", "unknown", "unavailable"}
    BY <2>1 DEF CallSet, ReplySet, Replies, Link_, Tick_
  <2>3. /\ \A i \in DOMAIN seen : seen[i] \in {Never} \cup 0 .. plan.ticks
        /\ {conn, replacing, leaving, links, rlink} \subseteq 0 .. plan.breaks + 1 /\ up \in BOOLEAN
    BY DEF TypeInv, ServerTypes, LinkTypes, Link_, Tick_
  <2>4. /\ \A i \in DOMAIN down : down[i] \in Call
        /\ \A i \in DOMAIN upq : upq[i].call \in Call /\ upq[i].out \in Replies
    <3> DEFINE R == [call : Call, out : Replies, link : Link_]
    <3>1. down \in Seq(Call) /\ upq \in Seq(R)
      BY DEF TypeInv, LinkTypes
    <3>2. \A m \in R : m.call \in Call /\ m.out \in Replies
      OBVIOUS
    <3> HIDE DEF R
    <3>3. (\A i \in DOMAIN down : down[i] \in Call) /\ (\A i \in DOMAIN upq : upq[i] \in R)
      BY <3>1
    <3> QED BY <3>2, <3>3
  <2>5. /\ Len(queue) <= MaxQueue /\ core \subseteq Call /\ performed \subseteq Change
        /\ inflight.call \in Call \cup {None} /\ relay.call \in Call \cup {None}
    BY DEF TypeInv, BridgeTypes, NoCall, NoRelay
  <2> QED BY <2>2, <2>3, <2>4, <2>5 DEF TypeOK
<1> QED BY <1>1, TypeCorrect, PTL

----------------------------------------------------------------------------
(* An "ok" comes over the current connection.                              *)

\* Answers are given by Request and by the tasks that wake.
LEMMA AnswersKept ==
  ASSUME TypeInv, [Next]_vars, ~\E c \in Call : Server(c)
  PROVE  \A c \in Call : call'[c].answer = call[c].answer
<1>1. CASE call' = call
  BY <1>1
<1>2. CASE HandleResponse
  BY <1>2, HandleAs DEF Hears
<1>3. CASE GivesUp
  <2>1. call' = shutdown \/ \E session : call' = lost(session)
    BY <1>3 DEF GivesUp, Shutdown, Connects, Disconnected
  <2>2. ServerTypes
    BY DEF TypeInv
  <2> QED BY <2>1, <2>2, LostIs, GivenUpIs
<1>4. call' = call \/ HandleResponse \/ GivesUp
  BY DEF Next, vars, serverVars, Server, Link, GivesUp, Bridge, LinkBreaks, Connected, SocketEnds, Elapse,
    Enqueue, Pop, Dispatch, Dispatched, Finish, Deadline, Relay, Serve
<1> QED BY <1>1, <1>2, <1>3, <1>4

\* A view is shown as current only if the robot's present connection brought it:
\* Settle asks _bound, and a reply is kept only by a request of its own session.
THEOREM OkComesFromTheRobot == Spec => OkIsCurrent
<1> DEFINE Step == \A c \in Call : (call[c].answer = "open" /\ call'[c].answer = "ok") =>
                     up /\ call[c].reply.link = conn
<1>1. TypeInv /\ [Next]_vars => Step
  <2> SUFFICES ASSUME TypeInv, [Next]_vars, NEW c \in Call, call[c].answer = "open", call'[c].answer = "ok"
               PROVE  up /\ call[c].reply.link = conn
    OBVIOUS
  <2>1. ServerTypes /\ Shape(c)
    BY DEF TypeInv, CallShape
  <2>2. PICK o \in Call : Server(o)
    BY AnswersKept
  <2>3. CASE Request(o)
    <3>1. call' = answered(o, "refused") \/ call' = asked(o)
      BY <2>3 DEF Request, asked
    <3>2. call'[c].answer \in {call[c].answer, "refused", "open"}
      <4>1. CASE call' = answered(o, "refused")
        <5>1. "refused" \in Answers
          BY DEF Answers
        <5>2. call'[o].answer = "refused" /\ \A a \in Call \ {o} : call'[a] = call[a]
          BY <2>1, <4>1, <5>1, AnsweredIs
        <5> QED BY <5>2
      <4>2. CASE call' = asked(o)
        BY <2>1, <4>2, AskedIs
      <4> QED BY <3>1, <4>1, <4>2
    <3> QED BY <3>2
  <2>4. CASE Wakes(o)
    <3>1. CASE call' = [call EXCEPT ![o].at = "waiting"]
      BY <2>1, <3>1 DEF ServerTypes, CallSet
    <3>2. CASE \E what \in {"ok", "no", "unknown", "unavailable"} :
                 /\ call' = answered(o, what)
                 /\ what \in {"ok", "no"} => call[o].reply.out = what
                 /\ what = "ok" => bound(o)
      <4>1. PICK what \in {"ok", "no", "unknown", "unavailable"} :
                 /\ call' = answered(o, what)
                 /\ what \in {"ok", "no"} => call[o].reply.out = what
                 /\ what = "ok" => bound(o)
        BY <3>2
      <4>2. o = c /\ what = "ok"
        <5>1. what \in Answers
          BY DEF Answers
        <5>2. call'[o].answer = what /\ \A a \in Call \ {o} : call'[a] = call[a]
          BY <2>1, <4>1, <5>1, AnsweredIs
        <5> QED BY <5>2
      <4> QED BY <2>1, <4>1, <4>2 DEF Shape, bound
    <3> QED BY <2>4, <3>1, <3>2, WakesAs
  <2> QED BY <2>2, <2>3, <2>4 DEF Server
<1>2. Spec => [][Step]_vars
  BY <1>1, TypeCorrect, PTL DEF Spec
<1> QED BY <1>2 DEF OkIsCurrent

----------------------------------------------------------------------------
(* One live signature.                                                     *)

\* Only Request sets what is signed for a request.
LEMMA StampsKept ==
  ASSUME TypeInv, [Next]_vars, ~\E c \in Call : Request(c)
  PROVE  \A c \in Call : call'[c].sess = call[c].sess /\ call'[c].issued = call[c].issued
<1>0. ServerTypes
  BY DEF TypeInv
<1>1. CASE call' = call
  BY <1>1
<1>2. CASE HandleResponse
  BY <1>2, HandleAs DEF Hears
<1>3. CASE GivesUp
  <2>1. call' = shutdown \/ \E session : call' = lost(session)
    BY <1>3 DEF GivesUp, Shutdown, Connects, Disconnected
  <2> QED BY <1>0, <2>1, LostIs, GivenUpIs
<1>4. ASSUME NEW o \in Call, Wakes(o) PROVE \A c \in Call : call'[c].sess = call[c].sess /\ call'[c].issued = call[c].issued
  <2>1. CASE call' = [call EXCEPT ![o].at = "waiting"]
    BY <1>0, <2>1 DEF ServerTypes, CallSet
  <2>2. CASE \E what \in {"ok", "no", "unknown", "unavailable"} : call' = answered(o, what)
    BY <1>0, <2>2, AnsweredIs DEF Answers
  <2> QED BY <1>4, <2>1, <2>2, WakesAs
<1>5. call' = call \/ HandleResponse \/ GivesUp \/ \E o \in Call : Wakes(o)
  BY DEF Next, vars, serverVars, Server, Link, GivesUp, Bridge, LinkBreaks, Connected, SocketEnds, Elapse,
    Enqueue, Pop, Dispatch, Dispatched, Finish, Deadline, Relay, Serve
<1> QED BY <1>1, <1>2, <1>3, <1>4, <1>5

LEMMA RememberedAtFirst == Init => Remembered
<1> SUFFICES ASSUME Init PROVE Remembered
  OBVIOUS
<1>1. Never \in Int /\ Never <= 0
  BY TuningAssumption DEF Never
<1>2. \A i \in Ids : seen[i] <= clock
  BY <1>1 DEF Init, Ids
<1>3. \A c \in Change : ~Sent(c)
  BY DEF Init, Sent, Fresh, Change
<1> QED BY <1>2, <1>3 DEF Remembered

LEMMA RememberedKept == TypeInv /\ Remembered /\ [Next]_vars => Remembered'
<1> SUFFICES ASSUME TypeInv, Remembered, [Next]_vars PROVE Remembered'
  OBVIOUS
<1>0. /\ ServerTypes /\ plan.ticks \in Nat /\ DedupeTtl \in Nat
      /\ \A c \in Call : call[c].issued \in Tick_
  BY PlanBounds, TuningAssumption DEF TypeInv, ServerTypes, CallSet
<1>1. clock \in Nat /\ \A c \in Call : call[c].issued \in Nat /\ Id[c] \in Ids /\ seen[Id[c]] \in Int
  BY <1>0, TuningAssumption DEF ServerTypes, Tick_, Ids, Never
<1>2. ASSUME NEW c \in Call, Request(c) PROVE Remembered'
  <2>1. clock' = clock /\ call[c].at = "new" /\ ~Sent(c)
    BY <1>2 DEF Request, TypeInv, CallShape, Shape
  <2>2. CASE call' = answered(c, "refused") /\ seen' = seen
    <3>1. \A o \in Call : call'[o].sess = call[o].sess /\ call'[o].issued = call[o].issued
      BY <1>0, <2>2, AnsweredIs DEF Answers
    <3> QED BY <2>1, <2>2, <3>1 DEF Remembered, Sent, Change
  <2>3. CASE /\ call' = asked(c) /\ ~duplicate(c)
             /\ seen' = IF c \in Change THEN [seen EXCEPT ![Id[c]] = clock] ELSE seen
    <3>1. /\ call'[c].issued = clock /\ \A o \in Call \ {c} : call'[o] = call[o]
      BY <1>0, <2>3, AskedIs
    <3>2. /\ \A i \in Ids : seen'[i] = IF c \in Change /\ i = Id[c] THEN clock ELSE seen[i]
      BY <1>0, <2>3 DEF ServerTypes
    <3>3. c \in Change => seen[Id[c]] + DedupeTtl < clock
      BY <1>0, <1>1, <2>3 DEF duplicate, seen_recently
    <3>4. \A i \in Ids : seen'[i] <= clock
      BY <1>1, <3>2 DEF Remembered
    <3>5. ASSUME NEW o \in Change, Sent(o)'
          PROVE  call'[o].issued <= clock /\ call'[o].issued <= seen'[Id[o]]
      <4>1. CASE o = c
        BY <1>1, <3>1, <3>2, <4>1
      <4>2. CASE o # c
        <5>1. o \in Call /\ call'[o] = call[o] /\ Sent(o)
          BY <3>1, <3>5, <4>2 DEF Change, Sent
        <5>2. call[o].issued <= clock /\ call[o].issued <= seen[Id[o]]
          BY <5>1 DEF Remembered
        <5> QED BY <1>1, <3>2, <5>1, <5>2
      <4> QED BY <4>1, <4>2
    <3>6. ASSUME NEW o \in Change, o # c, Id[o] = Id[c], Sent(o), c \in Change
          PROVE  call[o].issued + DedupeTtl < clock
      <4>1. o \in Call /\ call[o].issued <= seen[Id[o]]
        BY <3>6 DEF Remembered, Change
      <4> QED BY <1>0, <1>1, <3>3, <3>6, <4>1
    <3>7. ASSUME NEW a \in Change, NEW b \in Change, a # b, Id[a] = Id[b], Sent(a)', Sent(b)'
          PROVE  call'[a].issued + DedupeTtl < call'[b].issued \/ call'[b].issued + DedupeTtl < call'[a].issued
      <4>1. a \in Call /\ b \in Call
        BY DEF Change
      <4>2. CASE a # c /\ b # c
        BY <3>1, <3>7, <4>1, <4>2 DEF Remembered, Sent
      <4>3. CASE a = c
        BY <3>1, <3>6, <3>7, <4>1, <4>3 DEF Sent
      <4>4. CASE b = c
        BY <3>1, <3>6, <3>7, <4>1, <4>4 DEF Sent
      <4> QED BY <4>2, <4>3, <4>4
    <3> QED BY <2>1, <3>4, <3>5, <3>7 DEF Remembered, Change
  <2> QED BY <1>2, <2>2, <2>3 DEF Request, asked
<1>3. ASSUME ~\E c \in Call : Request(c) PROVE Remembered'
  <2>1. \A c \in Call : call'[c].sess = call[c].sess /\ call'[c].issued = call[c].issued
    BY <1>3, StampsKept
  <2>2. /\ clock' \in Nat /\ clock <= clock'
        /\ \A i \in Ids : seen'[i] = seen[i] \/ seen'[i] = clock
    <3>1. CASE HandleResponse
      <4>1. clock' = clock
        BY <3>1 DEF HandleResponse
      <4>2. seen' = seen \/ \E i : seen' = [seen EXCEPT ![i] = clock]
        BY <3>1, HandleAs
      <4> QED BY <1>0, <1>1, <4>1, <4>2 DEF ServerTypes
    <3>2. CASE Elapse
      BY <1>1, <3>2 DEF Elapse, serverVars
    <3>3. CASE UNCHANGED <<seen, clock>>
      BY <1>1, <3>3
    <3>4. ASSUME NEW c \in Call, Wakes(c) PROVE UNCHANGED <<seen, clock>>
      BY <3>4, WakesAs DEF Rest
    <3> QED BY <1>3, <3>1, <3>2, <3>3, <3>4
        DEF Next, vars, serverVars, Server, Link, Bridge, LinkBreaks, Connects, Connected, SocketEnds, Disconnected,
          Shutdown, Enqueue, Pop, Dispatch, Dispatched, Finish, Deadline, Relay, Serve
  <2>3. /\ \A i \in Ids : seen'[i] \in Int /\ seen[i] \in Int /\ seen'[i] <= clock'
        /\ \A c \in Change : Sent(c) => call[c].issued <= clock' /\ call[c].issued <= seen'[Id[c]]
    <3>1. \A i \in Ids : seen[i] \in Int
      BY <1>0, <1>1, TuningAssumption DEF ServerTypes, Tick_, Never
    <3>2. \A c \in Change : c \in Call
      BY DEF Change
    <3> QED BY <1>1, <2>2, <3>1, <3>2 DEF Remembered
  <2>4. \A c \in Change : c \in Call /\ (Sent(c)' <=> Sent(c))
    BY <2>1 DEF Change, Sent
  <2> QED BY <2>1, <2>3, <2>4 DEF Remembered
<1> QED BY <1>2, <1>3

LEMMA RememberedHolds == Spec => []Remembered
<1> QED BY TypeCorrect, RememberedAtFirst, RememberedKept, PTL DEF Spec

\* What the server sends, the bridge takes and the core verifies: each of
\* wrapper_reason's and verify's checks follows from validate_request's,
\* require_administrator's and sign's.
LEMMA EndsAgree == BridgeTakesWhatServerSends
<1> SUFFICES ASSUME NEW d \in Documents, NEW u \in Users, validate_request(d),
                    require_administrator(u, d.operation), actor_admitted(actor_from_user(u))
             PROVE  /\ wrapper_admitted(wrap(d, u, 0))
                    /\ d.operation \in Mutations =>
                         \A now \in 0 .. Lifetime + 1 : verified(wrap(d, u, 0), now) <=> now < Lifetime
  BY DEF BridgeTakesWhatServerSends
<1> DEFINE w == wrap(d, u, 0)
           claims == [version |-> 1, robot |-> TRUE, issued |-> 0, expires |-> 0 + Lifetime, signed |-> d]
<1>1. /\ w.request = d /\ w.actor = actor_from_user(u)
      /\ w.authorization = IF d.operation \in Mutations THEN claims ELSE Unsigned
  BY DEF wrap, sign
<1>2. Lifetime \in Nat \ {0} /\ Skew \in Nat /\ JsSafe \in Nat /\ Envelope \in Nat /\ MaxBytes \in Nat
      /\ MaxChanges \in Nat /\ Envelope + MaxChanges <= MaxBytes
  BY TuningRequestAssumption
<1>3. /\ claims # Unsigned /\ claims.version = 1 /\ claims.robot /\ claims.issued = 0
      /\ claims.expires = Lifetime /\ claims.signed = d
  BY <1>2 DEF Unsigned
<1>4. d.operation \in Mutations => u.role = "administrator"
  BY DEF require_administrator
<1>5. w.actor.role = u.role
  BY <1>1 DEF actor_from_user
<1> HIDE DEF w, claims
<1>6. claims_shaped(claims)
  BY <1>2, <1>3 DEF claims_shaped
<1>7. required_keys(d.operation) \subseteq d.keys /\ CommonKeys \subseteq d.keys /\ RevisionKeys(d.operation) \subseteq d.keys
  BY DEF validate_request, required_keys
<1>8. \A k \in RevisionKeys(d.operation) :
        k \in d.keys /\ is_strict_int(d.revision[k]) /\ d.revision[k].n \in 0 .. JsSafe
  <2> SUFFICES ASSUME NEW k \in RevisionKeys(d.operation)
               PROVE  is_strict_int(d.revision[k]) /\ d.revision[k].n \in 0 .. JsSafe
    BY <1>7
  <2>1. k \in {"base_revision", "expected_revision", "restore_revision"}
    BY DEF RevisionKeys
  <2>2. is_strict_int(d.revision[k]) /\ 0 <= d.revision[k].n /\ d.revision[k].n <= JsSafe
    BY DEF validate_request, revision_admitted
  <2>3. d.revision[k].n \in Int
    BY <2>1, <2>2, DocumentsAssumption DEF is_strict_int
  <2> QED BY <1>2, <2>2, <2>3
<1>9. d.operation = "restore" => "target" \in d.keys /\ d.target
  BY <1>7 DEF validate_request, required_keys
<1>10. d.operation = "save" =>
          /\ "changes" \in d.keys /\ Len(d.changes) \in 1 .. MaxChanges
          /\ \A i \in DOMAIN d.changes : bridge_change_admitted(d.changes[i])
          /\ Cardinality(Changed(d.changes)) = Len(d.changes)
  <2> SUFFICES ASSUME d.operation = "save"
               PROVE  /\ "changes" \in d.keys /\ Len(d.changes) \in 1 .. MaxChanges
                      /\ \A i \in DOMAIN d.changes : bridge_change_admitted(d.changes[i])
                      /\ Cardinality(Changed(d.changes)) = Len(d.changes)
    OBVIOUS
  <2>1. changes_admitted(d.changes)
    BY DEF validate_request
  <2>2. ASSUME NEW i \in DOMAIN d.changes PROVE bridge_change_admitted(d.changes[i])
    <3> DEFINE ch == d.changes[i]
    <3>1. ch.keys = {"id", "value"} /\ ch.id \in Param
      BY <2>1 DEF changes_admitted, change_admitted
    <3>2. value_admitted(Registry[ch.id], ch.value)
      BY <2>1 DEF changes_admitted, change_admitted
    <3>3. ch.value.type \in {"int", "float", "bool"}
      BY <3>2 DEF value_admitted, is_finite_number
    <3>4. ch.logical_id
      BY <3>1, DocumentsAssumption
    <3> QED BY <3>1, <3>3, <3>4 DEF bridge_change_admitted
  <2>3. "changes" \in d.keys
    BY <1>7 DEF required_keys
  <2> QED BY <2>1, <2>2, <2>3 DEF changes_admitted
<1>11. encoded_size(w) <= MaxBytes
  <2>1. Len(d.changes) \in 0 .. MaxChanges
    <3>1. CASE d.operation = "save"
      BY <1>2, <1>10, <3>1
    <3>2. CASE d.operation # "save"
      <4>1. d.operation \in {"read", "status", "apply", "redeploy", "restore"}
        BY <3>2 DEF validate_request, Operations, Mutations
      <4>2. "changes" \notin d.keys
        BY <4>1 DEF validate_request, allowed_keys, required_keys, CommonKeys, RevisionKeys
      <4>3. d.changes = <<>>
        BY <4>1, <4>2, DocumentsAssumption
      <4> QED BY <1>2, <4>3
    <3> QED BY <3>1, <3>2
  <2> QED BY <1>1, <1>2, <2>1 DEF encoded_size
<1>12. wrapper_admitted(w)
  <2>1. /\ d.object /\ d.contract /\ is_strict_int(d.version) /\ d.version.n = 1
        /\ d.operation \in Operations /\ d.keys \subseteq allowed_keys(d.operation)
        /\ "job_id" \in d.keys => d.job_id
        /\ d.request_id /\ generation_admitted(d.generation)
    BY DEF validate_request
  <2>2. d.operation \notin {"read", "status"} => w.actor.role = "administrator"
    BY <1>4, <1>5, <2>1 DEF Operations
  <2>3. /\ w.authorization # Unsigned => claims_shaped(w.authorization)
        /\ d.operation \in Mutations => w.authorization # Unsigned
    BY <1>1, <1>3, <1>6
  <2> QED BY <1>1, <1>7, <1>8, <1>9, <1>10, <1>11, <2>1, <2>2, <2>3 DEF wrapper_admitted
<1>13. ASSUME d.operation \in Mutations, NEW now \in 0 .. Lifetime + 1
       PROVE  verified(w, now) <=> now < Lifetime
  BY <1>1, <1>2, <1>3, <1>4, <1>5, <1>13 DEF verified
<1> QED BY <1>12, <1>13 DEF w

\* What is signed for a request that has been sent.
LEMMA VerifiedIs ==
  ASSUME NEW c \in Change, verified(envelope(c), clock)
  PROVE  clock < call[c].issued + Lifetime
<1>1. Doc[c].operation \in Mutations
  BY DEF Change
<1>2. envelope(c).authorization.expires = call[c].issued + Lifetime
  BY <1>1 DEF envelope, wrap, sign
<1> QED BY <1>2 DEF verified

\* A request_id never has two signatures that the core would accept, and what
\* the server signs passes the checks of the bridge and the core.
THEOREM SignaturesFitTogether == Spec => []SignaturesFit
<1>1. TypeInv /\ Remembered => OneLiveSignature
  <2> SUFFICES ASSUME TypeInv, Remembered, NEW c \in Change, NEW o \in Change, c # o, Id[c] = Id[o],
                      Sent(c), Sent(o), verified(envelope(c), clock), verified(envelope(o), clock)
               PROVE  FALSE
    BY DEF OneLiveSignature, Sent
  <2>1. /\ call[c].issued \in Nat /\ call[o].issued \in Nat /\ clock \in Nat
        /\ DedupeTtl \in Nat /\ Lifetime \in Nat /\ DedupeTtl >= Lifetime
    <3>1. c \in Call /\ o \in Call /\ plan.ticks \in Nat
      BY PlanBounds DEF Change, TypeInv, ServerTypes
    <3> QED BY <3>1, TuningAssumption, TuningRequestAssumption DEF TypeInv, ServerTypes, CallSet, Tick_
  <2>2. clock < call[c].issued + Lifetime /\ clock < call[o].issued + Lifetime
    BY VerifiedIs
  <2>3. call[c].issued <= clock /\ call[o].issued <= clock
    BY DEF Remembered
  <2>4. call[c].issued + DedupeTtl < call[o].issued \/ call[o].issued + DedupeTtl < call[c].issued
    BY DEF Remembered
  <2> QED BY <2>1, <2>2, <2>3, <2>4
<1>2. TypeInv /\ Remembered => SignaturesFit
  BY <1>1, EndsAgree DEF SignaturesFit
<1> QED BY <1>2, TypeCorrect, RememberedHolds, PTL

----------------------------------------------------------------------------
(* Where a request is.                                                     *)

UpSet == [call : Call, out : Replies, link : Link_]

\* The replies on their way, named by their requests, are a queue too.
LEMMA NamesAre ==
  ASSUME NEW s \in Seq(UpSet)
  PROVE  /\ Names(s) \in Seq(Call) /\ Len(Names(s)) = Len(s)
         /\ \A i \in 1 .. Len(s) : Names(s)[i] = s[i].call
         /\ Range(Names(s)) = {m.call : m \in Range(s)}
<1>1. Len(s) \in Nat /\ DOMAIN s = 1 .. Len(s) /\ \A i \in 1 .. Len(s) : s[i] \in UpSet
  OBVIOUS
<1>2. \A m \in UpSet : m.call \in Call
  BY DEF UpSet
<1>3. Names(s) = [i \in 1 .. Len(s) |-> s[i].call]
  BY <1>1 DEF Names
<1>4. \A i \in 1 .. Len(s) : s[i].call \in Call
  BY <1>1, <1>2
<1>5. Names(s) \in Seq(Call) /\ Len(Names(s)) = Len(s)
  BY <1>1, <1>3, <1>4
<1> QED BY <1>1, <1>3, <1>5 DEF Range

LEMMA NamesAppend ==
  ASSUME NEW s \in Seq(UpSet), NEW m \in UpSet, IsInjective(Names(s)), m.call \notin Range(Names(s))
  PROVE  /\ Range(Names(Append(s, m))) = Range(Names(s)) \cup {m.call}
         /\ IsInjective(Names(Append(s, m)))
<1>1. Append(s, m) \in Seq(UpSet) /\ Len(Append(s, m)) = Len(s) + 1 /\ Len(s) \in Nat
      /\ \A i \in 1 .. Len(s) + 1 : Append(s, m)[i] = IF i = Len(s) + 1 THEN m ELSE s[i]
  OBVIOUS
<1>2. m.call \in Call
  BY DEF UpSet
<1>3. Append(Names(s), m.call) \in Seq(Call) /\ Len(Append(Names(s), m.call)) = Len(s) + 1
      /\ \A i \in 1 .. Len(s) + 1 : Append(Names(s), m.call)[i] = IF i = Len(s) + 1 THEN m.call ELSE Names(s)[i]
  BY <1>1, <1>2, NamesAre
<1>4. Names(Append(s, m)) = Append(Names(s), m.call)
  <2>1. Names(Append(s, m)) \in Seq(Call) /\ Len(Names(Append(s, m))) = Len(s) + 1
        /\ \A i \in 1 .. Len(s) + 1 : Names(Append(s, m))[i] = Append(s, m)[i].call
    BY <1>1, NamesAre
  <2>2. \A i \in 1 .. Len(s) + 1 : Names(Append(s, m))[i] = Append(Names(s), m.call)[i]
    BY <1>1, <1>3, <2>1, NamesAre
  <2> QED BY <1>3, <2>1, <2>2, SeqEqual
<1> QED BY <1>2, <1>4, NamesAre, AppendOne

LEMMA NamesTail ==
  ASSUME NEW s \in Seq(UpSet), s # <<>>, IsInjective(Names(s))
  PROVE  /\ Range(Names(Tail(s))) = Range(Names(s)) \ {Head(s).call}
         /\ Head(s).call \in Range(Names(s)) /\ IsInjective(Names(Tail(s)))
<1>1. Tail(s) \in Seq(UpSet) /\ Len(Tail(s)) = Len(s) - 1 /\ Len(s) \in Nat \ {0} /\ Head(s) = s[1]
      /\ \A i \in 1 .. Len(s) - 1 : Tail(s)[i] = s[i + 1]
  BY HeadTailProperties, TakeFirst
<1>2. Names(s) # <<>> /\ Names(s) \in Seq(Call) /\ Len(Names(s)) = Len(s) /\ Head(Names(s)) = Head(s).call
  BY <1>1, NamesAre
<1>3. Tail(Names(s)) \in Seq(Call) /\ Len(Tail(Names(s))) = Len(s) - 1
      /\ \A i \in 1 .. Len(s) - 1 : Tail(Names(s))[i] = Names(s)[i + 1]
  BY <1>1, <1>2, HeadTailProperties
<1>4. Names(Tail(s)) = Tail(Names(s))
  <2>1. Names(Tail(s)) \in Seq(Call) /\ Len(Names(Tail(s))) = Len(s) - 1
        /\ \A i \in 1 .. Len(s) - 1 : Names(Tail(s))[i] = Tail(s)[i].call
    BY <1>1, NamesAre
  <2>2. \A i \in 1 .. Len(s) - 1 : i + 1 \in 1 .. Len(s)
    BY <1>1
  <2>3. \A i \in 1 .. Len(s) - 1 : Names(Tail(s))[i] = Tail(Names(s))[i]
    BY <1>1, <1>3, <2>1, <2>2, NamesAre
  <2> QED BY <1>3, <2>1, <2>3, SeqEqual
<1> DEFINE t == Names(s)
<1>5. t \in Seq(Call) /\ t # <<>> /\ IsInjective(t)
  BY <1>2
<1> HIDE DEF t
<1>6. Range(t) = Range(Tail(t)) \cup {Head(t)} /\ IsInjective(Tail(t)) /\ Head(t) \notin Range(Tail(t))
  BY <1>5, TakeFirst
<1>7. Range(Tail(t)) = Range(t) \ {Head(t)} /\ Head(t) \in Range(t)
  BY <1>6
<1> QED BY <1>2, <1>4, <1>6, <1>7 DEF t

LEMMA NamesPrefix ==
  ASSUME NEW s \in Seq(UpSet), NEW n \in 0 .. Len(s), IsInjective(Names(s))
  PROVE  /\ Range(Names(SubSeq(s, 1, n))) \subseteq Range(Names(s))
         /\ IsInjective(Names(SubSeq(s, 1, n)))
<1>1. SubSeq(s, 1, n) \in Seq(UpSet) /\ Len(SubSeq(s, 1, n)) = n /\ \A i \in 1 .. n : SubSeq(s, 1, n)[i] = s[i]
  BY KeepPrefix
<1>2. Names(SubSeq(s, 1, n)) \in Seq(Call) /\ Len(Names(SubSeq(s, 1, n))) = n
      /\ \A i \in 1 .. n : Names(SubSeq(s, 1, n))[i] = SubSeq(s, 1, n)[i].call
  BY <1>1, NamesAre
<1>3. Len(s) \in Nat /\ \A i \in 1 .. n : i \in 1 .. Len(s)
  OBVIOUS
<1>4. DOMAIN Names(SubSeq(s, 1, n)) = 1 .. n /\ DOMAIN Names(s) = 1 .. Len(s)
      /\ \A i \in 1 .. n : Names(SubSeq(s, 1, n))[i] = Names(s)[i]
  BY <1>1, <1>2, <1>3, NamesAre
<1> QED BY <1>3, <1>4 DEF Range, IsInjective

----------------------------------------------------------------------------
(* Custody is kept.                                                        *)

\* The bridge holds one request at most, and it is a request.
LEMMA HeldIs ==
  ASSUME BridgeTypes
  PROVE  /\ \A c \in Held : c \in Call /\ c # None
         /\ hand.at = "popped" => Held = {hand.call} /\ Popped = {hand.call} /\ hand # NoHand
         /\ hand.at # "popped" => Popped = {}
         /\ hand # NoHand => Held = {hand.call} /\ inflight = NoCall /\ relay = NoRelay /\ hand.call \in Call
         /\ inflight # NoCall => Held = {inflight.call} /\ inflight.call \in Call /\ hand = NoHand /\ relay = NoRelay
         /\ relay # NoRelay => Held = {relay.call} /\ relay \in [call : Call, out : Replies] /\ hand = NoHand
         /\ hand = NoHand /\ inflight = NoCall /\ relay = NoRelay => Held = {}
<1>1. \A c \in Call : c # None
  BY TuningAssumption
<1>2. NoHand.at = "empty" /\ NoHand.call = None /\ NoCall.call = None /\ NoRelay.call = None
  BY DEF NoHand, NoCall, NoRelay
<1>3. /\ hand # NoHand => hand.call \in Call /\ inflight = NoCall /\ relay = NoRelay
      /\ inflight # NoCall => inflight.call \in Call /\ hand = NoHand /\ relay = NoRelay
      /\ relay # NoRelay => relay.call \in Call /\ relay \in [call : Call, out : Replies]
                            /\ inflight = NoCall /\ hand = NoHand
  BY DEF BridgeTypes
<1> QED BY <1>1, <1>2, <1>3 DEF Held, Popped

\* A request that has not been sent is nowhere.
LEMMA UnsentIsNowhere ==
  ASSUME TypeInv, OnePlace, NEW c \in Call, ~Sent(c)
  PROVE  /\ c \notin Ahead \cup Held \cup Up \cup performed /\ res[c] = "none"
<1>1. Popped \subseteq Held
  BY HeldIs DEF TypeInv, Popped
<1> QED BY <1>1 DEF OnePlace, Ahead

LEMMA CustodyAtFirst == Init => Custody
<1> SUFFICES ASSUME Init PROVE Custody
  OBVIOUS
<1>1. Down = {} /\ Queued = {} /\ Up = {} /\ Held = {} /\ Popped = {} /\ core = {} /\ performed = {}
  BY DEF Init, Down, Queued, Up, Held, Popped, Range, Names, NoHand, NoCall, NoRelay
<1>2. IsInjective(down) /\ IsInjective(queue) /\ IsInjective(Names(upq)) /\ Range(upq) = {}
  BY DEF Init, IsInjective, Names, Range
<1>3. \A c \in Call : res[c] = "none" /\ ~Sent(c) /\ call[c].reply.out = "none" /\ call[c].answer = "open"
  BY DEF Init, Sent, Fresh, NoReply
<1>4. relay.out = "none"
  BY DEF Init, NoRelay
<1>5. OnePlace
  BY <1>1, <1>2, <1>3 DEF OnePlace, Ahead
<1>6. Backed
  BY <1>1, <1>2, <1>3, <1>4 DEF Backed, Means, Change
<1>7. OneOpen
  BY <1>3 DEF OneOpen
<1> QED BY <1>5, <1>6, <1>7 DEF Custody

\* Every place holds requests.
LEMMA PlacesHoldCalls ==
  ASSUME TypeInv
  PROVE  Down \cup Queued \cup Held \cup Up \cup core \cup performed \subseteq Call
<1>1. upq \in Seq(UpSet) /\ down \in Seq(Call) /\ queue \in Seq(Call)
  BY DEF TypeInv, LinkTypes, BridgeTypes, UpSet
<1>2. Down \subseteq Call /\ Queued \subseteq Call
  BY <1>1 DEF Down, Queued, Range
<1>3. Names(upq) \in Seq(Call)
  BY <1>1, NamesAre
<1>4. Up \subseteq Call
  BY <1>3 DEF Up, Range
<1>5. Held \subseteq Call
  BY HeldIs DEF TypeInv
<1> QED BY <1>2, <1>4, <1>5 DEF TypeInv, BridgeTypes, Change

\* Nothing moves: only what the server holds of the requests changes.
LEMMA PlacesStay ==
  ASSUME TypeInv, OnePlace, UNCHANGED <<wireVars, queue, tickVars, coreVars>>,
         \A c \in Call : Sent(c) => Sent(c)'
  PROVE  /\ OnePlace' /\ Up' = Up /\ Held' = Held
         /\ Ahead' = Ahead /\ Range(upq)' = Range(upq)
<1>1. /\ Down' = Down /\ Queued' = Queued /\ Up' = Up /\ Held' = Held /\ Popped' = Popped
      /\ Ahead' = Ahead /\ Range(upq)' = Range(upq)
  BY DEF Down, Queued, Up, Held, Popped, Ahead, wireVars, tickVars, coreVars
<1>2. UNCHANGED <<down, upq, queue, core, res, performed>>
  BY DEF wireVars, coreVars
<1>3. \A c \in Down \cup Queued \cup Held \cup Up \cup core \cup performed : Sent(c)'
  BY PlacesHoldCalls DEF OnePlace
<1> QED BY <1>1, <1>2, <1>3 DEF OnePlace

\* Meanings of outs are kept where nothing moves.
LEMMA MeansStays ==
  ASSUME performed' = performed, Ahead' \subseteq Ahead, NEW c, NEW out, Means(c, out)
  PROVE  (Means(c, out))'
BY DEF Means

LEMMA RequestCustody ==
  ASSUME TypeInv, Custody, NEW c \in Call, Request(c)
  PROVE  Custody'
<1>1. /\ ServerTypes /\ Shape(c) /\ call[c].at = "new" /\ ~Sent(c) /\ BrowserSends(c)
      /\ OnePlace /\ Backed /\ OneOpen /\ down \in Seq(Call) /\ NoReply.out = "none"
  BY DEF TypeInv, CallShape, Shape, Request, Custody, LinkTypes, NoReply
<1>2. UNCHANGED <<upq, queue, hand, inflight, relay, core, res, performed>>
  BY DEF Request, tickVars, coreVars
<1>3. /\ Queued' = Queued /\ Up' = Up /\ Held' = Held /\ Popped' = Popped /\ Range(upq)' = Range(upq)
      /\ IsInjective(Names(upq))' = IsInjective(Names(upq))
  BY <1>2 DEF Queued, Up, Held, Popped, IsInjective, Names
<1>4. c \notin Ahead \cup Held \cup Up \cup performed /\ res[c] = "none"
  BY <1>1, UnsentIsNowhere
<1>5. \A m \in Range(upq) : m.call # c
  BY <1>1, <1>4, NamesAre DEF TypeInv, LinkTypes, UpSet, Up
<1>6. relay.call # c
  BY <1>4, TuningAssumption DEF Held
<1>7. CASE call' = answered(c, "refused") /\ UNCHANGED down
  <2>1. "refused" \in Answers
    BY DEF Answers
  <2>2. /\ call'[c].answer = "refused" /\ call'[c].reply = NoReply /\ call'[c].sess = call[c].sess
        /\ \A o \in Call \ {c} : call'[o] = call[o]
    BY <1>1, <1>7, <2>1, AnsweredIs
  <2>3. \A o \in Call : Sent(o)' <=> Sent(o)
    BY <2>2 DEF Sent
  <2>4. OnePlace' /\ Ahead' = Ahead
    BY <1>1, <1>2, <1>7, <2>3, PlacesStay DEF wireVars, tickVars, coreVars
  <2>5. Backed'
    BY <1>1, <1>2, <1>3, <2>2, <2>4 DEF Backed, Means, Change
  <2>6. OneOpen'
    BY <1>1, <2>2, <2>3 DEF OneOpen
  <2> QED BY <2>4, <2>5, <2>6 DEF Custody
<1>8. CASE /\ call' = asked(c) /\ down' = IF rlink = conn THEN Append(down, c) ELSE down
           /\ ~duplicate(c)
  <2>1. /\ call'[c].answer = "open" /\ call'[c].reply = NoReply /\ call'[c].sess # 0
        /\ \A o \in Call \ {c} : call'[o] = call[o]
    BY <1>1, <1>8, AskedIs DEF ServerTypes
  <2>2. /\ Sent(c)' /\ \A o \in Call \ {c} : Sent(o)' <=> Sent(o)
    BY <2>1 DEF Sent
  <2>3. c \notin Down
    BY <1>4 DEF Ahead
  <2>4. (Down' = Down \/ Down' = Down \cup {c}) /\ IsInjective(down')
    <3>1. CASE down' = down
      BY <1>1, <3>1 DEF Down, OnePlace
    <3>2. CASE down' = Append(down, c)
      BY <1>1, <2>3, <3>2, AppendOne DEF Down, OnePlace
    <3> QED BY <1>8, <3>1, <3>2
  <2>5. OnePlace'
    <3>1. \A o \in Down \cup {c} \cup Queued \cup Held \cup Up \cup core \cup performed : Sent(o)'
      BY <1>1, <2>2, PlacesHoldCalls DEF OnePlace
    <3>2. \A o \in Call : res[o] # "none" => Sent(o)'
      BY <1>1, <1>4, <2>2 DEF OnePlace
    <3>3. performed' \cap Ahead' = {}
      BY <1>1, <1>2, <1>3, <1>4, <2>4 DEF OnePlace, Ahead
    <3>4. \A o \in Call : res'[o] # "none" => o \notin Ahead'
      BY <1>1, <1>2, <1>3, <1>4, <2>4 DEF OnePlace, Ahead
    <3> QED BY <1>1, <1>2, <1>3, <1>4, <2>4, <3>1, <3>2, <3>3, <3>4 DEF OnePlace, Ahead
  <2>6. Ahead' \subseteq Ahead \cup {c}
    BY <1>2, <1>3, <2>4 DEF Ahead
  <2>7. ASSUME NEW o, o # c, NEW out, Means(o, out) PROVE (Means(o, out))'
    BY <1>2, <2>6, <2>7 DEF Means
  <2>8. Backed'
    <3>1. \A o \in Call : Means(o, res[o])'
      BY <1>1, <1>2, <1>4, <2>7 DEF Backed, Means
    <3>2. Means(relay.call, relay.out)'
      BY <1>1, <1>2, <1>6, <2>6 DEF Backed, Means
    <3>3. ASSUME NEW m \in Range(upq) PROVE Means(m.call, m.out)'
      BY <1>1, <1>5, <2>7 DEF Backed
    <3>4. ASSUME NEW o \in Call PROVE (Means(o, call[o].reply.out) /\ Means(o, call[o].answer))'
      BY <1>1, <1>2, <2>1, <2>6 DEF Backed, Means
    <3>5. \A o \in Change : (call'[o].reply.out = "no" \/ call'[o].answer = "no") => o \notin Held' \cup Up'
      BY <1>1, <1>3, <2>1 DEF Backed, Change
    <3> QED BY <1>3, <3>1, <3>2, <3>3, <3>4, <3>5 DEF Backed
  <2>9. OneOpen'
    <3>1. ASSUME NEW o \in Call \ {c}, Id[o] = Id[c], Sent(o)
          PROVE  c \in Change /\ o \in Change /\ call[o].answer = "no"
      <4>1. c \in Change /\ o \in Change
        BY <3>1, TuningAssumption
      <4>2. ~InFlight(o) /\ ~seen_recently(Id[c])
        BY <1>8, <3>1, <4>1 DEF duplicate, in_flight_already, _pending
      <4>3. call[o].at # "new" /\ call[o].answer # "refused"
        BY <3>1 DEF TypeInv, CallShape, Shape
      <4> QED BY <1>1, <3>1, <4>1, <4>2, <4>3 DEF BrowserSends
    <3> QED BY <1>1, <2>1, <2>2, <3>1 DEF OneOpen
  <2> QED BY <2>5, <2>8, <2>9 DEF Custody
<1> QED BY <1>7, <1>8 DEF Request, asked

LEMMA WakesCustody ==
  ASSUME TypeInv, Custody, NEW c \in Call, Wakes(c)
  PROVE  Custody'
<1>1. /\ ServerTypes /\ OnePlace /\ Backed /\ OneOpen /\ NoReply.out = "none"
      /\ InFlight(c) /\ UNCHANGED Rest /\ call[c].answer = "open"
  BY WakesAs DEF TypeInv, CallShape, Shape, Custody, NoReply
<1>2. UNCHANGED <<wireVars, queue, tickVars, coreVars>> /\ UNCHANGED <<relay, res, performed>>
  BY <1>1 DEF Rest, tickVars, coreVars
<1>3. /\ \A o \in Call \ {c} : call'[o] = call[o]
      /\ call'[c].sess = call[c].sess
      /\ \/ call'[c].reply = call[c].reply /\ call'[c].answer = call[c].answer
         \/ call'[c].reply = NoReply /\ (call'[c].answer \in {"ok", "no"} => call'[c].answer = call[c].reply.out)
  <2>1. CASE call' = [call EXCEPT ![c].at = "waiting"]
    BY <1>1, <2>1 DEF ServerTypes, CallSet
  <2>2. CASE \E what \in {"ok", "no", "unknown", "unavailable"} :
                 /\ call' = answered(c, what)
                 /\ what \in {"ok", "no"} => call[c].reply.out = what
    <3>1. PICK what \in {"ok", "no", "unknown", "unavailable"} :
                 /\ call' = answered(c, what)
                 /\ what \in {"ok", "no"} => call[c].reply.out = what
      BY <2>2
    <3>2. what \in Answers
      BY DEF Answers
    <3> QED BY <1>1, <3>1, <3>2, AnsweredIs
  <2> QED BY <2>1, <2>2, WakesAs
<1>4. \A o \in Call : Sent(o)' <=> Sent(o)
  BY <1>3 DEF Sent
<1>5. OnePlace' /\ Ahead' = Ahead /\ Held' = Held /\ Up' = Up /\ Range(upq)' = Range(upq)
  BY <1>1, <1>2, <1>4, PlacesStay
<1>6. Backed'
  <2>1. ASSUME NEW o \in Call PROVE (Means(o, call[o].reply.out) /\ Means(o, call[o].answer))'
    BY <1>1, <1>2, <1>3, <1>5 DEF Backed, Means
  <2>2. \A o \in Change : (call'[o].reply.out = "no" \/ call'[o].answer = "no") => o \notin Held' \cup Up'
    BY <1>1, <1>3, <1>5 DEF Backed, Change
  <2> QED BY <1>1, <1>2, <1>5, <2>1, <2>2 DEF Backed, Means
<1>7. OneOpen'
  BY <1>1, <1>3, <1>4 DEF OneOpen
<1> QED BY <1>5, <1>6, <1>7 DEF Custody

LEMMA GivesUpCustody ==
  ASSUME TypeInv, Custody, GivesUp
  PROVE  Custody'
<1>1. /\ ServerTypes /\ OnePlace /\ Backed /\ OneOpen
  BY DEF TypeInv, Custody
<1>2. UNCHANGED <<wireVars, queue, tickVars, coreVars>> /\ UNCHANGED <<relay, res, performed>>
  BY DEF GivesUp, Shutdown, Connects, Disconnected, tickVars, coreVars
<1>3. \A o \in Call : call'[o] = call[o] \/ /\ call'[o].sess = call[o].sess /\ call'[o].answer = call[o].answer
                                            /\ call'[o].reply.out \in {"unknown", "lost"}
  <2>1. call' = shutdown \/ \E session : call' = lost(session)
    BY DEF GivesUp, Shutdown, Connects, Disconnected
  <2> QED BY <1>1, <2>1, LostIs, GivenUpIs
<1>4. \A o \in Call : Sent(o)' <=> Sent(o)
  BY <1>3 DEF Sent
<1>5. OnePlace' /\ Ahead' = Ahead /\ Held' = Held /\ Up' = Up /\ Range(upq)' = Range(upq)
  BY <1>1, <1>2, <1>4, PlacesStay
<1>6. Backed'
  BY <1>1, <1>2, <1>3, <1>5 DEF Backed, Means, Change
<1>7. OneOpen'
  BY <1>1, <1>3, <1>4 DEF OneOpen
<1> QED BY <1>5, <1>6, <1>7 DEF Custody

LEMMA HandleCustody ==
  ASSUME TypeInv, Custody, HandleResponse
  PROVE  Custody'
<1> DEFINE m == Head(upq)
<1>1. /\ ServerTypes /\ OnePlace /\ Backed /\ OneOpen /\ upq \in Seq(UpSet)
  BY DEF TypeInv, Custody, LinkTypes, UpSet
<1>2. /\ upq # <<>> /\ m \in UpSet /\ upq' = Tail(upq)
      /\ \A c \in Call : call'[c] = call[c] \/ Hears(c, m)
  BY HandleAs DEF UpSet
<1>3. /\ Up' = Up \ {m.call} /\ m.call \in Up /\ IsInjective(Names(upq'))
      /\ Range(upq') \subseteq Range(upq) /\ m \in Range(upq)
  BY <1>1, <1>2, NamesTail, TakeFirst DEF Up, OnePlace
<1>4. UNCHANGED <<down, queue, hand, inflight, relay, core, res, performed>>
  BY DEF HandleResponse, tickVars, coreVars
<1>5. Down' = Down /\ Queued' = Queued /\ Held' = Held /\ Popped' = Popped /\ Ahead' = Ahead
  BY <1>4 DEF Down, Queued, Held, Popped, Ahead
<1> HIDE DEF m
<1>6. \A c \in Call : call'[c].sess = call[c].sess /\ call'[c].answer = call[c].answer /\ (Sent(c)' <=> Sent(c))
  BY <1>2 DEF Hears, Sent
<1>7. ASSUME NEW c \in Call, Hears(c, m) PROVE c = m.call
  <2>1. Sent(c) /\ Sent(m.call) /\ m.call \in Call /\ call[c].answer = "open" /\ Id[c] = Id[m.call]
    BY <1>1, <1>2, <1>3, <1>7 DEF Hears, OnePlace, TypeInv, CallShape, Shape, UpSet
  <2>2. SUFFICES ASSUME c # m.call PROVE FALSE
    OBVIOUS
  <2>3. m.call \in Change /\ call[m.call].answer = "no"
    BY <1>1, <2>1, <2>2 DEF OneOpen
  <2> QED BY <1>1, <1>3, <2>3 DEF Backed
<1>8. OnePlace'
  <2>1. \A c \in Down \cup Queued \cup Held \cup Up \cup core \cup performed : Sent(c)'
    BY <1>1, <1>6, PlacesHoldCalls DEF OnePlace
  <2> QED BY <1>1, <1>3, <1>4, <1>5, <1>6, <2>1 DEF OnePlace
<1>9. Backed'
  <2>1. ASSUME NEW c \in Call PROVE Means(c, call[c].reply.out)'
    <3>1. CASE call'[c] = call[c]
      BY <1>1, <1>4, <1>5, <3>1 DEF Backed, Means
    <3>2. CASE Hears(c, m)
      BY <1>1, <1>3, <1>4, <1>5, <1>7, <3>2 DEF Backed, Means, Hears
    <3> QED BY <1>2, <3>1, <3>2
  <2>2. ASSUME NEW c \in Change, call'[c].reply.out = "no" \/ call'[c].answer = "no" PROVE c \notin Held' \cup Up'
    <3>1. c \in Call
      BY DEF Change
    <3>2. CASE call'[c] = call[c]
      BY <1>1, <1>3, <1>5, <2>2, <3>1, <3>2 DEF Backed
    <3>3. CASE Hears(c, m)
      BY <1>1, <1>3, <1>5, <1>7, <3>1, <3>3 DEF OnePlace
    <3> QED BY <1>2, <3>1, <3>2, <3>3
  <2> QED BY <1>1, <1>3, <1>4, <1>5, <1>6, <2>1, <2>2 DEF Backed, Means
<1>10. OneOpen'
  BY <1>1, <1>6 DEF OneOpen
<1> QED BY <1>8, <1>9, <1>10 DEF Custody

\* Requests move on: no request is ahead of the core that was not before, and
\* the bridge and the wire hold only requests that were somewhere.
LEMMA MovedBacked ==
  ASSUME TypeInv, Custody, UNCHANGED <<call, res, performed>>,
         Ahead' \subseteq Ahead, Held' \cup Up' \subseteq Held \cup Up \cup Ahead,
         Means(relay.call, relay.out)',
         \A m \in Range(upq') : m \in Range(upq) \/ Means(m.call, m.out)'
  PROVE  Backed' /\ OneOpen'
<1>1. Backed /\ OneOpen
  BY DEF Custody
<1>2. OneOpen'
  BY <1>1 DEF OneOpen, Sent
<1>3. ASSUME NEW c, NEW out, Means(c, out) PROVE Means(c, out)'
  BY <1>3 DEF Means
<1>4. /\ \A c \in Call : Means(c, res[c])' /\ Means(c, call[c].reply.out)' /\ Means(c, call[c].answer)'
      /\ \A m \in Range(upq') : Means(m.call, m.out)'
  BY <1>1 DEF Backed, Means
<1>5. \A c \in Change : (call'[c].reply.out = "no" \/ call'[c].answer = "no") => c \notin Held' \cup Up'
  <2> SUFFICES ASSUME NEW c \in Change, call[c].reply.out = "no" \/ call[c].answer = "no"
               PROVE  c \notin Held' \cup Up'
    OBVIOUS
  <2>1. c \in Call
    BY DEF Change
  <2>2. c \notin Ahead /\ c \notin Held \cup Up
    BY <1>1, <2>1 DEF Backed, Means
  <2> QED BY <2>2
<1> QED BY <1>2, <1>4, <1>5 DEF Backed

\* The places of a request, as conditions on the places alone.
Apart(D, Q, H, U, P, K) ==
  /\ D \cap Q = {} /\ D \cap H = {} /\ D \cap U = {}
  /\ Q \cap H = {} /\ Q \cap U = {} /\ H \cap U = {}
  /\ K \cap (D \cup Q \cup P) = {}

LEMMA MovedOnePlace ==
  ASSUME TypeInv, OnePlace, UNCHANGED <<call, res, performed>>,
         IsInjective(down'), IsInjective(queue'), IsInjective(Names(upq')),
         Apart(Down', Queued', Held', Up', Popped', core'), Ahead' \subseteq Ahead,
         Down' \cup Queued' \cup Held' \cup Up' \cup core' \subseteq Down \cup Queued \cup Held \cup Up \cup core
  PROVE  OnePlace'
<1>1. \A c \in Down' \cup Queued' \cup Held' \cup Up' \cup core' \cup performed' : Sent(c)'
  BY DEF OnePlace, Sent
<1>2. \A c \in Call : res'[c] # "none" => Sent(c)' /\ c \notin Ahead'
  BY DEF OnePlace, Sent
<1> QED BY <1>1, <1>2 DEF OnePlace, Apart

\* The link breaks or is made again, and nothing new is anywhere.
LEMMA LinkCustody ==
  ASSUME TypeInv, Custody, LinkBreaks \/ Connected \/ SocketEnds
  PROVE  Custody'
<1>1. OnePlace /\ upq \in Seq(UpSet) /\ BridgeTypes /\ Backed
  BY DEF TypeInv, Custody, LinkTypes, UpSet
<1>2. UNCHANGED <<call, res, performed>> /\ core' = core /\ hand' = hand /\ relay' = relay
  BY DEF LinkBreaks, Connected, SocketEnds, serverVars, coreVars, tickVars
<1>3. /\ Down' \subseteq Down /\ Queued' \subseteq Queued /\ Up' \subseteq Up
      /\ Held' \subseteq Held /\ Popped' = Popped
      /\ IsInjective(down') /\ IsInjective(queue') /\ IsInjective(Names(upq'))
      /\ \A m \in Range(upq') : \E old \in Range(upq) : m.call = old.call /\ m.out = old.out
  <2>1. CASE LinkBreaks
    <3>1. PICK n \in 0 .. Len(upq) : upq' = SubSeq(upq, 1, n)
      BY <2>1 DEF LinkBreaks
    <3>2. Up' \subseteq Up /\ IsInjective(Names(upq')) /\ Range(upq') \subseteq Range(upq)
      BY <1>1, <3>1, NamesPrefix, KeepPrefix DEF Up, OnePlace
    <3>3. down' = <<>> /\ queue' = <<>> /\ inflight' = NoCall
      BY <2>1 DEF LinkBreaks, disconnected
    <3>4. Down' = {} /\ Queued' = {} /\ IsInjective(down') /\ IsInjective(queue')
      BY <3>3 DEF Down, Queued, Range, IsInjective
    <3>5. Held' \subseteq Held /\ Popped' = Popped
      BY <1>2, <3>3 DEF Held, Popped, NoCall
    <3> QED BY <3>2, <3>4, <3>5
  <2>2. CASE Connected
    <3>1. DOMAIN upq' = DOMAIN upq /\ \A i \in DOMAIN upq : upq'[i] \in {upq[i], [upq[i] EXCEPT !.link = replacing]}
      BY <2>2 DEF Connected
    <3>2. \A i \in DOMAIN upq : upq[i] \in UpSet
      BY <1>1
    <3>3. \A i \in DOMAIN upq : upq'[i].call = upq[i].call /\ upq'[i].out = upq[i].out
      BY <3>1, <3>2 DEF UpSet
    <3>4. Names(upq') = Names(upq)
      BY <3>1, <3>3 DEF Names
    <3>5. UNCHANGED <<down, queue, inflight>>
      BY <2>2 DEF Connected, tickVars
    <3> QED BY <1>1, <1>2, <3>1, <3>3, <3>4, <3>5 DEF Down, Queued, Up, Held, Popped, OnePlace, Range
  <2>3. CASE SocketEnds
    BY <1>1, <1>2, <2>3 DEF SocketEnds, wireVars, tickVars, Down, Queued, Up, Held, Popped, OnePlace
  <2> QED BY <2>1, <2>2, <2>3
<1>4. Ahead' \subseteq Ahead
  BY <1>2, <1>3 DEF Ahead
<1>5. Apart(Down', Queued', Held', Up', Popped', core')
  BY <1>1, <1>2, <1>3 DEF OnePlace, Apart
<1>6. OnePlace'
  BY <1>1, <1>2, <1>3, <1>4, <1>5, MovedOnePlace
<1>7. Means(relay.call, relay.out)' /\ \A m \in Range(upq') : Means(m.call, m.out)'
  BY <1>1, <1>2, <1>3, <1>4 DEF Backed, Means
<1>8. Backed' /\ OneOpen'
  BY <1>2, <1>3, <1>4, <1>7, MovedBacked
<1> QED BY <1>6, <1>8 DEF Custody

\* The websocket thread queues a request or says at once that it cannot.
LEMMA EnqueueCustody ==
  ASSUME TypeInv, Custody, Enqueue
  PROVE  Custody'
<1> DEFINE c == Head(down)
           m == [call |-> c, out |-> "unknown", link |-> rlink]
<1>1. OnePlace /\ Backed /\ upq \in Seq(UpSet) /\ queue \in Seq(Call) /\ down \in Seq(Call) /\ down # <<>>
      /\ down' = Tail(down) /\ rlink \in Link_
  BY DEF TypeInv, Custody, LinkTypes, BridgeTypes, UpSet, Enqueue
<1>2. UNCHANGED <<call, res, performed>> /\ core' = core /\ hand' = hand /\ relay' = relay /\ inflight' = inflight
  BY DEF Enqueue, serverVars, coreVars, tickVars
<1>3. Held' = Held /\ Popped' = Popped
  BY <1>2 DEF Held, Popped
<1>4. c \in Call /\ c \in Down /\ Down' = Down \ {c} /\ IsInjective(down')
  BY <1>1, TakeFirst DEF Down, OnePlace
<1>5. m \in UpSet /\ m.call = c /\ m.out = "unknown"
  BY <1>1, <1>4 DEF UpSet, Replies
<1>6. \/ /\ queue' = queue /\ upq' = Append(upq, m)
      \/ /\ upq' = upq /\ queue' = Append(queue, c)
  BY DEF Enqueue
<1> HIDE DEF c, m
<1>7. /\ IsInjective(queue') /\ IsInjective(Names(upq'))
      /\ \/ Queued' = Queued /\ Up' = Up \cup {c}
         \/ Queued' = Queued \cup {c} /\ Up' = Up
      /\ \A x \in Range(upq') : x \in Range(upq) \/ x.out = "unknown"
  <2>1. c \notin Queued /\ c \notin Up
    BY <1>1, <1>4 DEF OnePlace
  <2>2. CASE queue' = queue /\ upq' = Append(upq, m)
    BY <1>1, <1>5, <2>1, <2>2, NamesAppend, AppendOne DEF Up, Queued, OnePlace
  <2>3. CASE upq' = upq /\ queue' = Append(queue, c)
    BY <1>1, <1>4, <2>1, <2>3, AppendOne DEF Up, Queued, OnePlace
  <2> QED BY <1>6, <2>2, <2>3
<1>8. Ahead' \subseteq Ahead
  BY <1>2, <1>3, <1>4, <1>7 DEF Ahead
<1>9. Apart(Down', Queued', Held', Up', Popped', core')
  BY <1>1, <1>2, <1>3, <1>4, <1>7 DEF OnePlace, Apart
<1>10. OnePlace'
  BY <1>1, <1>2, <1>3, <1>4, <1>7, <1>8, <1>9, MovedOnePlace
<1>11. Means(relay.call, relay.out)' /\ \A x \in Range(upq') : x \in Range(upq) \/ Means(x.call, x.out)'
  BY <1>1, <1>2, <1>7, <1>8 DEF Backed, Means
<1>12. Held' \cup Up' \subseteq Held \cup Up \cup Ahead
  BY <1>3, <1>4, <1>7 DEF Ahead
<1>13. Backed' /\ OneOpen'
  BY <1>2, <1>8, <1>11, <1>12, MovedBacked
<1> QED BY <1>10, <1>13 DEF Custody

\* tick and _dispatch: a request is taken from the queue and handed to the core
\* or answered.
LEMMA DispatchCustody ==
  ASSUME TypeInv, Custody, Pop \/ Dispatch \/ Dispatched
  PROVE  Custody'
<1>1. OnePlace /\ Backed /\ BridgeTypes /\ BridgeTypes' /\ queue \in Seq(Call)
  BY TypesKept DEF TypeInv, Custody, BridgeTypes, Next, Bridge
<1>2. UNCHANGED <<call, res, performed>> /\ down' = down /\ upq' = upq
  BY DEF Pop, Dispatch, Dispatched, serverVars, wireVars, coreVars
<1>3. Down' = Down /\ Up' = Up /\ Range(upq') = Range(upq) /\ IsInjective(down') /\ IsInjective(Names(upq'))
  BY <1>1, <1>2 DEF Down, Up, OnePlace
<1>4. /\ IsInjective(queue') /\ Ahead' \subseteq Ahead /\ Apart(Down', Queued', Held', Up', Popped', core')
      /\ Held' \subseteq Held \cup Queued /\ Queued' \subseteq Queued /\ core' \subseteq core \cup Held
      /\ Means(relay.call, relay.out)'
  <2>1. CASE Pop
    <3> DEFINE c == Head(queue)
    <3>1. queue # <<>> /\ queue' = Tail(queue) /\ hand' = [at |-> "popped", call |-> c, gen |-> 0]
          /\ hand = NoHand /\ relay = NoRelay /\ inflight = NoCall /\ relay' = relay /\ core' = core
      BY <2>1 DEF Pop, TickFree, coreVars
    <3>2. c \in Call /\ c \in Queued /\ Queued' = Queued \ {c} /\ IsInjective(queue')
      BY <1>1, <3>1, TakeFirst DEF Queued, OnePlace
    <3>3. hand'.at = "popped" /\ hand'.call = c
      BY <3>1
    <3> HIDE DEF c
    <3>4. Held' = {c} /\ Popped' = {c}
      BY <3>2, <3>3, <1>1, <3>1, TuningAssumption, HeldIs DEF Held, Popped, Pop, tickVars, NoCall, NoRelay, BridgeTypes
    <3>5. Popped = {} /\ Held = {}
      BY <1>1, <3>1, HeldIs DEF NoHand
    <3>6. Ahead' \subseteq Ahead
      BY <3>1, <3>2, <3>4, <1>3 DEF Ahead
    <3>7. Apart(Down', Queued', Held', Up', Popped', core')
      BY <1>1, <1>3, <3>1, <3>2, <3>4 DEF OnePlace, Apart
    <3> QED BY <1>1, <1>2, <3>1, <3>2, <3>4, <3>6, <3>7 DEF Backed, Means
  <2>2. CASE Dispatch
    <3> DEFINE c == hand.call
    <3>1. hand.at = "popped" /\ queue' = queue /\ inflight' = inflight
      BY <2>2 DEF Dispatch
    <3>2. Held = {c} /\ Popped = {c} /\ c \in Call /\ inflight = NoCall /\ relay = NoRelay /\ hand # NoHand
      BY <1>1, <3>1, HeldIs
    <3>3. \/ /\ core' = core \cup {c} /\ hand' = [hand EXCEPT !.at = "called", !.gen = gen]
             /\ relay' = relay
          \/ /\ hand' = NoHand /\ core' = core
             /\ \E told \in {"no", "unknown"} :
                  relay' = IF rlink = 0 THEN NoRelay ELSE [call |-> c, out |-> told]
      BY <2>2 DEF Dispatch
    <3>4. c \notin Down \cup Queued \cup core \cup Up \cup performed
      BY <1>1, <3>2 DEF OnePlace, Ahead
    <3>5. hand \in [at : {"popped", "called"}, call : Call, gen : Nat]
      BY <1>1, <3>2 DEF BridgeTypes
    <3>6. Queued' = Queued /\ IsInjective(queue')
      BY <1>1, <3>1 DEF Queued, OnePlace
    <3> HIDE DEF c
    <3>7. CASE /\ core' = core \cup {c} /\ hand' = [hand EXCEPT !.at = "called", !.gen = gen] /\ relay' = relay
      <4>1. hand'.at = "called" /\ hand'.call = c
        BY <3>5, <3>7 DEF c
      <4>2. Popped' = {} /\ Held' = {c}
        BY <3>1, <3>2, <3>7, <4>1, TuningAssumption DEF Held, Popped, NoCall, NoRelay
      <4>3. Ahead' \subseteq Ahead
        BY <1>3, <3>2, <3>6, <3>7, <4>2 DEF Ahead
      <4>4. Apart(Down', Queued', Held', Up', Popped', core')
        BY <1>1, <1>3, <3>2, <3>4, <3>6, <3>7, <4>2 DEF OnePlace, Apart
      <4>5. Means(relay.call, relay.out)'
        BY <1>1, <1>2, <3>7, <4>3 DEF Backed, Means
      <4> QED BY <3>2, <3>6, <3>7, <4>2, <4>3, <4>4, <4>5
    <3>8. CASE /\ hand' = NoHand /\ core' = core
               /\ \E told \in {"no", "unknown"} :
                    relay' = IF rlink = 0 THEN NoRelay ELSE [call |-> c, out |-> told]
      <4>1. Popped' = {} /\ Held' \subseteq {c}
        BY <3>1, <3>2, <3>8 DEF Held, Popped, NoHand, NoCall, NoRelay
      <4>2. Ahead' \subseteq Ahead /\ c \notin Ahead'
        BY <1>3, <3>2, <3>4, <3>6, <3>8, <4>1 DEF Ahead
      <4>3. Apart(Down', Queued', Held', Up', Popped', core')
        BY <1>1, <1>3, <3>2, <3>4, <3>6, <3>8, <4>1 DEF OnePlace, Apart
      <4>4. relay' = NoRelay \/ (relay'.call = c /\ relay'.out \in {"no", "unknown"})
        BY <3>8
      <4>5. Means(relay.call, relay.out)'
        BY <1>2, <3>4, <4>2, <4>4 DEF Means, NoRelay
      <4> QED BY <3>2, <3>6, <3>8, <4>1, <4>2, <4>3, <4>5
    <3> QED BY <3>3, <3>7, <3>8
  <2>3. CASE Dispatched
    <3>1. /\ hand.at = "called" /\ hand' = NoHand /\ inflight' = [call |-> hand.call, gen |-> hand.gen]
          /\ queue' = queue /\ relay' = relay /\ core' = core
      BY <2>3 DEF Dispatched, coreVars
    <3>2. hand # NoHand
      BY <3>1 DEF NoHand
    <3>3. Held = {hand.call} /\ Popped = {} /\ relay = NoRelay /\ inflight = NoCall /\ hand.call \in Call
      BY <1>1, <3>1, <3>2, HeldIs
    <3>4. Held' = Held /\ Popped' = {}
      BY <3>1, <3>3 DEF Held, Popped, NoHand, NoRelay
    <3>5. Queued' = Queued /\ IsInjective(queue')
      BY <1>1, <3>1 DEF Queued, OnePlace
    <3>6. Ahead' = Ahead
      BY <1>3, <3>1, <3>3, <3>4, <3>5 DEF Ahead
    <3>7. Apart(Down', Queued', Held', Up', Popped', core')
      BY <1>1, <1>3, <3>1, <3>4, <3>5 DEF OnePlace, Apart
    <3> QED BY <1>1, <1>2, <3>1, <3>4, <3>5, <3>6, <3>7 DEF Backed, Means
  <2> QED BY <2>1, <2>2, <2>3
<1>5. OnePlace'
  BY <1>1, <1>2, <1>3, <1>4, MovedOnePlace
<1>6. Held' \cup Up' \subseteq Held \cup Up \cup Ahead
  BY <1>3, <1>4 DEF Ahead
<1>7. Backed' /\ OneOpen'
  BY <1>2, <1>3, <1>4, <1>6, MovedBacked
<1> QED BY <1>5, <1>7 DEF Custody

\* _finish, the deadline and WsClient.send: the one reply of a request.
LEMMA ReplyCustody ==
  ASSUME TypeInv, Custody, Finish \/ Deadline \/ Relay
  PROVE  Custody'
<1>1. OnePlace /\ Backed /\ BridgeTypes /\ upq \in Seq(UpSet) /\ rlink \in Link_
  BY DEF TypeInv, Custody, LinkTypes, UpSet
<1>2. UNCHANGED <<call, res, performed>> /\ core' = core /\ down' = down /\ queue' = queue /\ hand' = hand
  BY DEF Finish, Deadline, Relay, serverVars, wireVars, coreVars
<1>3. Down' = Down /\ Queued' = Queued /\ Popped' = Popped /\ Ahead' = Ahead
      /\ IsInjective(down') /\ IsInjective(queue')
  BY <1>1, <1>2 DEF Down, Queued, Popped, Ahead, OnePlace
<1>4. /\ IsInjective(Names(upq')) /\ Means(relay.call, relay.out)'
      /\ \A m \in Range(upq') : m \in Range(upq) \/ Means(m.call, m.out)'
      /\ Held' \cup Up' \subseteq Held \cup Up /\ Held' \subseteq Held /\ Held' \cap Up' = {}
  <2>1. CASE Finish \/ Deadline
    <3> DEFINE c == inflight.call
    <3>1. inflight # NoCall /\ inflight' = NoCall /\ upq' = upq /\ hand = NoHand /\ relay = NoRelay
      BY <2>1 DEF Finish, Deadline, TickFree, wireVars
    <3>2. c \in Call /\ Held = {c}
      BY <1>1, <3>1, HeldIs
    <3>3. relay' = NoRelay \/ \E out \in {res[c], "unknown"} : relay' = [call |-> c, out |-> out]
      BY <2>1 DEF Finish, Deadline
    <3> HIDE DEF c
    <3>4. Means(relay.call, relay.out)'
      BY <1>1, <1>2, <1>3, <3>2, <3>3 DEF Backed, Means, NoRelay
    <3>5. Held' \subseteq {c}
      BY <1>2, <3>1, <3>3 DEF Held, NoHand, NoCall, NoRelay
    <3>6. Up' = Up
      BY <3>1 DEF Up
    <3> QED BY <1>1, <3>1, <3>2, <3>4, <3>5, <3>6 DEF OnePlace
  <2>2. CASE Relay
    <3> DEFINE m == [call |-> relay.call, out |-> relay.out, link |-> rlink]
    <3>1. relay # NoRelay /\ relay' = NoRelay /\ inflight' = inflight /\ upq' = Append(upq, m)
      BY <2>2 DEF Relay
    <3>2. Held = {relay.call} /\ relay \in [call : Call, out : Replies] /\ hand = NoHand
      BY <1>1, <3>1, HeldIs
    <3>3. m \in UpSet /\ m.call = relay.call /\ m.out = relay.out
      BY <1>1, <3>2 DEF UpSet
    <3> HIDE DEF m
    <3>4. inflight = NoCall
      BY <1>1, <3>1 DEF BridgeTypes
    <3>5. Held' = {}
      BY <1>2, <3>1, <3>2, <3>4 DEF Held, NoHand, NoCall, NoRelay
    <3>6. relay.call \notin Up
      BY <1>1, <3>2 DEF OnePlace
    <3>7. Up' = Up \cup {relay.call} /\ IsInjective(Names(upq')) /\ Range(upq') = Range(upq) \cup {m}
      BY <1>1, <3>1, <3>3, <3>6, NamesAppend, AppendOne DEF Up, OnePlace
    <3>8. \A x \in {m} : Means(x.call, x.out)'
      BY <1>1, <1>2, <1>3, <3>3 DEF Backed, Means
    <3>9. Means(relay.call, relay.out)'
      BY <3>1, TuningAssumption DEF Means, NoRelay, Change
    <3> QED BY <3>2, <3>5, <3>7, <3>8, <3>9
  <2> QED BY <2>1, <2>2
<1>5. Up' \subseteq Held \cup Up /\ Apart(Down', Queued', Held', Up', Popped', core')
  BY <1>1, <1>2, <1>3, <1>4 DEF OnePlace, Apart
<1>6. OnePlace'
  BY <1>1, <1>2, <1>3, <1>4, <1>5, MovedOnePlace
<1>7. Backed' /\ OneOpen'
  BY <1>2, <1>3, <1>4, MovedBacked
<1> QED BY <1>6, <1>7 DEF Custody

\* The core carries a change out, or not: nobody has said yet that it did not.
LEMMA ServeCustody ==
  ASSUME TypeInv, Custody, NEW c \in Call, Serve(c)
  PROVE  Custody'
<1>1. OnePlace /\ Backed /\ OneOpen /\ BridgeTypes
  BY DEF TypeInv, Custody
<1>2. call' = call /\ c \in core /\ core' = core \ {c} /\ UNCHANGED <<down, upq, queue, hand, inflight, relay>>
  BY DEF Serve, serverVars, wireVars, tickVars
<1>3. PICK out \in {"ok", "no", "invalid"} :
        /\ res' = IF c \in {hand.call, inflight.call} THEN [res EXCEPT ![c] = out] ELSE res
        /\ performed' = IF c \in Change /\ out # "no" THEN performed \cup {c} ELSE performed
  BY DEF Serve
<1>4. /\ Down' = Down /\ Queued' = Queued /\ Popped' = Popped /\ Held' = Held /\ Up' = Up
      /\ Range(upq') = Range(upq)
  BY <1>2 DEF Down, Queued, Popped, Held, Up
<1>5. c \in Ahead /\ c \notin performed /\ res[c] = "none" /\ Sent(c)
  BY <1>1, <1>2 DEF OnePlace, Ahead
<1>6. Ahead' = Ahead \ {c}
  BY <1>1, <1>2, <1>4 DEF OnePlace, Ahead
<1>7. \A o \in Call : /\ res'[o] = IF o = c THEN res'[c] ELSE res[o]
                      /\ res'[c] \in {"none", out}
  BY <1>1, <1>3, <1>5 DEF BridgeTypes
<1>8. OnePlace'
  <2>1. \A o \in Down' \cup Queued' \cup Held' \cup Up' \cup core' \cup performed' : Sent(o)'
    BY <1>1, <1>2, <1>3, <1>4, <1>5 DEF OnePlace, Sent
  <2>2. \A o \in Call : res'[o] # "none" => Sent(o)' /\ o \notin Ahead'
    BY <1>1, <1>2, <1>5, <1>6, <1>7 DEF OnePlace, Sent
  <2>3. performed' \cap Ahead' = {}
    BY <1>1, <1>3, <1>6 DEF OnePlace
  <2> QED BY <1>1, <1>2, <1>4, <2>1, <2>2, <2>3 DEF OnePlace
<1>9. ASSUME NEW o, NEW say, Means(o, say) PROVE Means(o, say)'
  BY <1>3, <1>5, <1>6, <1>9 DEF Means
<1>10. \A o \in Call : Means(o, res[o])'
  <2> SUFFICES ASSUME NEW o \in Call PROVE Means(o, res[o])'
    OBVIOUS
  <2>1. CASE o # c
    BY <1>1, <1>7, <1>9, <2>1 DEF Backed
  <2>2. CASE o = c
    BY <1>3, <1>5, <1>6, <1>7, <2>2 DEF Means
  <2> QED BY <2>1, <2>2
<1>11. /\ Means(relay.call, relay.out)' /\ \A m \in Range(upq') : Means(m.call, m.out)'
       /\ \A o \in Call : Means(o, call[o].reply.out)' /\ Means(o, call[o].answer)'
  BY <1>1, <1>2, <1>4, <1>9 DEF Backed
<1>12. Backed'
  BY <1>1, <1>2, <1>4, <1>10, <1>11 DEF Backed
<1>13. OneOpen'
  BY <1>1, <1>2 DEF OneOpen, Sent
<1> QED BY <1>8, <1>12, <1>13 DEF Custody

LEMMA CustodyKept == TypeInv /\ Custody /\ [Next]_vars => Custody'
<1> SUFFICES ASSUME TypeInv, Custody, [Next]_vars PROVE Custody'
  OBVIOUS
<1>1. CASE UNCHANGED <<call, wireVars, queue, tickVars, coreVars>>
  <2>1. \A c \in Call : Sent(c) => Sent(c)'
    BY <1>1 DEF Sent
  <2>2. OnePlace' /\ Up' = Up /\ Held' = Held /\ Ahead' = Ahead /\ Range(upq)' = Range(upq)
    BY <1>1, <2>1, PlacesStay DEF Custody
  <2>3. UNCHANGED <<relay, performed, res>>
    BY <1>1 DEF tickVars, coreVars
  <2> QED BY <1>1, <2>2, <2>3 DEF Custody, Backed, Means, OneOpen, Sent
<1>2. UNCHANGED vars \/ Elapse => UNCHANGED <<call, wireVars, queue, tickVars, coreVars>>
  BY DEF vars, Elapse, serverVars
<1> QED BY <1>1, <1>2, RequestCustody, WakesCustody, GivesUpCustody, HandleCustody, LinkCustody, EnqueueCustody,
           DispatchCustody, ReplyCustody, ServeCustody
    DEF Next, Server, Link, GivesUp, Bridge

LEMMA Invariant == Spec => []IInv
<1>1. Init => IInv
  BY InitTypes, RememberedAtFirst, CustodyAtFirst DEF IInv
<1>2. IInv /\ [Next]_vars => IInv'
  BY TypesKept, RememberedKept, CustodyKept DEF IInv
<1> QED BY <1>1, <1>2, PTL DEF Spec

----------------------------------------------------------------------------
(* Server, link and bridge keep the promise.                               *)

\* What the user is told is what the answer says.
LEMMA ToldIs ==
  ASSUME NEW c
  PROVE  /\ call[c].answer = "open" <=> Told(c) = "open"
         /\ call[c].answer \in {"refused", "no"} <=> Told(c) = "no"
         /\ call[c].answer \notin {"refused", "no"} => Told(c) = call[c].answer
BY DEF Told

\* A step that answers one request at most, and carries nothing out.
LEMMA AnswerIsTell ==
  ASSUME IInv, IInv', NEW c \in Call, call[c].answer = "open", performed' = performed,
         \A o \in Call \ {c} : call'[o].answer = call[o].answer
  PROVE  Promise!Next \/ UNCHANGED Promise!vars
<1>1. CASE c \in Change /\ call'[c].answer # "open"
  <2>1. call'[c].answer \in {"refused", "ok", "no", "unknown"} /\ (call'[c].answer = "refused" => ~Sent(c)')
    BY <1>1 DEF IInv, TypeInv, ServerTypes, CallSet, CallShape, Shape
  <2>2. /\ call'[c].answer = "ok" => c \in performed
        /\ call'[c].answer \in {"refused", "no"} => c \notin performed
    BY <1>1, <2>1 DEF IInv, Custody, Backed, Means, OnePlace
  <2>3. /\ Told(c) = "open" /\ Told(c)' \in {"ok", "no", "unknown"}
        /\ Told(c)' = "ok" => c \in performed
        /\ Told(c)' = "no" => c \notin performed
    BY <2>1, <2>2 DEF Told
  <2>4. \A o \in Change \ {c} : Told(o)' = Told(o)
    BY DEF Told, Change
  <2>5. [o \in Change |-> Told(o)]' = [[o \in Change |-> Told(o)] EXCEPT ![c] = Told(c)']
    BY <1>1, <2>4
  <2>6. Promise!Tell(c, Told(c)')
    BY <1>1, <2>3, <2>5 DEF Promise!Tell
  <2> QED BY <1>1, <2>3, <2>6 DEF Promise!Next
<1>2. CASE c \notin Change \/ call'[c].answer = "open"
  <2>1. \A o \in Change : Told(o)' = Told(o)
    BY <1>2 DEF Told, Change
  <2> QED BY <2>1 DEF Promise!vars
<1> QED BY <1>1, <1>2

\* A step in which nobody is told anything.
LEMMA SilentIsStutter ==
  ASSUME \A o \in Call : call'[o].answer = call[o].answer, performed' = performed
  PROVE  UNCHANGED Promise!vars
<1>1. \A o \in Change : Told(o)' = Told(o)
  BY DEF Told, Change
<1> QED BY <1>1 DEF Promise!vars

\* Serving a change that is carried out.
LEMMA ServeIsPerform ==
  ASSUME IInv, NEW c \in Call, Serve(c)
  PROVE  Promise!Next \/ UNCHANGED Promise!vars
<1>1. call' = call /\ c \in core
  BY DEF Serve, serverVars
<1>2. \A o \in Change : Told(o)' = Told(o)
  BY <1>1 DEF Told
<1>3. performed' = performed \/ (c \in Change /\ performed' = performed \cup {c})
  BY DEF Serve
<1>4. CASE performed' = performed
  BY <1>2, <1>4 DEF Promise!vars
<1>5. CASE c \in Change /\ performed' = performed \cup {c}
  <2>1. c \in Ahead /\ c \notin performed /\ Sent(c)
    BY <1>1 DEF IInv, Custody, OnePlace, Ahead
  <2>2. call[c].answer \in {"open", "unknown"}
    BY <1>5, <2>1 DEF IInv, Custody, Backed, Means, TypeInv, ServerTypes, CallSet, CallShape, Shape
  <2>3. Told(c) \in {"open", "unknown"}
    BY <2>2 DEF Told
  <2>4. Promise!Perform(c)
    BY <1>2, <1>5, <2>1, <2>3 DEF Promise!Perform
  <2> QED BY <1>5, <2>4 DEF Promise!Next
<1> QED BY <1>3, <1>4, <1>5

LEMMA StepKeepsPromise == IInv /\ IInv' /\ [Next]_vars => [Promise!Next]_Promise!vars
<1> SUFFICES ASSUME IInv, IInv', [Next]_vars PROVE Promise!Next \/ UNCHANGED Promise!vars
  OBVIOUS
<1>1. ASSUME NEW c \in Call, Serve(c) PROVE Promise!Next \/ UNCHANGED Promise!vars
  BY <1>1, ServeIsPerform
<1>2. ASSUME NEW c \in Call, Server(c) PROVE Promise!Next \/ UNCHANGED Promise!vars
  <2>1. ServerTypes /\ Shape(c)
    BY DEF IInv, TypeInv, CallShape
  <2>2. performed' = performed
    BY <1>2, WakesAs DEF Server, Request, IInv, Rest, coreVars
  <2>3. call[c].answer = "open"
    BY <1>2, <2>1, WakesAs DEF Server, Request, Shape, IInv
  <2>4. \A o \in Call \ {c} : call'[o].answer = call[o].answer
    <3>1. CASE Request(c)
      <4>1. call' = answered(c, "refused") \/ call' = asked(c)
        BY <3>1 DEF Request, asked
      <4>2. "refused" \in Answers
        BY DEF Answers
      <4> QED BY <2>1, <4>1, <4>2, AnsweredIs, AskedIs
    <3>2. CASE Wakes(c)
      <4>1. CASE call' = [call EXCEPT ![c].at = "waiting"]
        BY <2>1, <4>1 DEF ServerTypes, CallSet
      <4>2. CASE \E what \in {"ok", "no", "unknown", "unavailable"} : call' = answered(c, what)
        <5>1. PICK what \in {"ok", "no", "unknown", "unavailable"} : call' = answered(c, what)
          BY <4>2
        <5>2. what \in Answers
          BY DEF Answers
        <5> QED BY <2>1, <5>1, <5>2, AnsweredIs
      <4> QED BY <3>2, <4>1, <4>2, WakesAs DEF IInv
    <3> QED BY <1>2, <3>1, <3>2 DEF Server
  <2> QED BY <2>2, <2>3, <2>4, AnswerIsTell
<1>3. ASSUME ~\E c \in Call : Server(c) \/ Serve(c) PROVE UNCHANGED Promise!vars
  <2>1. \A o \in Call : call'[o].answer = call[o].answer
    BY <1>3, AnswersKept DEF IInv
  <2>2. performed' = performed
    BY <1>3 DEF Next, vars, HandleResponse, Shutdown, Link, Bridge, LinkBreaks, Connects, Connected, SocketEnds,
      Disconnected, Elapse, Enqueue, Pop, Dispatch, Dispatched, Finish, Deadline, Relay, coreVars
  <2> QED BY <2>1, <2>2, SilentIsStutter
<1> QED BY <1>1, <1>2, <1>3

\* Server, link and bridge keep TuningPromise: a request and its one reply are in
\* one place at a time, "ok" is only ever said of a change in performed, and "no"
\* only of one that is neither performed nor still on its way to the core.
THEOREM PromiseIsKept == Spec => KeepsPromise
<1>1. Init => Promise!Init
  <2> SUFFICES ASSUME Init PROVE Promise!Init
    OBVIOUS
  <2>1. \A c \in Change : Told(c) = "open"
    BY DEF Init, Told, Fresh, Change
  <2> QED BY <2>1 DEF Init, Promise!Init
<1> QED BY <1>1, StepKeepsPromise, Invariant, PTL DEF Spec, KeepsPromise, Promise!Spec

=============================================================================
