-------------------------- MODULE ManualDriveProofs --------------------------
(***************************************************************************)
(* Proofs about web manual drive on the robot, for any number of session   *)
(* ids, topics, policies, time limits and connection generations: motion   *)
(* is the accepted session's, what the dashboard, maintenance and the      *)
(* drain are told fits the session, and a release ends it.                 *)
(***************************************************************************)
EXTENDS ManualDrive, SequenceLemmas

Frames == FrameSet \cup {None}
Messages == [accepted : Nat, refused : Nat, results : Seq(Outcomes)]
Drains1 == [since : -1 .. DrainTime, last : 0 .. DrainTime + 1]

LinkTypes ==
  /\ link \in {"down", "dialing", "up", "closing", "closed"}
  /\ gen \in 0 .. MaxGen /\ downAge \in 0 .. Stale
  /\ link \in {"closing"} => gen < MaxGen

SlotTypes ==
  /\ latest \in Frames /\ release \in Frames /\ rel \in Frames /\ smp \in Frames
  /\ invalidated \in BOOLEAN

CommandTypes ==
  /\ queue \in Seq(CommandSet) /\ Len(queue) <= QueueCap
  /\ wire \in [Ids -> -1 .. MaxSeq + 1] /\ cmds \in 0 .. MaxCmds
  /\ pc \in {"idle", "commands", "handle", "sample"}
  /\ cur \in CommandSet \cup {None} /\ (pc = "handle" <=> cur # None)

EnvTypes ==
  /\ claims \subseteq Claims /\ origin \in Origins /\ policy \in Policies \cup {NoPolicy}
  /\ granted \in BOOLEAN

SessionTypes ==
  /\ session \in SessionSet \cup {NoSession} /\ seen \subseteq Ids
  /\ vel \in Nat /\ evid \in BOOLEAN /\ src \in [id : Ids, gen : 0 .. MaxGen] \cup {None}
  /\ replies \in [Ids -> Messages]

DrainTypes == drain \in [Topics -> Drains1]

Types == LinkTypes /\ SlotTypes /\ CommandTypes /\ EnvTypes /\ SessionTypes /\ DrainTypes

\* What was sent for i is what a session that is open, was, or never was sends.
VerdictOf(i) ==
  /\ replies[i].accepted <= (IF i \in seen THEN 1 ELSE 0)
  /\ Len(replies[i].results) = replies[i].accepted - (IF Accepted /\ session.id = i THEN 1 ELSE 0)
  /\ Preparing /\ session.id = i => replies[i].accepted = 0

Verdict ==
  /\ Active => session.id \in seen
  /\ \A i \in Ids : VerdictOf(i)

\* MotionIsOwned, of a frame that there was.
Motion ==
  vel > 0 \/ evid =>
    /\ src \in [id : Ids, gen : 0 .. MaxGen]
    /\ Active => session.acked /\ src = [id |-> session.id, gen |-> session.gen] /\ vel <= session.policy
    /\ ~Active => replies[src.id].results = <<"failed">>

\* The acks sent for i, and the one its session still has to send; the start in
\* hand; together, the starts taken.
Acks(i)  == replies[i].accepted + replies[i].refused + (IF Preparing /\ session.id = i THEN 1 ELSE 0)
SameAcks == \A i \in Ids : Acks(i)' = Acks(i)
Held(i)  == IF cur # None /\ cur.cmd = "teleop_start" /\ cur.id = i THEN 1 ELSE 0
Answered == taken \in [Ids -> Nat] /\ \A i \in Ids : Acks(i) + Held(i) = taken[i]

Granted == granted => "maintenance" \in claims /\ ~Active

\* Every frame is older than the stream's next, and of a connection there was.
Sent(f) == f # None => f.seq < wire[f.id] /\ f.gen <= gen

Slots ==
  /\ Sent(latest) /\ Sent(release) /\ Sent(rel) /\ Sent(smp)
  /\ \A f \in {release, rel} : f # None => ~f.deadman /\ f.speed = 0
  /\ release # None /\ latest # None => release.id # latest.id
  /\ rel # None /\ smp # None => rel.id # smp.id
  /\ release # None /\ smp # None /\ smp.id = release.id => smp.seq < release.seq
  /\ pc = "idle" => rel = None /\ smp = None

\* A release is news to the session it is for, until it was looked at.
Newer ==
  /\ Active /\ session.seq >= 0 => session.seq < wire[session.id]
  /\ Active /\ release # None /\ release.id = session.id => session.seq < release.seq
  /\ Active /\ rel # None /\ rel.id = session.id /\ pc \in {"commands", "handle"} => session.seq < rel.seq
  /\ pc = "sample" /\ rel # None /\ rel.gen = gen => ~(Accepted /\ session.id = rel.id)

IInv == Types /\ Verdict /\ Answered /\ Motion /\ Granted /\ DrainIsOwn /\ Slots /\ Newer

----------------------------------------------------------------------------
(* The data.                                                               *)

LEMMA Bounds ==
  /\ HardMax \in Nat /\ Timeout \in Nat \ {0} /\ DrainTime \in Nat \ {0} /\ PrepTimeout \in Nat
  /\ PrepTimeout >= DrainTime /\ QueueCap \in Nat \ {0} /\ SeenCap \in Nat
  /\ MaxGen \in Nat /\ MaxSeq \in Nat /\ MaxCmds \in Nat
  /\ Stale = Timeout + 1 /\ Stale \in Nat
  /\ Policies \subseteq Nat /\ Speeds \subseteq Nat /\ None \notin Ids /\ Claims \subseteq AllClaims
  /\ PublishOk \subseteq BOOLEAN
BY ManualAssumption DEF Stale

\* A frame has the fields of a frame, and is not None.
LEMMA FrameIs ==
  ASSUME NEW f \in FrameSet
  PROVE  /\ f.id \in Ids /\ f.seq \in 0 .. MaxSeq /\ f.deadman \in BOOLEAN /\ f.speed \in Nat
         /\ f.gen \in 0 .. MaxGen /\ f.age \in 0 .. Stale /\ f # None
         /\ f = [id |-> f.id, seq |-> f.seq, deadman |-> f.deadman, speed |-> f.speed, gen |-> f.gen, age |-> f.age]
<1>1. /\ f.id \in Ids /\ f.seq \in 0 .. MaxSeq /\ f.deadman \in BOOLEAN /\ f.speed \in Speeds \cup {0}
      /\ f.gen \in 0 .. MaxGen /\ f.age \in 0 .. Stale
      /\ f = [id |-> f.id, seq |-> f.seq, deadman |-> f.deadman, speed |-> f.speed, gen |-> f.gen, age |-> f.age]
  BY DEF FrameSet
<1>2. f # None
  <2>1. "id" \in DOMAIN f /\ "id" \notin DOMAIN None
    BY <1>1 DEF None
  <2> QED BY <2>1
<1> QED BY <1>1, <1>2, Bounds

LEMMA OlderIs ==
  ASSUME NEW cap \in Nat, NEW a \in 0 .. cap
  PROVE  Older(a, cap) \in 0 .. cap
BY DEF Older

\* A frame that ages is the same frame.
LEMMA AgedIs ==
  ASSUME NEW f \in Frames
  PROVE  /\ Aged(f) \in Frames /\ (Aged(f) = None <=> f = None)
         /\ f # None => /\ Aged(f).id = f.id /\ Aged(f).seq = f.seq /\ Aged(f).gen = f.gen
                        /\ Aged(f).deadman = f.deadman /\ Aged(f).speed = f.speed
<1>1. CASE f = None
  <2>1. "age" \notin DOMAIN f
    BY <1>1 DEF None
  <2> QED BY <1>1, <2>1 DEF Aged, Frames
<1>2. CASE f \in FrameSet
  <2>1. f = [id |-> f.id, seq |-> f.seq, deadman |-> f.deadman, speed |-> f.speed, gen |-> f.gen, age |-> f.age]
        /\ f.age \in 0 .. Stale /\ f # None
    BY <1>2, FrameIs
  <2>2. "age" \in DOMAIN f
    BY <2>1
  <2>3. Aged(f) = [f EXCEPT !.age = Older(f.age, Stale)]
    BY <2>2 DEF Aged
  <2>4. Older(f.age, Stale) \in 0 .. Stale
    BY <2>1, OlderIs, Bounds
  <2>5. Aged(f) \in FrameSet
    BY <1>2, <2>3, <2>4 DEF FrameSet
  <2>6. Aged(f).id = f.id /\ Aged(f).seq = f.seq /\ Aged(f).gen = f.gen /\ Aged(f).deadman = f.deadman /\ Aged(f).speed = f.speed
    BY <1>2, <2>3 DEF FrameSet
  <2> QED BY <2>1, <2>5, <2>6, FrameIs DEF Frames
<1> QED BY <1>1, <1>2 DEF Frames

\* A command that ages is a command, and not None.
LEMMA CommandIs ==
  ASSUME NEW c \in CommandSet
  PROVE  /\ c # None /\ Aged(c) \in CommandSet /\ Aged(c) # None
         /\ Aged(c).cmd = c.cmd /\ (c.cmd = "teleop_start" => Aged(c).id = c.id)
         /\ c.cmd = "teleop_start" => c.id \in Ids /\ c.age \in 0 .. Stale
<1>1. ASSUME NEW d \in CommandSet PROVE d # None
  <2>1. "cmd" \in DOMAIN d /\ "cmd" \notin DOMAIN None
    BY DEF CommandSet, PlainStop, None
  <2> QED BY <2>1
<1>2. CASE c \in [cmd : {"teleop_start"}, id : Ids, gen : 0 .. MaxGen, age : 0 .. Stale]
  <2>1. "age" \in DOMAIN c /\ c.age \in 0 .. Stale /\ c.id \in Ids
    BY <1>2
  <2>2. Older(c.age, Stale) \in 0 .. Stale
    BY <2>1, OlderIs, Bounds
  <2>3. Aged(c) = [c EXCEPT !.age = Older(c.age, Stale)]
    BY <2>1 DEF Aged
  <2>4. Aged(c) \in CommandSet
    BY <1>2, <2>2, <2>3 DEF CommandSet
  <2>5. Aged(c).cmd = c.cmd /\ Aged(c).id = c.id
    BY <1>2, <2>3
  <2> QED BY <1>1, <2>1, <2>4, <2>5
<1>3. CASE c \in [cmd : {"teleop_stop"}, gen : 0 .. MaxGen]
  <2>1. "age" \notin DOMAIN c /\ c.cmd = "teleop_stop"
    BY <1>3
  <2> QED BY <1>1, <2>1 DEF Aged
<1>4. CASE c = PlainStop
  <2>1. "age" \notin DOMAIN c /\ c.cmd = "stop"
    BY <1>4 DEF PlainStop
  <2> QED BY <1>1, <2>1 DEF Aged
<1> QED BY <1>2, <1>3, <1>4 DEF CommandSet

\* There is a session, or there is none.
LEMMA SessionIs ==
  ASSUME SessionTypes
  PROVE  /\ Active <=> session \in SessionSet
         /\ Active => /\ session.id \in Ids /\ session.gen \in 0 .. MaxGen /\ session.seq \in -1 .. MaxSeq
                      /\ session.age \in 0 .. Timeout /\ session.acked \in BOOLEAN
                      /\ session.prep \in 0 .. PrepTimeout /\ session.policy \in Policies
         /\ NoSession \notin SessionSet
<1>1. NoSession.id = None
  BY DEF NoSession
<1>2. \A x \in SessionSet : x.id \in Ids
  BY DEF SessionSet
<1>3. NoSession \notin SessionSet
  BY <1>1, <1>2, Bounds
<1>4. session \in SessionSet =>
        /\ session.id \in Ids /\ session.gen \in 0 .. MaxGen /\ session.seq \in -1 .. MaxSeq
        /\ session.age \in 0 .. Timeout /\ session.acked \in BOOLEAN
        /\ session.prep \in 0 .. PrepTimeout /\ session.policy \in Policies
  BY DEF SessionSet
<1> QED BY <1>3, <1>4 DEF SessionTypes, Active

----------------------------------------------------------------------------
(* What happens to a session.                                              *)

SessionInv == SessionTypes /\ Verdict /\ Motion

\* Nothing of it depends on anything but the session and what was said of it.
LEMMA SameSession ==
  ASSUME SessionInv, UNCHANGED sessVars
  PROVE  SessionInv' /\ SameAcks
<1>1. SessionInv'
  BY DEF SessionInv, SessionTypes, Verdict, VerdictOf, Motion, Active, Accepted, Preparing, sessVars
<1>2. SameAcks
  BY DEF SameAcks, Acks, Active, Preparing, sessVars
<1> QED BY <1>1, <1>2

\* One more message under an id.
LEMMA MessageIs ==
  ASSUME NEW m \in Messages, NEW o \in Outcomes
  PROVE  /\ m.accepted \in Nat /\ m.refused \in Nat /\ m.results \in Seq(Outcomes) /\ Len(m.results) \in Nat
         /\ Accept(m) \in Messages /\ Accept(m).accepted = m.accepted + 1
         /\ Accept(m).refused = m.refused /\ Accept(m).results = m.results
         /\ Refuse(m) \in Messages /\ Refuse(m).accepted = m.accepted
         /\ Refuse(m).refused = m.refused + 1 /\ Refuse(m).results = m.results
         /\ Result(m, o) \in Messages /\ Result(m, o).accepted = m.accepted
         /\ Result(m, o).refused = m.refused /\ Result(m, o).results = Append(m.results, o)
         /\ Len(Result(m, o).results) = Len(m.results) + 1
<1>1. m.accepted \in Nat /\ m.refused \in Nat /\ m.results \in Seq(Outcomes) /\ Len(m.results) \in Nat
  BY DEF Messages
<1>2. Append(m.results, o) \in Seq(Outcomes) /\ Len(Append(m.results, o)) = Len(m.results) + 1
  BY <1>1, AppendOne
<1>3. /\ Accept(m) \in Messages /\ Accept(m).accepted = m.accepted + 1
      /\ Accept(m).refused = m.refused /\ Accept(m).results = m.results
  BY <1>1 DEF Accept, Messages
<1>4. /\ Refuse(m) \in Messages /\ Refuse(m).accepted = m.accepted
      /\ Refuse(m).refused = m.refused + 1 /\ Refuse(m).results = m.results
  BY <1>1 DEF Refuse, Messages
<1>5. /\ Result(m, o) \in Messages /\ Result(m, o).accepted = m.accepted
      /\ Result(m, o).refused = m.refused /\ Result(m, o).results = Append(m.results, o)
  BY <1>1, <1>2 DEF Result, Messages
<1> QED BY <1>1, <1>2, <1>3, <1>4, <1>5

\* The message that ends a session follows what was said before: the refusal of
\* a start that was being prepared, or the one result of an accepted session.
LEMMA VerdictEnds ==
  ASSUME SessionInv, Active, ~Active', seen' = seen, NEW v \in Outcomes,
         replies' = [replies EXCEPT ![session.id] = IF ~session.acked THEN Refuse(@) ELSE Result(@, v)]
  PROVE  /\ replies' \in [Ids -> Messages]
         /\ session.acked => replies'[session.id].results = <<v>>
         /\ \A i \in Ids : i # session.id => replies'[i] = replies[i]
         /\ Verdict' /\ SameAcks
<1>1. session.id \in Ids /\ session.acked \in BOOLEAN /\ replies \in [Ids -> Messages]
  BY SessionIs DEF SessionInv, SessionTypes
<1>2. ~Accepted' /\ ~Preparing'
  BY DEF Accepted, Preparing
<1> DEFINE m == replies[session.id]
           w == IF ~session.acked THEN Refuse(m) ELSE Result(m, v)
<1>3. m \in Messages /\ VerdictOf(session.id) /\ session.id \in seen
  BY <1>1 DEF SessionInv, Verdict
<1>4. /\ m.accepted \in Nat /\ m.refused \in Nat /\ m.results \in Seq(Outcomes) /\ Len(m.results) \in Nat
      /\ w \in Messages /\ w.accepted = m.accepted
      /\ ~session.acked => w.refused = m.refused + 1 /\ w.results = m.results
      /\ session.acked => w.refused = m.refused /\ w.results = Append(m.results, v) /\ Len(w.results) = Len(m.results) + 1
  BY <1>3, MessageIs
<1>5. replies' \in [Ids -> Messages] /\ replies'[session.id] = w /\ \A i \in Ids : i # session.id => replies'[i] = replies[i]
  <2>1. replies' = [replies EXCEPT ![session.id] = w]
    OBVIOUS
  <2> HIDE DEF w
  <2> QED BY <1>1, <1>4, <2>1
<1>6. /\ session.acked => Len(m.results) = m.accepted - 1
      /\ ~session.acked => Len(m.results) = m.accepted /\ m.accepted = 0
      /\ m.accepted <= 1
  BY <1>3, <1>4 DEF VerdictOf, Accepted, Preparing
<1> HIDE DEF w
<1>7. session.acked => replies'[session.id].results = <<v>>
  <2> SUFFICES ASSUME session.acked PROVE w.results = <<v>>
    BY <1>5
  <2>1. Len(m.results) = 0
    BY <1>4, <1>6
  <2>2. m.results = <<>>
    BY <1>4, <2>1
  <2> QED BY <1>4, <2>2
<1>8. ASSUME NEW i \in Ids PROVE VerdictOf(i)' /\ Acks(i)' = Acks(i)
  <2>1. VerdictOf(i) /\ replies[i].accepted \in Nat /\ replies[i].refused \in Nat
    BY <1>1 DEF SessionInv, Verdict, Messages
  <2>2. CASE i = session.id
    <3>1. VerdictOf(i)'
      BY <1>2, <1>3, <1>4, <1>5, <1>6, <2>1, <2>2 DEF VerdictOf
    <3>2. Acks(i)' = Acks(i)
      BY <1>1, <1>2, <1>4, <1>5, <2>2 DEF Acks, Preparing
    <3> QED BY <3>1, <3>2
  <2>3. CASE i # session.id
    <3>1. VerdictOf(i)'
      BY <1>2, <1>5, <2>1, <2>3 DEF VerdictOf
    <3>2. Acks(i)' = Acks(i)
      BY <1>2, <1>5, <2>1, <2>3 DEF Acks, Preparing
    <3> QED BY <3>1, <3>2
  <2> QED BY <2>2, <2>3
<1> QED BY <1>5, <1>7, <1>8 DEF Verdict, SameAcks

\* A session ends, its last velocity replaced by zero unless publishing raised.
LEMMA EndKeeps ==
  ASSUME SessionInv, NEW outcome \in Outcomes \cup {"timeout"}, NEW last \in Nat, NEW from,
         EndLeaving(outcome, last, from),
         \/ last = vel /\ from = src
         \/ Accepted /\ from = [id |-> session.id, gen |-> session.gen]
  PROVE  SessionInv' /\ SameAcks /\ session' = NoSession /\ seen' = seen /\ ~Active'
<1>1. PICK ok \in PublishOk :
        /\ session' = NoSession
        /\ vel' = IF ok THEN 0 ELSE last
        /\ evid' \in IF ok THEN {FALSE} ELSE {evid, FALSE}
        /\ replies' =
             IF ~Active THEN replies
             ELSE [replies EXCEPT ![session.id] =
                     IF ~session.acked THEN Refuse(@)
                     ELSE Result(@, IF ~ok THEN "failed"
                                    ELSE IF outcome = "timeout" THEN "canceled" ELSE outcome)]
        /\ src' = from
        /\ UNCHANGED seen
  BY DEF EndLeaving
<1> DEFINE v == IF ~ok THEN "failed" ELSE IF outcome = "timeout" THEN "canceled" ELSE outcome
<1>2. ok \in BOOLEAN /\ v \in Outcomes /\ (~ok => v = "failed")
  <2>1. ok \in BOOLEAN
    BY Bounds
  <2> QED BY <2>1 DEF Outcomes
<1>3. ~Active' /\ SessionTypes /\ evid \in BOOLEAN /\ vel \in Nat
  BY <1>1 DEF Active, SessionInv, SessionTypes
<1>4. /\ replies' \in [Ids -> Messages] /\ Verdict' /\ SameAcks
      /\ Accepted => replies'[session.id].results = <<v>>
  <2>1. CASE Active
    <3>1. replies' = [replies EXCEPT ![session.id] = IF ~session.acked THEN Refuse(@) ELSE Result(@, v)]
      BY <1>1, <2>1
    <3> HIDE DEF v
    <3> QED BY <1>1, <1>2, <1>3, <2>1, <3>1, VerdictEnds DEF Accepted
  <2>2. CASE ~Active
    <3>1. replies' = replies /\ seen' = seen /\ ~Accepted /\ ~Accepted' /\ ~Preparing /\ ~Preparing'
      BY <1>1, <1>3, <2>2 DEF Accepted, Preparing
    <3>2. Verdict'
      BY <1>3, <3>1 DEF SessionInv, Verdict, VerdictOf
    <3>3. SameAcks
      BY <3>1 DEF SameAcks, Acks
    <3> QED BY <1>3, <3>1, <3>2, <3>3 DEF SessionTypes
  <2> QED BY <2>1, <2>2
<1> HIDE DEF v
<1>5. Active => session.id \in Ids /\ session.gen \in 0 .. MaxGen /\ session.acked \in BOOLEAN /\ session.id \in seen
  BY <1>3, SessionIs DEF SessionInv, Verdict
<1>6. SessionTypes'
  <2>1. from \in [id : Ids, gen : 0 .. MaxGen] \cup {None}
    BY <1>3, <1>5 DEF SessionTypes, Accepted
  <2>3. evid' \in BOOLEAN
    BY <1>1, <1>2, <1>3
  <2> QED BY <1>1, <1>4, <1>3, <2>1, <2>3 DEF SessionTypes
<1>7. Motion'
  <2> SUFFICES ASSUME vel' > 0 \/ evid'
               PROVE  src' \in [id : Ids, gen : 0 .. MaxGen] /\ replies'[src'.id].results = <<"failed">>
    BY <1>3 DEF Motion
  <2>1. ~ok /\ vel' = last /\ (evid' => evid) /\ v = "failed"
    <3>1. ~ok
      <4>1. ok => vel' = 0
        BY <1>1
      <4>2. ok => evid' = FALSE
        BY <1>1
      <4> QED BY <1>2, <4>1, <4>2
    <3> QED BY <1>1, <1>2, <3>1
  <2>2. CASE Active /\ session.acked
    <3>1. src' = [id |-> session.id, gen |-> session.gen]
      BY <1>1, <2>1, <2>2 DEF SessionInv, Motion
    <3> QED BY <1>4, <1>5, <2>1, <2>2, <3>1 DEF Accepted
  <2>3. CASE Active /\ ~session.acked
    BY <1>1, <2>1, <2>3 DEF SessionInv, Motion, Accepted
  <2>4. CASE ~Active
    BY <1>1, <2>1, <2>4 DEF SessionInv, Motion, Accepted
  <2> QED BY <2>2, <2>3, <2>4
<1> QED BY <1>1, <1>4, <1>3, <1>6, <1>7 DEF SessionInv

\* End is the end that leaves what was published last.
LEMMA EndIs ==
  ASSUME SessionInv, NEW outcome \in Outcomes \cup {"timeout"}, End(outcome)
  PROVE  SessionInv' /\ SameAcks /\ session' = NoSession /\ seen' = seen /\ ~Active'
<1>1. vel \in Nat
  BY DEF SessionInv, SessionTypes
<1> QED BY <1>1, EndKeeps DEF End

\* A refusal under one id is one ack more under that id, and nothing else.
LEMMA RefuseOne ==
  ASSUME replies \in [Ids -> Messages], NEW i \in Ids, replies' = [replies EXCEPT ![i] = Refuse(@)]
  PROVE  /\ replies' \in [Ids -> Messages]
         /\ \A j \in Ids : /\ replies'[j].accepted = replies[j].accepted
                           /\ replies'[j].results = replies[j].results
                           /\ replies'[j].refused = replies[j].refused + (IF j = i THEN 1 ELSE 0)
                           /\ replies[j].accepted \in Nat /\ replies[j].refused \in Nat
                           /\ Len(replies[j].results) \in Nat
<1> DEFINE w == Refuse(replies[i])
<1>1. "failed" \in Outcomes
  BY DEF Outcomes
<1>2. w \in Messages /\ w.accepted = replies[i].accepted /\ w.results = replies[i].results
      /\ w.refused = replies[i].refused + 1
  BY <1>1, MessageIs
<1>3. replies' = [replies EXCEPT ![i] = w]
  OBVIOUS
<1> HIDE DEF w
<1>4. replies' \in [Ids -> Messages] /\ replies'[i] = w /\ \A j \in Ids : j # i => replies'[j] = replies[j]
  BY <1>2, <1>3
<1>5. \A j \in Ids : replies[j].accepted \in Nat /\ replies[j].refused \in Nat /\ Len(replies[j].results) \in Nat
  BY <1>1, MessageIs
<1> QED BY <1>2, <1>4, <1>5

\* A start that is told no changes no session, not even one of its own id.
LEMMA RefusalKeeps ==
  ASSUME SessionInv, NEW c, c.id \in Ids, SendRefusal(c)
  PROVE  /\ SessionInv' /\ session' = session
         /\ \A i \in Ids : Acks(i)' = Acks(i) + (IF i = c.id THEN 1 ELSE 0)
<1>1. /\ replies' = [replies EXCEPT ![c.id] = Refuse(@)]
      /\ UNCHANGED <<session, seen, vel, evid, src>>
      /\ SessionTypes /\ Verdict /\ Motion
  BY DEF SendRefusal, SessionInv
<1>2. /\ replies' \in [Ids -> Messages]
      /\ \A j \in Ids : /\ replies'[j].accepted = replies[j].accepted
                        /\ replies'[j].results = replies[j].results
                        /\ replies'[j].refused = replies[j].refused + (IF j = c.id THEN 1 ELSE 0)
                        /\ replies[j].accepted \in Nat /\ replies[j].refused \in Nat
                        /\ Len(replies[j].results) \in Nat
  <2>1. replies \in [Ids -> Messages]
    BY <1>1 DEF SessionTypes
  <2> QED BY <1>1, <2>1, RefuseOne
<1>3. SessionTypes'
  BY <1>1, <1>2 DEF SessionTypes
<1>4. Verdict'
  BY <1>1, <1>2 DEF Verdict, VerdictOf, Active, Accepted, Preparing
<1>5. Motion'
  <2>1. src \in [id : Ids, gen : 0 .. MaxGen] => src.id \in Ids
    OBVIOUS
  <2> QED BY <1>1, <1>2, <2>1 DEF Motion, Active
<1>6. ASSUME NEW i \in Ids PROVE Acks(i)' = Acks(i) + (IF i = c.id THEN 1 ELSE 0)
  <2>1. (Preparing' <=> Preparing) /\ session' = session
    BY <1>1 DEF Preparing, Active
  <2>2. /\ replies'[i].accepted = replies[i].accepted
        /\ replies'[i].refused = replies[i].refused + (IF i = c.id THEN 1 ELSE 0)
        /\ replies[i].accepted \in Nat /\ replies[i].refused \in Nat
    BY <1>2
  <2>3. CASE Preparing
    BY <2>1, <2>2, <2>3 DEF Acks
  <2>4. CASE ~Preparing
    BY <2>1, <2>2, <2>4 DEF Acks
  <2> QED BY <2>3, <2>4
<1> QED BY <1>1, <1>3, <1>4, <1>5, <1>6 DEF SessionInv

\* A start opens a session that moves nothing, or is refused; it is answered
\* when its answer is sent, and until then it is being prepared.
LEMMA StartKeeps ==
  ASSUME SessionInv, LinkTypes, EnvTypes, NEW c, c.id \in Ids, ~StartRefused(c), Start(c)
  PROVE  /\ SessionInv' /\ ~Active
         /\ \A i \in Ids : Acks(i)' = Acks(i) + (IF i = c.id THEN 1 ELSE 0)
         /\ \/ session' = NoSession
            \/ session' \in SessionSet /\ session'.id = c.id /\ session'.seq = -1 /\ session'.acked = FALSE
               /\ session'.prep = 0
<1>1. ~Active /\ c.id \notin seen /\ policy \in Policies
  BY DEF StartRefused, EnvTypes
<1>2. SessionTypes /\ Verdict /\ Motion
  BY DEF SessionInv
<1>3. /\ replies \in [Ids -> Messages] /\ replies[c.id].accepted = 0 /\ Len(replies[c.id].results) = 0
      /\ \A i \in Ids : /\ replies[i].accepted \in Nat /\ replies[i].refused \in Nat
                        /\ Len(replies[i].results) \in Nat
  <2>1. replies \in [Ids -> Messages] /\ VerdictOf(c.id)
    BY <1>2 DEF Verdict, SessionTypes
  <2>2. \A i \in Ids : replies[i].accepted \in Nat /\ replies[i].refused \in Nat /\ Len(replies[i].results) \in Nat
    <3>1. "failed" \in Outcomes
      BY DEF Outcomes
    <3> QED BY <2>1, <3>1, MessageIs
  <2> QED BY <1>1, <2>1, <2>2 DEF VerdictOf, Accepted
<1>4. /\ seen' = seen \cup {c.id} /\ src' = src
      /\ \/ /\ session' = [id |-> c.id, gen |-> gen, origin |-> origin, seq |-> -1,
                           age |-> 0, acked |-> FALSE, prep |-> 0, policy |-> policy]
            /\ vel' = 0 /\ evid' = FALSE /\ replies' = replies
         \/ /\ session' = NoSession
            /\ \/ vel' = 0 /\ evid' = FALSE
               \/ vel' = vel /\ evid' \in {evid, FALSE}
            /\ replies' = [replies EXCEPT ![c.id] = Refuse(@)]
  BY DEF Start
<1>5. CASE session' = NoSession
  <2>0. NoSession # [id |-> c.id, gen |-> gen, origin |-> origin, seq |-> -1,
                     age |-> 0, acked |-> FALSE, prep |-> 0, policy |-> policy]
    <3>1. NoSession.id = None
      BY DEF NoSession
    <3> QED BY <3>1, Bounds
  <2>1. /\ \/ vel' = 0 /\ evid' = FALSE
           \/ vel' = vel /\ evid' \in {evid, FALSE}
        /\ replies' = [replies EXCEPT ![c.id] = Refuse(@)]
    BY <1>4, <1>5, <2>0
  <2>2. ~Active' /\ ~Accepted' /\ ~Preparing'
    BY <1>5 DEF Active, Accepted, Preparing
  <2>4. /\ replies' \in [Ids -> Messages]
        /\ \A j \in Ids : /\ replies'[j].accepted = replies[j].accepted
                          /\ replies'[j].results = replies[j].results
                          /\ replies'[j].refused = replies[j].refused + (IF j = c.id THEN 1 ELSE 0)
    BY <1>3, <2>1, RefuseOne
  <2>5. SessionTypes'
    <3>1. evid' \in BOOLEAN
      BY <1>2, <2>1 DEF SessionTypes
    <3>2. vel' = 0 \/ vel' = vel
      BY <2>1
    <3>3. vel' \in Nat
      BY <1>2, <3>2 DEF SessionTypes
    <3> QED BY <1>2, <1>4, <1>5, <2>4, <3>1, <3>3 DEF SessionTypes
  <2>6. Verdict'
    <3>1. ASSUME NEW i \in Ids PROVE VerdictOf(i)'
      <4>1. VerdictOf(i)
        BY <1>2 DEF Verdict
      <4>2. replies'[i].accepted <= (IF i \in seen' THEN 1 ELSE 0)
        BY <1>3, <1>4, <2>4, <4>1 DEF VerdictOf
      <4> QED BY <1>1, <1>3, <2>2, <2>4, <4>1, <4>2 DEF VerdictOf, Accepted
    <3> QED BY <2>2, <3>1 DEF Verdict
  <2>7. Motion'
    <3> SUFFICES ASSUME vel' > 0 \/ evid'
                 PROVE  src' \in [id : Ids, gen : 0 .. MaxGen] /\ replies'[src'.id].results = <<"failed">>
      BY <2>2 DEF Motion
    <3>1. vel > 0 \/ evid
      <4>1. CASE vel' = 0 /\ evid' = FALSE
        <5>1. ~evid' /\ ~(vel' > 0)
          BY <4>1
        <5> QED BY <5>1
      <4>2. CASE vel' = vel /\ evid' \in {evid, FALSE}
        <5>1. evid' => evid
          BY <4>2
        <5> QED BY <4>2, <5>1
      <4> QED BY <2>1, <4>1, <4>2
    <3>2. src \in [id : Ids, gen : 0 .. MaxGen] /\ replies[src.id].results = <<"failed">>
      BY <1>1, <1>2, <3>1 DEF Motion
    <3> QED BY <1>4, <2>4, <3>2
  <2>8. \A i \in Ids : Acks(i)' = Acks(i) + (IF i = c.id THEN 1 ELSE 0)
    BY <1>1, <1>3, <2>2, <2>4 DEF Acks, Preparing
  <2> QED BY <1>1, <1>5, <2>5, <2>6, <2>7, <2>8 DEF SessionInv
<1>6. CASE session' # NoSession
  <2>1. /\ session' = [id |-> c.id, gen |-> gen, origin |-> origin, seq |-> -1,
                       age |-> 0, acked |-> FALSE, prep |-> 0, policy |-> policy]
        /\ vel' = 0 /\ evid' = FALSE /\ replies' = replies
    BY <1>4, <1>6
  <2>2. session' \in SessionSet
    BY <1>1, <2>1, Bounds DEF SessionSet, LinkTypes, EnvTypes
  <2>3. /\ Active' /\ session'.id = c.id /\ session'.seq = -1 /\ session'.acked = FALSE /\ session'.prep = 0
        /\ ~Accepted' /\ Preparing'
    BY <1>6, <2>1 DEF Active, Accepted, Preparing
  <2>4. SessionTypes'
    <3>1. evid' \in BOOLEAN
      BY <2>1
    <3> QED BY <1>2, <1>4, <2>1, <2>2, <3>1 DEF SessionTypes
  <2>5. Verdict'
    <3>1. ASSUME NEW i \in Ids PROVE VerdictOf(i)'
      <4>1. VerdictOf(i) /\ replies' = replies
        BY <1>2, <2>1 DEF Verdict
      <4>2. replies'[i].accepted <= (IF i \in seen' THEN 1 ELSE 0)
        BY <1>3, <1>4, <4>1 DEF VerdictOf
      <4> QED BY <1>1, <1>3, <2>3, <4>1, <4>2 DEF VerdictOf, Accepted
    <3> QED BY <1>4, <2>3, <3>1 DEF Verdict
  <2>6. Motion'
    BY <2>1 DEF Motion
  <2>7. \A i \in Ids : Acks(i)' = Acks(i) + (IF i = c.id THEN 1 ELSE 0)
    BY <1>1, <1>3, <2>1, <2>3 DEF Acks, Preparing
  <2> QED BY <1>1, <2>2, <2>3, <2>4, <2>5, <2>6, <2>7 DEF SessionInv
<1> QED BY <1>5, <1>6

LEMMA DrivenIs ==
  ASSUME NEW x \in SessionSet, NEW n \in -1 .. MaxSeq
  PROVE  LET y == [x EXCEPT !.seq = n, !.age = 0] IN
         /\ y \in SessionSet /\ y.id = x.id /\ y.gen = x.gen /\ y.acked = x.acked
         /\ y.policy = x.policy /\ y.seq = n
<1>1. 0 \in 0 .. Timeout
  BY Bounds
<1> QED BY <1>1 DEF SessionSet

\* A frame that drives is the accepted session's own; any other ends the
\* session or leaves it as it was.
LEMMA FrameKeeps ==
  ASSUME SessionInv, LinkTypes, EnvTypes, NEW f \in Frames, OnFrame(f)
  PROVE  /\ SessionInv' /\ SameAcks /\ seen' = seen
         /\ \/ UNCHANGED sessVars
            \/ session' = NoSession
            \/ /\ f \in FrameSet /\ Accepted /\ f.id = session.id /\ f.deadman
               /\ session' = [session EXCEPT !.seq = f.seq, !.age = 0]
<1>0. UNCHANGED sessVars => seen' = seen
  BY DEF sessVars
<1>1. CASE UNCHANGED sessVars
  BY <1>0, <1>1, SameSession
<1>2. CASE f # None /\ f.gen = gen /\ ~FrameIgnored(f) /\ FrameEnds(f) # "none" /\ End(FrameEnds(f))
  <2>1. FrameEnds(f) \in Outcomes \cup {"timeout"}
    BY <1>2 DEF FrameEnds, Outcomes
  <2> QED BY <1>2, <2>1, EndIs
<1>3. CASE f # None /\ f.gen = gen /\ ~FrameIgnored(f) /\ FrameEnds(f) = "none" /\ Drive(f)
  <2>1. /\ f \in FrameSet /\ f.id \in Ids /\ f.speed \in Nat /\ f.seq \in 0 .. MaxSeq /\ f.deadman \in BOOLEAN
    BY <1>3, FrameIs DEF Frames
  <2>2. Accepted /\ f.id = session.id
    BY <1>3 DEF FrameIgnored
  <2>3. session.gen = gen /\ f.deadman /\ policy = session.policy /\ f.speed <= policy
    <3>1. ~(~SameContext \/ f.speed > HardMax \/ (~f.deadman /\ f.speed # 0))
      BY <1>3 DEF FrameEnds
    <3>2. ~(f.age > Timeout \/ session.age >= Timeout)
      BY <1>3, <3>1 DEF FrameEnds
    <3>3. f.deadman
      BY <1>3, <3>1, <3>2 DEF FrameEnds
    <3>4. ~(~PolicyHolds \/ f.speed > policy \/ ~Safe)
      BY <1>3, <3>1, <3>2, <3>3 DEF FrameEnds
    <3>5. policy \in Nat
      BY <3>4, Bounds DEF PolicyHolds, EnvTypes
    <3> QED BY <2>1, <3>1, <3>3, <3>4, <3>5 DEF SameContext, PolicyHolds
  <2> DEFINE from == [id |-> f.id, gen |-> f.gen]
  <2>4. from = [id |-> session.id, gen |-> session.gen]
    BY <1>3, <2>2, <2>3
  <2>5. CASE End("failed") \/ EndLeaving("failed", f.speed, from)
    <3>1. "failed" \in Outcomes \cup {"timeout"}
      BY DEF Outcomes
    <3> QED BY <2>1, <2>2, <2>4, <2>5, <3>1, EndIs, EndKeeps
  <2>6. CASE /\ session' = [session EXCEPT !.seq = f.seq, !.age = 0]
             /\ vel' = f.speed /\ evid' = TRUE /\ src' = from
             /\ UNCHANGED <<seen, replies>>
    <3>1. session \in SessionSet /\ session.acked /\ SessionTypes /\ Verdict
      BY <2>2, SessionIs DEF Accepted, SessionInv
    <3>2. /\ session' \in SessionSet /\ session'.id = session.id /\ session'.gen = session.gen
          /\ session'.acked = session.acked /\ session'.policy = session.policy
      <4>1. f.seq \in -1 .. MaxSeq
        BY <2>1, Bounds
      <4> QED BY <2>6, <3>1, <4>1, DrivenIs
    <3>3. /\ session'.id = session.id /\ session'.gen = session.gen /\ session'.acked = session.acked
          /\ session'.policy = session.policy
      BY <3>2
    <3>4. Active /\ Active'
      BY <2>2, <3>1, <3>2, SessionIs DEF Active, Accepted
    <3>5. SessionTypes'
      <4>1. evid' \in BOOLEAN
        BY <2>6
      <4>2. src' \in [id : Ids, gen : 0 .. MaxGen] \cup {None}
        BY <2>1, <2>6, FrameIs
      <4> QED BY <2>1, <2>6, <3>1, <3>2, <4>1, <4>2 DEF SessionTypes
    <3>6. Verdict' /\ SameAcks
      <4>1. /\ replies' = replies /\ seen' = seen /\ Accepted /\ Accepted' /\ ~Preparing /\ ~Preparing'
        BY <2>6, <3>1, <3>3, <3>4 DEF Accepted, Preparing
      <4>2. Verdict'
        BY <3>1, <3>3, <3>4, <4>1 DEF Verdict, VerdictOf
      <4>3. SameAcks
        BY <4>1 DEF SameAcks, Acks
      <4> QED BY <4>2, <4>3
    <3>7. Motion'
      <4>1. src' \in [id : Ids, gen : 0 .. MaxGen]
        BY <2>1, <2>6, FrameIs
      <4>2. src' = [id |-> session'.id, gen |-> session'.gen] /\ session'.acked /\ vel' <= session'.policy
        BY <2>3, <2>4, <2>6, <3>1, <3>3
      <4> QED BY <3>4, <4>1, <4>2 DEF Motion
    <3> QED BY <2>1, <2>2, <2>3, <2>6, <3>5, <3>6, <3>7 DEF SessionInv
  <2> QED BY <1>3, <2>5, <2>6 DEF Drive
<1> QED BY <1>1, <1>2, <1>3 DEF OnFrame

----------------------------------------------------------------------------
(* Every step keeps the invariant.                                         *)

slotVars == <<latest, release, rel, smp, wire, gen, pc>>

LEMMA Parts ==
  ASSUME IInv
  PROVE  /\ LinkTypes /\ SlotTypes /\ CommandTypes /\ EnvTypes /\ SessionTypes /\ DrainTypes
         /\ SessionInv /\ Verdict /\ Motion /\ Answered /\ Granted /\ DrainIsOwn /\ Slots /\ Newer
BY DEF IInv, Types, SessionInv

\* What a step that does not touch it leaves.
LEMMA SameSlots == Slots /\ UNCHANGED slotVars => Slots'
BY DEF Slots, Sent, slotVars

LEMMA SameNewer == Newer /\ UNCHANGED slotVars /\ session' = session => Newer'
BY DEF Newer, slotVars, Accepted, Active

LEMMA SameAnswered == Answered /\ SameAcks /\ UNCHANGED <<cur, taken>> => Answered'
BY DEF Answered, SameAcks, Held

LEMMA SessionAcks == ASSUME SessionInv PROVE \A i \in Ids : Acks(i) \in Int
<1>1. "failed" \in Outcomes /\ replies \in [Ids -> Messages]
  BY DEF Outcomes, SessionInv, SessionTypes
<1> QED BY <1>1, MessageIs DEF Acks

LEMMA SameDrain == DrainIsOwn /\ UNCHANGED <<drain, session>> => DrainIsOwn'
BY DEF DrainIsOwn, Preparing, Active

LEMMA SameGranted == Granted /\ granted' = granted /\ session' = session /\ claims \subseteq claims' => Granted'
BY DEF Granted, Active

\* With no session there is no input, no release and no drain to care for.
LEMMA NoSessionKeeps ==
  ASSUME ~Active'
  PROVE  DrainIsOwn' /\ Newer' /\ (Granted /\ claims \subseteq claims' /\ (granted' => granted) => Granted')
BY DEF DrainIsOwn, Newer, Granted, Preparing, Accepted

LEMMA SameTypes ==
  /\ LinkTypes /\ UNCHANGED wsVars => LinkTypes'
  /\ SlotTypes /\ UNCHANGED <<latest, release, rel, smp, invalidated>> => SlotTypes'
  /\ CommandTypes /\ UNCHANGED <<queue, wire, cmds, pc, cur>> => CommandTypes'
  /\ EnvTypes /\ UNCHANGED envVars => EnvTypes'
  /\ DrainTypes /\ UNCHANGED drain => DrainTypes'
BY DEF LinkTypes, SlotTypes, CommandTypes, EnvTypes, DrainTypes, wsVars, envVars

\* The connection: a frame of an earlier one stays of an earlier one.
LEMMA LinkKeeps == ASSUME IInv, Link PROVE IInv'
<1>1. /\ LinkTypes /\ SlotTypes /\ CommandTypes /\ EnvTypes /\ SessionTypes /\ DrainTypes
      /\ SessionInv /\ Answered /\ Granted /\ DrainIsOwn /\ Slots /\ Newer
  BY Parts
<1>2. /\ UNCHANGED <<queue, wire, cmds, cbVars, envVars, sessVars, drain>>
      /\ \/ UNCHANGED <<latest, release, invalidated>>
         \/ latest' = None /\ release' = None /\ invalidated' = TRUE /\ gen' = gen
  BY DEF Link, Dial, DialFails, HelloAcked, ClearConnected, BumpGeneration, TeleopDisconnected, inVars
<1>3. LinkTypes' /\ (gen' = gen \/ gen' = gen + 1)
  <2>1. gen \in Nat /\ MaxGen \in Nat /\ Stale \in Nat
    BY <1>1, Bounds DEF LinkTypes
  <2>2. CASE Dial
    BY <1>1, <2>1, <2>2 DEF Dial, LinkTypes
  <2>3. CASE BumpGeneration
    BY <1>1, <2>1, <2>3 DEF BumpGeneration, LinkTypes
  <2>4. CASE DialFails \/ HelloAcked \/ ClearConnected \/ TeleopDisconnected
    BY <1>1, <2>1, <2>4 DEF DialFails, HelloAcked, ClearConnected, TeleopDisconnected, LinkTypes
  <2> QED BY <2>2, <2>3, <2>4 DEF Link
<1>4. /\ UNCHANGED <<queue, wire, cmds, pc, cur, rel, smp, taken, claims, origin, policy, granted, session, drain>>
      /\ UNCHANGED sessVars /\ UNCHANGED envVars
  BY <1>2 DEF cbVars, envVars, sessVars
<1>5. SlotTypes'
  <2>1. CASE UNCHANGED <<latest, release, invalidated>>
    BY <1>1, <1>4, <2>1, SameTypes
  <2>2. CASE latest' = None /\ release' = None /\ invalidated' = TRUE
    <3>1. invalidated' \in BOOLEAN
      BY <2>2
    <3> QED BY <1>1, <1>4, <2>2, <3>1 DEF SlotTypes, Frames
  <2> QED BY <1>2, <2>1, <2>2
<1>6. \A f \in Frames : Sent(f) => (f # None => f.seq < wire'[f.id] /\ f.gen <= gen')
  <2> SUFFICES ASSUME NEW f \in Frames, Sent(f), f # None PROVE f.seq < wire'[f.id] /\ f.gen <= gen'
    OBVIOUS
  <2>1. f.gen \in 0 .. MaxGen
    BY FrameIs DEF Frames
  <2> QED BY <1>1, <1>3, <1>4, <2>1, Bounds DEF Sent, LinkTypes
<1>7. Slots'
  <2>1. latest' \in {latest, None} /\ release' \in {release, None} /\ rel' = rel /\ smp' = smp /\ pc' = pc
    BY <1>2, <1>4
  <2>2. /\ latest' # None => latest'.seq < wire'[latest'.id] /\ latest'.gen <= gen'
        /\ release' # None => release'.seq < wire'[release'.id] /\ release'.gen <= gen'
        /\ rel' # None => rel'.seq < wire'[rel'.id] /\ rel'.gen <= gen'
        /\ smp' # None => smp'.seq < wire'[smp'.id] /\ smp'.gen <= gen'
    BY <1>1, <1>6, <2>1 DEF Slots, SlotTypes
  <2>3. \A f \in {release', rel'} : f # None => ~f.deadman /\ f.speed = 0
    BY <1>1, <2>1 DEF Slots
  <2> QED BY <1>1, <2>1, <2>2, <2>3 DEF Slots, Sent
<1>8. Newer'
  <2>1. release' # None => release' = release
    BY <1>2
  <2>2. rel # None /\ rel.gen = gen' => gen' = gen
    <3>1. rel # None => rel.gen <= gen /\ rel.gen \in 0 .. MaxGen
      BY <1>1, FrameIs DEF Slots, Sent, SlotTypes, Frames
    <3> QED BY <1>1, <1>3, <3>1, Bounds DEF LinkTypes
  <2> QED BY <1>1, <1>4, <2>1, <2>2 DEF Newer, Accepted, Active
<1>9. CommandTypes' /\ EnvTypes' /\ DrainTypes'
  BY <1>1, <1>4, SameTypes
<1>10. SessionInv' /\ Answered' /\ DrainIsOwn'
  BY <1>1, <1>4, SameSession, SameAnswered, SameDrain
<1>11. Granted'
  BY <1>1, <1>4, SameGranted
<1> QED BY <1>3, <1>5, <1>7, <1>8, <1>9, <1>10, <1>11 DEF IInv, Types, SessionInv

\* A command arrives: the oldest may have to go.
LEMMA CommandKeeps ==
  ASSUME IInv, NEW c \in CommandSet, EnqueueCommand(c)
  PROVE  IInv'
<1>1. /\ LinkTypes /\ SlotTypes /\ CommandTypes /\ EnvTypes /\ SessionTypes /\ DrainTypes
      /\ SessionInv /\ Answered /\ Granted /\ DrainIsOwn /\ Slots /\ Newer
  BY Parts
<1>2. /\ cmds < MaxCmds /\ cmds' = cmds + 1
      /\ queue' = Append(IF Len(queue) = QueueCap THEN Tail(queue) ELSE queue, c)
      /\ wire' = IF c.cmd = "teleop_start" /\ wire[c.id] < 0 THEN [wire EXCEPT ![c.id] = 0] ELSE wire
      /\ UNCHANGED <<latest, release, invalidated, wsVars, cbVars, envVars, sessVars, drain>>
  BY DEF EnqueueCommand
<1>3. UNCHANGED <<gen, pc, cur, rel, smp, taken, claims, granted, session>>
  BY <1>2 DEF wsVars, cbVars, envVars, sessVars
<1>4. queue' \in Seq(CommandSet) /\ Len(queue') <= QueueCap
  <2>1. queue \in Seq(CommandSet) /\ Len(queue) <= QueueCap /\ QueueCap \in Nat \ {0} /\ Len(queue) \in Nat
    BY <1>1, Bounds DEF CommandTypes
  <2>2. CASE Len(queue) = QueueCap
    <3>1. queue # <<>>
      BY <2>1, <2>2
    <3>2. Tail(queue) \in Seq(CommandSet) /\ Len(Tail(queue)) = QueueCap - 1
      BY <2>1, <2>2, <3>1, TakeFirst
    <3>3. queue' = Append(Tail(queue), c)
      BY <1>2, <2>2
    <3>4. queue' \in Seq(CommandSet) /\ Len(queue') = QueueCap - 1 + 1
      BY <3>2, <3>3, AppendOne
    <3> QED BY <2>1, <3>4
  <2>3. CASE Len(queue) # QueueCap
    <3>1. queue' = Append(queue, c)
      BY <1>2, <2>3
    <3>2. queue' \in Seq(CommandSet) /\ Len(queue') = Len(queue) + 1
      BY <2>1, <3>1, AppendOne
    <3> QED BY <2>1, <2>3, <3>2
  <2> QED BY <2>2, <2>3
<1>5. wire' \in [Ids -> -1 .. MaxSeq + 1] /\ \A i \in Ids : wire[i] <= wire'[i] /\ wire[i] \in Int /\ wire'[i] \in Int
  <2>1. wire \in [Ids -> -1 .. MaxSeq + 1] /\ MaxSeq \in Nat
    BY <1>1, Bounds DEF CommandTypes
  <2>2. CASE wire' = wire
    BY <2>1, <2>2
  <2>3. CASE wire' # wire
    <3>1. c.id \in Ids /\ wire[c.id] < 0 /\ wire' = [wire EXCEPT ![c.id] = 0]
      BY <1>2, <2>3, CommandIs
    <3> QED BY <2>1, <3>1
  <2> QED BY <2>2, <2>3
<1>6. CommandTypes'
  <2>1. cmds \in 0 .. MaxCmds /\ MaxCmds \in Nat
    BY <1>1, Bounds DEF CommandTypes
  <2>2. cmds < MaxCmds /\ cmds' = cmds + 1
    BY <1>2
  <2>3. cmds' \in 0 .. MaxCmds
    BY <2>1, <2>2
  <2> QED BY <1>1, <1>3, <1>4, <1>5, <2>3 DEF CommandTypes
<1>7. \A f \in Frames : f # None => f.id \in Ids /\ f.seq \in Nat
  BY FrameIs, Bounds DEF Frames
<1>8. \A f \in Frames : Sent(f) => (f # None => f.seq < wire'[f.id] /\ f.gen <= gen')
  <2> SUFFICES ASSUME NEW f \in Frames, Sent(f), f # None PROVE f.seq < wire'[f.id] /\ f.gen <= gen'
    OBVIOUS
  <2>1. f.id \in Ids /\ f.seq \in Nat
    BY <1>7
  <2> QED BY <1>3, <1>5, <2>1 DEF Sent
<1>9. Slots'
  <2>1. Sent(latest)' /\ Sent(release)' /\ Sent(rel)' /\ Sent(smp)'
    BY <1>1, <1>2, <1>3, <1>8 DEF Slots, SlotTypes, Sent
  <2> QED BY <1>1, <1>2, <1>3, <2>1 DEF Slots
<1>10. Newer'
  <2>1. Active => session.id \in Ids /\ session.seq \in Int
    BY <1>1, SessionIs, Bounds
  <2>2. Active /\ session.seq >= 0 => session.seq < wire'[session.id]
    BY <1>1, <1>5, <2>1 DEF Newer
  <2> QED BY <1>1, <1>2, <1>3, <2>2 DEF Newer, Accepted, Active
<1>11. LinkTypes' /\ EnvTypes' /\ DrainTypes' /\ SlotTypes'
  BY <1>1, <1>2, <1>3, SameTypes
<1>12. SessionInv' /\ Answered' /\ DrainIsOwn'
  BY <1>1, <1>2, <1>3, SameSession, SameAnswered, SameDrain
<1>13. Granted'
  BY <1>1, <1>3, SameGranted
<1> QED BY <1>6, <1>9, <1>10, <1>11, <1>12, <1>13 DEF IInv, Types, SessionInv

\* A frame arrives: a release takes the sample's place, and is newer than any.
LEMMA TeleopKeeps ==
  ASSUME IInv, NEW f \in FrameSet, f.gen = gen, ~f.deadman => f.speed = 0, EnqueueTeleop(f)
  PROVE  IInv'
<1>1. /\ LinkTypes /\ SlotTypes /\ CommandTypes /\ EnvTypes /\ SessionTypes /\ DrainTypes
      /\ SessionInv /\ Answered /\ Granted /\ DrainIsOwn /\ Slots /\ Newer
  BY Parts
<1>2. /\ f.seq = wire[f.id] /\ f.seq \in 0 .. MaxSeq
      /\ wire' = [wire EXCEPT ![f.id] = f.seq + 1]
      /\ \/ ~f.deadman /\ release' = f /\ latest' = None
         \/ f.deadman /\ release' = release /\ latest' \in {latest, f}
            /\ (latest' # latest => ~(release # None /\ release.id = f.id))
      /\ UNCHANGED <<queue, invalidated, cmds, wsVars, cbVars, envVars, sessVars, drain>>
  BY DEF EnqueueTeleop
<1>3. UNCHANGED <<gen, pc, cur, rel, smp, taken, claims, granted, session>>
  BY <1>2 DEF wsVars, cbVars, envVars, sessVars
<1>4. f.id \in Ids /\ f # None /\ f.deadman \in BOOLEAN /\ f.seq \in Nat /\ MaxSeq \in Nat /\ f.gen <= gen
  BY <1>1, FrameIs, Bounds DEF LinkTypes
<1>5. /\ wire' \in [Ids -> -1 .. MaxSeq + 1] /\ wire \in [Ids -> -1 .. MaxSeq + 1]
      /\ \A i \in Ids : wire'[i] = IF i = f.id THEN f.seq + 1 ELSE wire[i]
  BY <1>1, <1>2, <1>4 DEF CommandTypes
<1>6. CommandTypes'
  BY <1>1, <1>2, <1>3, <1>5 DEF CommandTypes
<1>7. SlotTypes'
  <2>1. latest' \in Frames /\ release' \in Frames
    BY <1>1, <1>2 DEF SlotTypes, Frames
  <2> QED BY <1>1, <1>2, <1>3, <2>1 DEF SlotTypes
<1>8. ASSUME NEW g \in Frames, Sent(g), g # None
      PROVE  /\ g.id \in Ids /\ g.seq \in Nat /\ g.seq < wire[g.id] /\ g.seq < wire'[g.id] /\ g.gen <= gen'
             /\ (g.id = f.id => g.seq < f.seq)
  <2>1. g.id \in Ids /\ g.seq \in Nat /\ g.seq < wire[g.id] /\ g.gen <= gen
    BY <1>8, FrameIs, Bounds DEF Frames, Sent
  <2> QED BY <1>2, <1>3, <1>4, <1>5, <2>1
<1>9. f.seq < wire'[f.id] /\ f.gen <= gen'
  BY <1>3, <1>4, <1>5
<1>10. Slots'
  <2>1. latest' # None => latest'.seq < wire'[latest'.id] /\ latest'.gen <= gen'
    BY <1>1, <1>2, <1>8, <1>9 DEF Slots, SlotTypes
  <2>2. release' # None => release'.seq < wire'[release'.id] /\ release'.gen <= gen'
    BY <1>1, <1>2, <1>8, <1>9 DEF Slots, SlotTypes
  <2>3. /\ rel' # None => rel'.seq < wire'[rel'.id] /\ rel'.gen <= gen'
        /\ smp' # None => smp'.seq < wire'[smp'.id] /\ smp'.gen <= gen'
    BY <1>1, <1>3, <1>8 DEF Slots, SlotTypes
  <2>4. \A g \in {release', rel'} : g # None => ~g.deadman /\ g.speed = 0
    BY <1>1, <1>2, <1>3 DEF Slots
  <2>5. release' # None /\ latest' # None => release'.id # latest'.id
    BY <1>1, <1>2 DEF Slots
  <2>6. release' # None /\ smp' # None /\ smp'.id = release'.id => smp'.seq < release'.seq
    BY <1>1, <1>2, <1>3, <1>8 DEF Slots, SlotTypes
  <2> QED BY <1>1, <1>3, <2>1, <2>2, <2>3, <2>4, <2>5, <2>6 DEF Slots, Sent
<1>11. Newer'
  <2>1. Active => session.id \in Ids /\ session.seq \in -1 .. MaxSeq
    BY <1>1, SessionIs
  <2>2. Active /\ session.seq >= 0 => session.seq < wire'[session.id] /\ (session.id = f.id => session.seq < f.seq)
    BY <1>1, <1>2, <1>4, <1>5, <2>1 DEF Newer
  <2>3. Active /\ session.id = f.id => session.seq < f.seq
    BY <1>4, <2>1, <2>2
  <2>4. Active /\ release' # None /\ release'.id = session.id => session.seq < release'.seq
    BY <1>1, <1>2, <2>3 DEF Newer
  <2> QED BY <1>1, <1>3, <2>2, <2>4 DEF Newer, Accepted, Active
<1>12. LinkTypes' /\ EnvTypes' /\ DrainTypes'
  BY <1>1, <1>2, <1>3, SameTypes
<1>13. SessionInv' /\ Answered' /\ DrainIsOwn'
  BY <1>1, <1>2, <1>3, SameSession, SameAnswered, SameDrain
<1>14. Granted'
  BY <1>1, <1>3, SameGranted
<1> QED BY <1>6, <1>7, <1>10, <1>11, <1>12, <1>13, <1>14 DEF IInv, Types, SessionInv

\* The slots are taken, a release with no sample of its own session.
LEMMA DrainBeginKeeps == ASSUME IInv, DrainBegin PROVE IInv'
<1>1. /\ LinkTypes /\ SlotTypes /\ CommandTypes /\ EnvTypes /\ SessionTypes /\ DrainTypes
      /\ SessionInv /\ Answered /\ Granted /\ DrainIsOwn /\ Slots /\ Newer
  BY Parts
<1>2. /\ pc = "idle" /\ pc' = "commands"
      /\ rel' = release /\ smp' = latest /\ release' = None /\ latest' = None /\ invalidated' = FALSE
      /\ IF invalidated THEN End("failed") ELSE UNCHANGED sessVars
      /\ UNCHANGED <<queue, wire, cmds, cur, taken, wsVars, envVars, drain>>
  BY DEF DrainBegin
<1>3. UNCHANGED <<gen, claims, granted>>
  BY <1>2 DEF wsVars, envVars
<1>4. SessionInv' /\ Answered' /\ (session' = session \/ ~Active')
  <2>1. "failed" \in Outcomes \cup {"timeout"}
    BY DEF Outcomes
  <2> QED BY <1>1, <1>2, <2>1, SameSession, SameAnswered, EndIs DEF sessVars
<1>5. SlotTypes'
  <2>1. invalidated' \in BOOLEAN
    BY <1>2
  <2> QED BY <1>1, <1>2, <2>1 DEF SlotTypes, Frames
<1>6. CommandTypes'
  BY <1>1, <1>2 DEF CommandTypes
<1>7. Slots'
  BY <1>1, <1>2, <1>3 DEF Slots, Sent
<1>8. LinkTypes' /\ EnvTypes' /\ DrainTypes'
  BY <1>1, <1>2, SameTypes
<1>9. CASE ~Active'
  <2>1. DrainIsOwn' /\ Newer' /\ Granted'
    BY <1>1, <1>3, <1>9, NoSessionKeeps
  <2> QED BY <1>4, <1>5, <1>6, <1>7, <1>8, <2>1 DEF IInv, Types, SessionInv
<1>10. CASE session' = session
  <2>1. Newer'
    BY <1>1, <1>2, <1>3, <1>10 DEF Newer, Accepted, Active
  <2>2. DrainIsOwn'
    BY <1>1, <1>2, <1>10, SameDrain
  <2>3. Granted'
    BY <1>1, <1>3, <1>10, SameGranted
  <2> QED BY <1>4, <1>5, <1>6, <1>7, <1>8, <2>1, <2>2, <2>3 DEF IInv, Types, SessionInv
<1> QED BY <1>4, <1>9, <1>10

LEMMA DrainCommandKeeps == ASSUME IInv, DrainCommand PROVE IInv'
<1>1. /\ LinkTypes /\ SlotTypes /\ CommandTypes /\ EnvTypes /\ SessionTypes /\ DrainTypes
      /\ SessionInv /\ Answered /\ Granted /\ DrainIsOwn /\ Slots /\ Newer
  BY Parts
<1>2. /\ pc = "commands" /\ queue # <<>> /\ queue' = Tail(queue)
      /\ taken' = IF Head(queue).cmd = "teleop_start" THEN [taken EXCEPT ![Head(queue).id] = @ + 1] ELSE taken
      /\ \/ pc' = "handle" /\ cur' = Head(queue) /\ UNCHANGED sessVars
         \/ UNCHANGED <<pc, cur>> /\ Head(queue).cmd = "teleop_start" /\ SendRefusal(Head(queue))
         \/ UNCHANGED <<pc, cur>> /\ Head(queue).cmd # "teleop_start" /\ (UNCHANGED sessVars \/ End("canceled"))
      /\ UNCHANGED <<latest, release, invalidated, wire, cmds, rel, smp, wsVars, envVars, drain>>
  <2> DEFINE c == Head(queue)
             stale == c.gen # gen \/ ~Connected
  <2>1. /\ pc = "commands" /\ queue # <<>> /\ queue' = Tail(queue)
        /\ taken' = IF c.cmd = "teleop_start" THEN [taken EXCEPT ![c.id] = @ + 1] ELSE taken
        /\ IF c.cmd \in {"teleop_start", "teleop_stop"} /\ c.gen = gen /\ Connected
           THEN pc' = "handle" /\ cur' = c
           ELSE UNCHANGED <<pc, cur>>
        /\ CASE c.cmd = "teleop_start" /\ stale -> SendRefusal(c)
             [] c.cmd = "stop" /\ Active -> End("canceled")
             [] OTHER -> UNCHANGED sessVars
        /\ UNCHANGED <<latest, release, invalidated, wire, cmds, rel, smp, wsVars, envVars, drain>>
    BY DEF DrainCommand
  <2>2. CASE c.cmd = "teleop_start" /\ stale
    <3>1. SendRefusal(c) /\ UNCHANGED <<pc, cur>>
      BY <2>1, <2>2
    <3> QED BY <2>1, <2>2, <3>1
  <2>3. CASE c.cmd = "teleop_start" /\ ~stale
    <3>1. UNCHANGED sessVars /\ pc' = "handle" /\ cur' = c
      BY <2>1, <2>3
    <3> QED BY <2>1, <3>1
  <2>4. CASE c.cmd = "teleop_stop"
    <3>1. UNCHANGED sessVars
      BY <2>1, <2>4
    <3> QED BY <2>1, <2>4, <3>1
  <2>5. CASE c.cmd \notin {"teleop_start", "teleop_stop"}
    <3>1. UNCHANGED <<pc, cur>> /\ c.cmd # "teleop_start"
      BY <2>1, <2>5
    <3>2. UNCHANGED sessVars \/ End("canceled")
      BY <2>1, <2>5
    <3> QED BY <2>1, <3>1, <3>2
  <2> QED BY <2>2, <2>3, <2>4, <2>5
<1>3. UNCHANGED <<gen, claims, granted>>
  BY <1>2 DEF wsVars, envVars
<1>4. SessionInv' /\ (session' = session \/ ~Active')
  <2>1. "canceled" \in Outcomes \cup {"timeout"}
    BY DEF Outcomes
  <2>2. Head(queue).cmd = "teleop_start" => Head(queue).id \in Ids
    BY <1>1, <1>2, TakeFirst, CommandIs DEF CommandTypes
  <2> QED BY <1>1, <1>2, <2>1, <2>2, SameSession, RefusalKeeps, EndIs DEF sessVars
<1>5. CommandTypes'
  <2>1. queue' \in Seq(CommandSet) /\ Head(queue) \in CommandSet /\ Len(queue') <= QueueCap
    <3>1. queue \in Seq(CommandSet) /\ Len(queue) <= QueueCap /\ QueueCap \in Nat
      BY <1>1, Bounds DEF CommandTypes
    <3>2. Tail(queue) \in Seq(CommandSet) /\ Head(queue) \in CommandSet /\ Len(Tail(queue)) = Len(queue) - 1 /\ Len(queue) \in Nat
      BY <1>2, <3>1, TakeFirst
    <3> QED BY <1>2, <3>1, <3>2
  <2>2. CASE pc' = "handle" /\ cur' = Head(queue)
    <3>1. cur' # None
      BY <2>1, <2>2, CommandIs
    <3> QED BY <1>1, <1>2, <2>1, <2>2, <3>1 DEF CommandTypes
  <2>3. CASE UNCHANGED <<pc, cur>>
    BY <1>1, <1>2, <2>1, <2>3 DEF CommandTypes
  <2> QED BY <1>2, <2>2, <2>3
<1>6. Slots'
  <2>1. pc' # "idle"
    BY <1>2
  <2> QED BY <1>1, <1>2, <1>3, <2>1 DEF Slots, Sent
<1>7. LinkTypes' /\ EnvTypes' /\ DrainTypes' /\ SlotTypes'
  BY <1>1, <1>2, SameTypes
<1>8. Answered'
  <2> DEFINE c == Head(queue)
  <2>1. /\ taken \in [Ids -> Nat] /\ c \in CommandSet /\ c # None /\ cur = None
        /\ c.cmd = "teleop_start" => c.id \in Ids
    BY <1>1, <1>2, TakeFirst, CommandIs DEF CommandTypes, Answered
  <2> HIDE DEF c
  <2>2. taken' = IF c.cmd = "teleop_start" THEN [taken EXCEPT ![c.id] = @ + 1] ELSE taken
    BY <1>2 DEF c
  <2>3. /\ taken' \in [Ids -> Nat]
        /\ \A i \in Ids : taken'[i] = taken[i] + (IF c.cmd = "teleop_start" /\ c.id = i THEN 1 ELSE 0)
    BY <2>1, <2>2
  <2>4. \A i \in Ids : Held(i) = 0 /\ Acks(i) + Held(i) = taken[i]
    BY <1>1, <2>1 DEF Answered, Held
  <2>5. \A i \in Ids : Acks(i) \in Int /\ taken[i] \in Int
    BY <1>1, <2>1, SessionAcks
  <2>6. CASE cur' = c /\ UNCHANGED sessVars
    <3>1. SameAcks
      BY <1>1, <2>6, SameSession
    <3>2. \A i \in Ids : Held(i)' = (IF c.cmd = "teleop_start" /\ c.id = i THEN 1 ELSE 0)
      BY <2>1, <2>6 DEF Held
    <3>3. \A i \in Ids : Acks(i)' + Held(i)' = taken'[i]
      BY <2>1, <2>3, <2>4, <2>5, <3>1, <3>2 DEF SameAcks
    <3> QED BY <2>3, <3>3 DEF Answered
  <2>7. CASE UNCHANGED <<pc, cur>> /\ c.cmd = "teleop_start" /\ SendRefusal(c)
    <3>1. \A i \in Ids : Acks(i)' = Acks(i) + (IF i = c.id THEN 1 ELSE 0)
      BY <1>1, <2>1, <2>7, RefusalKeeps
    <3>2. \A i \in Ids : Held(i)' = 0
      BY <2>1, <2>7 DEF Held
    <3>3. \A i \in Ids : Acks(i)' + Held(i)' = taken'[i]
      BY <2>1, <2>3, <2>4, <2>7, <2>5, <3>1, <3>2
    <3> QED BY <2>3, <3>3 DEF Answered
  <2>8. CASE UNCHANGED <<pc, cur>> /\ c.cmd # "teleop_start" /\ (UNCHANGED sessVars \/ End("canceled"))
    <3>1. SameAcks
      <4>1. "canceled" \in Outcomes \cup {"timeout"}
        BY DEF Outcomes
      <4> QED BY <1>1, <2>8, <4>1, SameSession, EndIs
    <3>2. taken' = taken /\ cur' = cur
      BY <2>2, <2>8
    <3> QED BY <1>1, <3>1, <3>2, SameAnswered
  <2> QED BY <1>2, <2>6, <2>7, <2>8 DEF c
<1>9. CASE ~Active'
  <2>1. DrainIsOwn' /\ Newer' /\ Granted'
    BY <1>1, <1>3, <1>9, NoSessionKeeps
  <2> QED BY <1>4, <1>5, <1>6, <1>7, <1>8, <2>1 DEF IInv, Types, SessionInv
<1>10. CASE session' = session
  <2>1. Newer'
    BY <1>1, <1>2, <1>3, <1>10 DEF Newer, Accepted, Active
  <2>2. DrainIsOwn'
    BY <1>1, <1>2, <1>10, SameDrain
  <2>3. Granted'
    BY <1>1, <1>3, <1>10, SameGranted
  <2> QED BY <1>4, <1>5, <1>6, <1>7, <1>8, <2>1, <2>2, <2>3 DEF IInv, Types, SessionInv
<1> QED BY <1>4, <1>9, <1>10

\* A session starts with nothing held against it, seen or promised.
LEMMA HandleKeeps == ASSUME IInv, Handle PROVE IInv'
<1>1. /\ LinkTypes /\ SlotTypes /\ CommandTypes /\ EnvTypes /\ SessionTypes /\ DrainTypes
      /\ SessionInv /\ Answered /\ Granted /\ DrainIsOwn /\ Slots /\ Newer
  BY Parts
<1>2. /\ pc = "handle" /\ pc' = "commands" /\ cur' = None
      /\ \/ /\ cur.cmd = "teleop_start"
            /\ drain' = IF Active THEN drain ELSE [t \in Topics |-> Still]
            /\ \/ SendRefusal(cur)
               \/ ~StartRefused(cur) /\ Start(cur)
         \/ cur.cmd = "teleop_stop" /\ End("canceled") /\ UNCHANGED drain
      /\ UNCHANGED <<rel, smp, taken, inVars, wsVars, envVars>>
  BY DEF Handle
<1>3. UNCHANGED <<latest, release, invalidated, queue, wire, cmds, gen, claims, granted>>
  BY <1>2 DEF wsVars, envVars, inVars
<1>4. CommandTypes' /\ LinkTypes' /\ EnvTypes' /\ SlotTypes'
  <2>1. CommandTypes'
    BY <1>1, <1>2, <1>3 DEF CommandTypes
  <2> QED BY <1>1, <1>2, <1>3, <2>1, SameTypes
<1>5. DrainTypes'
  <2>1. Still \in Drains1
    BY Bounds DEF Still, Drains1
  <2> QED BY <1>1, <1>2, <2>1 DEF DrainTypes
<1>6. Slots'
  BY <1>1, <1>2, <1>3 DEF Slots, Sent
<1>7. cur # None /\ (cur.cmd = "teleop_start" => cur.id \in Ids)
  BY <1>1, <1>2, CommandIs DEF CommandTypes
<1>8. ASSUME cur.cmd = "teleop_start", \A i \in Ids : Acks(i)' = Acks(i) + (IF i = cur.id THEN 1 ELSE 0)
       PROVE  Answered'
  <2>1. \A i \in Ids : Held(i)' = 0 /\ Held(i) = (IF i = cur.id THEN 1 ELSE 0)
    BY <1>2, <1>7, <1>8 DEF Held
  <2>2. \A i \in Ids : Acks(i) \in Int
    BY <1>1, SessionAcks
  <2> QED BY <1>1, <1>2, <1>8, <2>1, <2>2 DEF Answered
<1>9. CASE cur.cmd = "teleop_start" /\ SendRefusal(cur) /\ drain' = IF Active THEN drain ELSE [t \in Topics |-> Still]
  <2>1. /\ session' = session /\ SessionInv'
        /\ \A i \in Ids : Acks(i)' = Acks(i) + (IF i = cur.id THEN 1 ELSE 0)
    BY <1>1, <1>9, <1>7, RefusalKeeps
  <2>5. Answered'
    BY <1>9, <1>7, <2>1, <1>8
  <2>2. Newer'
    BY <1>1, <1>2, <1>3, <2>1 DEF Newer, Accepted, Active
  <2>3. DrainIsOwn'
    BY <1>1, <1>9, <2>1 DEF DrainIsOwn, Preparing, Active
  <2>4. Granted'
    BY <1>1, <1>3, <2>1, SameGranted
  <2> QED BY <1>4, <1>5, <1>6, <2>1, <2>2, <2>3, <2>4, <2>5 DEF IInv, Types, SessionInv
<1>10. CASE cur.cmd = "teleop_start" /\ ~StartRefused(cur) /\ Start(cur) /\ drain' = IF Active THEN drain ELSE [t \in Topics |-> Still]
  <2>1. cur.id \in Ids
    BY <1>10, <1>7
  <2>2. /\ SessionInv' /\ ~Active
        /\ \A i \in Ids : Acks(i)' = Acks(i) + (IF i = cur.id THEN 1 ELSE 0)
        /\ \/ session' = NoSession
           \/ session' \in SessionSet /\ session'.id = cur.id /\ session'.seq = -1 /\ session'.acked = FALSE
              /\ session'.prep = 0
    BY <1>1, <1>10, <2>1, StartKeeps
  <2>3. ~granted
    BY <1>1, <1>10 DEF Granted, StartRefused, Safe
  <2>4. Granted'
    BY <1>3, <2>3 DEF Granted
  <2>5. DrainIsOwn'
    <3>1. drain' = [t \in Topics |-> Still]
      BY <1>10, <2>2
    <3>2. CASE session' = NoSession
      BY <3>2 DEF DrainIsOwn, Preparing, Active
    <3>3. CASE session' # NoSession
      BY <2>2, <3>1, <3>3 DEF DrainIsOwn, Still
    <3> QED BY <3>2, <3>3
  <2>6. Newer'
    <3>1. CASE session' = NoSession
      BY <3>1 DEF Newer, Active, Accepted
    <3>2. CASE session' # NoSession
      <4>1. \A f \in Frames : f # None => f.seq \in Nat
        BY FrameIs, Bounds DEF Frames
      <4>2. release' # None => -1 < release'.seq
        BY <1>1, <1>3, <4>1 DEF SlotTypes
      <4>3. rel' # None => -1 < rel'.seq
        BY <1>1, <1>2, <4>1 DEF SlotTypes
      <4> QED BY <1>2, <2>2, <3>2, <4>2, <4>3 DEF Newer
    <3> QED BY <3>1, <3>2
  <2>7. Answered'
    BY <1>10, <1>7, <2>2, <1>8
  <2> QED BY <1>4, <1>5, <1>6, <2>2, <2>4, <2>5, <2>6, <2>7 DEF IInv, Types, SessionInv
<1>11. CASE cur.cmd = "teleop_stop" /\ End("canceled") /\ UNCHANGED drain
  <2>1. "canceled" \in Outcomes \cup {"timeout"}
    BY DEF Outcomes
  <2>2. SessionInv' /\ SameAcks /\ ~Active'
    BY <1>1, <1>11, <2>1, EndIs
  <2>4. Answered'
    BY <1>1, <1>2, <1>11, <2>2 DEF Answered, SameAcks, Held
  <2>3. DrainIsOwn' /\ Newer' /\ Granted'
    BY <1>1, <1>3, <2>2, NoSessionKeeps
  <2> QED BY <1>4, <1>5, <1>6, <2>2, <2>3, <2>4 DEF IInv, Types, SessionInv
<1> QED BY <1>2, <1>9, <1>10, <1>11

\* A release is not a sample: it ends its session or is not for it.
LEMMA ReleaseEnds ==
  ASSUME SessionInv, LinkTypes, EnvTypes, NEW f \in Frames, OnFrame(f), f # None, ~f.deadman,
         f.id = session.id /\ Active => session.seq < f.seq
  PROVE  /\ session' = session \/ session' = NoSession
         /\ f.gen = gen /\ session' = session => ~(Accepted /\ session.id = f.id)
<1>1. SessionInv' /\ (UNCHANGED sessVars \/ session' = NoSession)
  BY FrameKeeps
<1>2. session' = session \/ session' = NoSession
  BY <1>1 DEF sessVars
<1>3. ASSUME f.gen = gen, session' = session, Accepted, session.id = f.id PROVE FALSE
  <2>1. f.seq \in Int /\ session.seq \in Int /\ session # NoSession
    BY <1>3, FrameIs, SessionIs, Bounds DEF Frames, SessionInv, Accepted, Active
  <2>2. CASE FrameIgnored(f)
    BY <1>3, <2>1, <2>2 DEF FrameIgnored, Accepted
  <2>3. CASE ~FrameIgnored(f) /\ FrameEnds(f) # "none"
    BY <1>3, <2>1, <2>3 DEF OnFrame, End, EndLeaving
  <2>4. CASE FrameEnds(f) = "none"
    BY <2>4 DEF FrameEnds
  <2> QED BY <2>2, <2>3, <2>4
<1> QED BY <1>2, <1>3

LEMMA DrainReleaseKeeps == ASSUME IInv, DrainRelease PROVE IInv'
<1>1. /\ LinkTypes /\ SlotTypes /\ CommandTypes /\ EnvTypes /\ SessionTypes /\ DrainTypes
      /\ SessionInv /\ Answered /\ Granted /\ DrainIsOwn /\ Slots /\ Newer
  BY Parts
<1>2. /\ pc = "commands" /\ pc' = "sample" /\ OnFrame(rel) /\ rel \in Frames
      /\ UNCHANGED <<cur, rel, smp, taken, inVars, wsVars, envVars, drain>>
  BY <1>1 DEF DrainRelease, SlotTypes
<1>3. UNCHANGED <<latest, release, invalidated, queue, wire, cmds, gen, claims, granted>>
  BY <1>2 DEF wsVars, envVars, inVars
<1>4. CommandTypes' /\ LinkTypes' /\ EnvTypes' /\ SlotTypes' /\ DrainTypes'
  <2>1. CommandTypes'
    BY <1>1, <1>2, <1>3 DEF CommandTypes
  <2> QED BY <1>1, <1>2, <1>3, <2>1, SameTypes
<1>5. Slots'
  BY <1>1, <1>2, <1>3 DEF Slots, Sent
<1>6. /\ SessionInv' /\ Answered' /\ (session' = session \/ session' = NoSession)
      /\ rel # None /\ rel.gen = gen /\ session' = session => ~(Accepted /\ session.id = rel.id)
  <2>1. CASE rel = None
    BY <1>1, <1>2, <2>1, SameSession, SameAnswered DEF OnFrame, sessVars
  <2>2. CASE rel # None
    <3>1. ~rel.deadman /\ (rel.id = session.id /\ Active => session.seq < rel.seq)
      BY <1>1, <1>2, <2>2 DEF Slots, Newer
    <3>2. SessionInv' /\ Answered'
      BY <1>1, <1>2, FrameKeeps, SameAnswered
    <3> QED BY <1>1, <1>2, <2>2, <3>1, <3>2, ReleaseEnds
  <2> QED BY <2>1, <2>2
<1>7. CASE session' = NoSession
  <2>1. ~Active'
    BY <1>7 DEF Active
  <2>2. DrainIsOwn' /\ Newer' /\ Granted'
    BY <1>1, <1>3, <2>1, NoSessionKeeps
  <2> QED BY <1>4, <1>5, <1>6, <2>2 DEF IInv, Types, SessionInv
<1>8. CASE session' = session
  <2>1. Newer'
    BY <1>1, <1>2, <1>3, <1>6, <1>8 DEF Newer, Accepted, Active
  <2>2. DrainIsOwn'
    BY <1>1, <1>2, <1>8, SameDrain
  <2>3. Granted'
    BY <1>1, <1>3, <1>8, SameGranted
  <2> QED BY <1>4, <1>5, <1>6, <2>1, <2>2, <2>3 DEF IInv, Types, SessionInv
<1> QED BY <1>6, <1>7, <1>8

\* A sample drives the session it is for, and is older than its release.
LEMMA DrainSampleKeeps == ASSUME IInv, DrainSample PROVE IInv'
<1>1. /\ LinkTypes /\ SlotTypes /\ CommandTypes /\ EnvTypes /\ SessionTypes /\ DrainTypes
      /\ SessionInv /\ Answered /\ Granted /\ DrainIsOwn /\ Slots /\ Newer
  BY Parts
<1>2. /\ pc = "sample" /\ pc' = "idle" /\ OnFrame(smp) /\ rel' = None /\ smp' = None /\ smp \in Frames
      /\ UNCHANGED <<cur, taken, inVars, wsVars, envVars, drain>>
  BY <1>1 DEF DrainSample, SlotTypes
<1>3. UNCHANGED <<latest, release, invalidated, queue, wire, cmds, gen, claims, granted>>
  BY <1>2 DEF wsVars, envVars, inVars
<1>4. CommandTypes' /\ LinkTypes' /\ EnvTypes' /\ SlotTypes' /\ DrainTypes'
  <2>1. CommandTypes'
    BY <1>1, <1>2, <1>3 DEF CommandTypes
  <2>2. SlotTypes'
    BY <1>1, <1>2, <1>3 DEF SlotTypes, Frames
  <2> QED BY <1>1, <1>2, <1>3, <2>1, <2>2, SameTypes
<1>5. Slots'
  BY <1>1, <1>2, <1>3 DEF Slots, Sent
<1>6. /\ SessionInv' /\ Answered'
      /\ \/ session' = session
         \/ session' = NoSession
         \/ /\ smp \in FrameSet /\ Accepted /\ smp.id = session.id
            /\ session' = [session EXCEPT !.seq = smp.seq, !.age = 0]
  BY <1>1, <1>2, FrameKeeps, SameAnswered DEF sessVars
<1>7. CASE session' = NoSession
  <2>1. ~Active'
    BY <1>7 DEF Active
  <2>2. DrainIsOwn' /\ Newer' /\ Granted'
    BY <1>1, <1>3, <2>1, NoSessionKeeps
  <2> QED BY <1>4, <1>5, <1>6, <2>2 DEF IInv, Types, SessionInv
<1>8. CASE session' = session
  <2>1. Newer'
    BY <1>1, <1>2, <1>3, <1>8 DEF Newer, Accepted, Active
  <2>2. DrainIsOwn'
    BY <1>1, <1>2, <1>8, SameDrain
  <2>3. Granted'
    BY <1>1, <1>3, <1>8, SameGranted
  <2> QED BY <1>4, <1>5, <1>6, <2>1, <2>2, <2>3 DEF IInv, Types, SessionInv
<1>9. CASE smp \in FrameSet /\ Accepted /\ smp.id = session.id /\ session' = [session EXCEPT !.seq = smp.seq, !.age = 0]
  <2>1. session \in SessionSet /\ session.acked
    BY <1>1, <1>9, SessionIs DEF Accepted
  <2>2. smp.seq \in -1 .. MaxSeq /\ smp # None
    BY <1>9, FrameIs, Bounds
  <2>3. session'.id = session.id /\ session'.acked = session.acked /\ session'.seq = smp.seq
    BY <1>9, <2>1, <2>2, DrivenIs
  <2>4. Newer'
    BY <1>1, <1>2, <1>3, <1>9, <2>2, <2>3 DEF Newer, Slots, Sent
  <2>5. DrainIsOwn'
    BY <2>1, <2>3 DEF DrainIsOwn, Preparing
  <2>6. Granted'
    BY <1>1, <1>3, <1>9 DEF Granted, Accepted
  <2> QED BY <1>4, <1>5, <1>6, <2>4, <2>5, <2>6 DEF IInv, Types, SessionInv
<1> QED BY <1>6, <1>7, <1>8, <1>9

\* A session that is accepted, or grows older, is the same session.
LEMMA AcceptedIs ==
  ASSUME NEW x \in SessionSet
  PROVE  LET y == [x EXCEPT !.acked = TRUE, !.age = 0] IN
         /\ y \in SessionSet /\ y.id = x.id /\ y.gen = x.gen /\ y.policy = x.policy /\ y.seq = x.seq
         /\ y.acked = TRUE
<1>1. 0 \in 0 .. Timeout
  BY Bounds
<1> QED BY <1>1 DEF SessionSet

LEMMA OlderSession ==
  ASSUME NEW x \in SessionSet, NEW a \in 0 .. Timeout, NEW p \in 0 .. PrepTimeout
  PROVE  /\ LET y == [x EXCEPT !.age = a] IN
            /\ y \in SessionSet /\ y.id = x.id /\ y.gen = x.gen /\ y.policy = x.policy /\ y.seq = x.seq
            /\ y.acked = x.acked
         /\ LET y == [x EXCEPT !.prep = p] IN
            /\ y \in SessionSet /\ y.id = x.id /\ y.gen = x.gen /\ y.policy = x.policy /\ y.seq = x.seq
            /\ y.acked = x.acked /\ y.prep = p
BY DEF SessionSet

\* Zero is published, and nothing more is said of it.
LEMMA StillSession ==
  ASSUME SessionInv, UNCHANGED <<session, seen, src, replies>>, vel' \in {0, vel}, evid' = FALSE, vel' = 0 \/ ~Active
  PROVE  SessionInv' /\ SameAcks
<1>1. SessionTypes /\ Verdict /\ Motion
  BY DEF SessionInv
<1>2. SessionTypes'
  <2>1. evid' \in BOOLEAN /\ vel' \in Nat
    <3>1. evid' \in BOOLEAN
      OBVIOUS
    <3> QED BY <1>1, <3>1 DEF SessionTypes
  <2> QED BY <1>1, <2>1 DEF SessionTypes
<1>3. Verdict'
  BY <1>1 DEF Verdict, VerdictOf, Active, Accepted, Preparing
<1>4. Motion'
  <2> SUFFICES ASSUME vel' > 0 \/ evid' PROVE Motion'
    BY DEF Motion
  <2>1. vel' = vel /\ vel > 0 /\ ~Active
    <3>1. vel' > 0
      OBVIOUS
    <3> QED BY <3>1
  <2> QED BY <1>1, <2>1 DEF Motion, Active
<1>5. SameAcks
  BY DEF SameAcks, Acks, Preparing, Active
<1> QED BY <1>2, <1>3, <1>4, <1>5 DEF SessionInv

LEMMA ConfirmKeeps ==
  ASSUME SessionInv, Preparing, confirm_start, vel' = 0, evid' = FALSE, UNCHANGED <<seen, src>>
  PROVE  SessionInv' /\ SameAcks /\ Active' /\ session'.acked /\ session'.id = session.id /\ session'.seq = session.seq
<1>1. SessionTypes /\ Verdict /\ session \in SessionSet /\ session.id \in Ids /\ ~session.acked /\ Active
  BY SessionIs DEF SessionInv, Preparing
<1>2. /\ session' = [session EXCEPT !.acked = TRUE, !.age = 0]
      /\ replies' = [replies EXCEPT ![session.id] = Accept(@)]
  BY DEF confirm_start
<1>3. /\ session' \in SessionSet /\ session'.id = session.id /\ session'.acked = TRUE /\ session'.seq = session.seq
      /\ Active'
  BY <1>1, <1>2, AcceptedIs, SessionIs DEF Active
<1> DEFINE m == replies[session.id]
           w == Accept(m)
<1>4. /\ replies \in [Ids -> Messages] /\ m \in Messages /\ VerdictOf(session.id) /\ session.id \in seen
      /\ ~Accepted /\ Accepted' /\ ~Preparing'
  BY <1>1, <1>3 DEF SessionTypes, Verdict, Accepted, Preparing
<1>5. /\ m.accepted \in Nat /\ m.refused \in Nat /\ Len(m.results) \in Nat
      /\ w \in Messages /\ w.accepted = m.accepted + 1 /\ w.refused = m.refused /\ w.results = m.results
      /\ m.accepted = 0 /\ Len(m.results) = 0
  <2>1. "failed" \in Outcomes
    BY DEF Outcomes
  <2> QED BY <1>4, <2>1, MessageIs DEF VerdictOf
<1>6. /\ replies' \in [Ids -> Messages] /\ replies'[session.id] = w
      /\ \A i \in Ids : i # session.id => replies'[i] = replies[i]
  <2>1. replies' = [replies EXCEPT ![session.id] = w]
    BY <1>2
  <2> HIDE DEF w
  <2> QED BY <1>1, <1>4, <1>5, <2>1
<1> HIDE DEF w
<1>7. SessionTypes'
  <2>1. evid' \in BOOLEAN
    OBVIOUS
  <2> QED BY <1>1, <1>3, <1>6, <2>1 DEF SessionTypes
<1>8. Verdict'
  <2>1. ASSUME NEW i \in Ids PROVE VerdictOf(i)'
    <3>1. VerdictOf(i)
      BY <1>1 DEF Verdict
    <3>2. CASE i = session.id
      BY <1>3, <1>4, <1>5, <1>6, <3>2 DEF VerdictOf
    <3>3. CASE i # session.id
      BY <1>1, <1>3, <1>4, <1>6, <3>1, <3>3 DEF VerdictOf
    <3> QED BY <3>2, <3>3
  <2> QED BY <1>1, <1>2, <1>3, <2>1 DEF Verdict
<1>9. Motion'
  BY DEF Motion
<1>10. ASSUME NEW i \in Ids PROVE Acks(i)' = Acks(i)
  <2>1. CASE i = session.id
    BY <1>1, <1>3, <1>4, <1>5, <1>6, <2>1 DEF Acks
  <2>2. CASE i # session.id
    BY <1>3, <1>4, <1>6, <2>2 DEF Acks
  <2> QED BY <2>1, <2>2
<1> QED BY <1>3, <1>7, <1>8, <1>9, <1>10 DEF SessionInv, SameAcks

LEMMA TickKeeps == ASSUME IInv, Tick PROVE IInv'
<1>1. /\ LinkTypes /\ SlotTypes /\ CommandTypes /\ EnvTypes /\ SessionTypes /\ DrainTypes
      /\ SessionInv /\ Answered /\ Granted /\ DrainIsOwn /\ Slots /\ Newer
  BY Parts
<1>2. UNCHANGED <<inVars, cbVars, wsVars, envVars, drain>> /\ pc = "idle"
  BY DEF Tick
<1>3. UNCHANGED <<latest, release, invalidated, queue, wire, cmds, pc, cur, rel, smp, taken, gen, claims, granted>>
  BY <1>2 DEF wsVars, envVars, inVars, cbVars
<1>4. CommandTypes' /\ LinkTypes' /\ EnvTypes' /\ SlotTypes' /\ DrainTypes'
  BY <1>1, <1>2, <1>3, SameTypes
<1>5. Slots'
  BY <1>1, <1>2, <1>3 DEF Slots, Sent
<1>6. CASE session' = session /\ SessionInv' /\ Answered'
  <2>1. Newer'
    BY <1>1, <1>3, <1>6 DEF Newer, Accepted, Active
  <2>2. DrainIsOwn'
    BY <1>1, <1>2, <1>6, SameDrain
  <2>3. Granted'
    BY <1>1, <1>3, <1>6, SameGranted
  <2> QED BY <1>4, <1>5, <1>6, <2>1, <2>2, <2>3 DEF IInv, Types, SessionInv
<1>7. CASE ~Active /\ evid' = FALSE /\ UNCHANGED <<session, seen, vel, src, replies>>
  <2>1. SessionInv' /\ Answered'
    BY <1>1, <1>3, <1>7, StillSession, SameAnswered
  <2> QED BY <1>6, <1>7, <2>1
<1>8. CASE Active /\ TickEnds # "none" /\ End(TickEnds)
  <2>1. TickEnds \in Outcomes \cup {"timeout"}
    BY <1>8 DEF TickEnds, Outcomes
  <2>2. SessionInv' /\ Answered' /\ ~Active'
    BY <1>1, <1>3, <1>8, <2>1, EndIs, SameAnswered
  <2>3. DrainIsOwn' /\ Newer' /\ Granted'
    BY <1>1, <1>3, <2>2, NoSessionKeeps
  <2> QED BY <1>4, <1>5, <2>2, <2>3 DEF IInv, Types, SessionInv
<1>9. CASE UNCHANGED sessVars
  <2>1. SessionInv' /\ Answered' /\ session' = session
    BY <1>1, <1>3, <1>9, SameSession, SameAnswered DEF sessVars
  <2> QED BY <1>6, <2>1
<1>10. CASE /\ Preparing /\ vel' = 0 /\ evid' = FALSE /\ UNCHANGED <<seen, src>>
            /\ UNCHANGED <<session, replies>>
  <2>1. SessionInv' /\ Answered'
    BY <1>1, <1>3, <1>10, StillSession, SameAnswered
  <2> QED BY <1>6, <1>10, <2>1
<1>11. CASE /\ Preparing /\ vel' = 0 /\ evid' = FALSE /\ UNCHANGED <<seen, src>> /\ confirm_start
  <2>1. SessionInv' /\ Answered' /\ Active' /\ session'.acked /\ session'.id = session.id /\ session'.seq = session.seq
    BY <1>1, <1>3, <1>11, ConfirmKeeps, SameAnswered
  <2>2. Newer'
    BY <1>1, <1>2, <1>3, <1>11, <2>1 DEF Newer, Preparing
  <2>3. DrainIsOwn'
    BY <2>1 DEF DrainIsOwn, Preparing
  <2>4. Granted'
    BY <1>1, <1>3, <1>11 DEF Granted, Preparing
  <2> QED BY <1>4, <1>5, <2>1, <2>2, <2>3, <2>4 DEF IInv, Types, SessionInv
<1> QED BY <1>7, <1>8, <1>9, <1>10, <1>11 DEF Tick, Preparing

\* The robot: what takes motion away ends the session, and only a claim of
\* maintenance is told that there is none.
LEMMA RobotKeeps == ASSUME IInv, Robot PROVE IInv'
<1>1. /\ LinkTypes /\ SlotTypes /\ CommandTypes /\ EnvTypes /\ SessionTypes /\ DrainTypes
      /\ SessionInv /\ Answered /\ Granted /\ DrainIsOwn /\ Slots /\ Newer
  BY Parts
<1>2. UNCHANGED <<inVars, cbVars, wsVars>>
  BY DEF Robot, Claim, Unclaim, TuningIdle, OnBuffer, OnBaseState, PolicyChanges
<1>3. UNCHANGED <<latest, release, invalidated, queue, wire, cmds, pc, cur, rel, smp, taken, gen>>
  BY <1>2 DEF wsVars, inVars, cbVars
<1>4. CommandTypes' /\ LinkTypes' /\ SlotTypes'
  BY <1>1, <1>2, <1>3, SameTypes
<1>5. Slots'
  BY <1>1, <1>2, <1>3 DEF Slots, Sent
<1>6. EnvTypes'
  <2>1. CASE \E c \in Claims : Claim(c)
    BY <1>1, <2>1 DEF Claim, EnvTypes
  <2>2. CASE \E c \in Claims : Unclaim(c)
    <3>1. granted' \in BOOLEAN
      BY <1>1, <2>2 DEF Unclaim, EnvTypes
    <3> QED BY <1>1, <2>2, <3>1 DEF Unclaim, EnvTypes
  <2>3. CASE TuningIdle
    <3>1. granted' \in BOOLEAN
      BY <2>3 DEF TuningIdle
    <3> QED BY <1>1, <2>3, <3>1 DEF TuningIdle, EnvTypes
  <2>4. CASE \E t \in Topics : \E m \in {"zero", "moving", "invalid"} : OnBuffer(t, m)
    BY <1>1, <2>4 DEF OnBuffer, EnvTypes, envVars
  <2>5. CASE \E o \in Origins : OnBaseState(o)
    BY <1>1, <2>5 DEF OnBaseState, EnvTypes
  <2>6. CASE \E p \in Policies \cup {NoPolicy} : PolicyChanges(p)
    BY <1>1, <2>6 DEF PolicyChanges, EnvTypes
  <2> QED BY <2>1, <2>2, <2>3, <2>4, <2>5, <2>6 DEF Robot
<1>7. SessionInv' /\ Answered' /\ (session' = session \/ ~Active')
  <2>1. UNCHANGED sessVars \/ (\E o \in Outcomes : End(o))
    BY DEF Robot, Claim, Unclaim, TuningIdle, OnBuffer, OnBaseState, PolicyChanges, Outcomes
  <2> QED BY <1>1, <1>3, <2>1, SameSession, SameAnswered, EndIs DEF sessVars
<1>8. Newer'
  <2>1. session' = session => Newer'
    BY <1>1, <1>3 DEF Newer, Accepted, Active
  <2> QED BY <1>7, <2>1, NoSessionKeeps
<1>9. DrainTypes' /\ DrainIsOwn'
  <2>1. CASE UNCHANGED drain
    BY <1>1, <1>7, <2>1, SameDrain, SameTypes, NoSessionKeeps
  <2>2. CASE \E t \in Topics : \E m \in {"zero", "moving", "invalid"} : OnBuffer(t, m) /\ drain' # drain
    <3>1. PICK t \in Topics : session' = session /\ Active /\
            \/ drain' = [drain EXCEPT ![t] = [since |-> IF @.since < 0 THEN 0 ELSE @.since, last |-> 0]]
            \/ drain' = [drain EXCEPT ![t] = Still]
      BY <2>2 DEF OnBuffer, sessVars
    <3> DEFINE new == IF drain' = [drain EXCEPT ![t] = Still] THEN Still
                      ELSE [since |-> IF drain[t].since < 0 THEN 0 ELSE drain[t].since, last |-> 0]
    <3>2. drain' = [drain EXCEPT ![t] = new]
      BY <3>1
    <3>3. drain[t] \in Drains1 /\ drain[t].since \in -1 .. DrainTime
      BY <1>1 DEF DrainTypes, Drains1
    <3>4. new \in Drains1 /\ (new.since = -1 \/ new.since = 0 \/ new.since = drain[t].since)
      <4>1. Still \in Drains1 /\ Still.since = -1
        BY Bounds DEF Still, Drains1
      <4>2. [since |-> IF drain[t].since < 0 THEN 0 ELSE drain[t].since, last |-> 0] \in Drains1
        BY <3>3, Bounds DEF Drains1
      <4> QED BY <4>1, <4>2
    <3> HIDE DEF new
    <3>5. /\ drain' \in [Topics -> Drains1]
          /\ \A u \in Topics : drain'[u] = IF u = t THEN new ELSE drain[u]
      BY <1>1, <3>2, <3>4 DEF DrainTypes
    <3>6. session.prep \in 0 .. PrepTimeout
      BY <1>1, <3>1, SessionIs
    <3>7. ASSUME Preparing, NEW u \in Topics PROVE drain'[u].since <= session.prep
      <4>1. drain[u].since <= session.prep /\ drain[t].since <= session.prep
        BY <1>1, <3>7 DEF DrainIsOwn
      <4>2. -1 <= session.prep /\ 0 <= session.prep
        BY <3>6, Bounds
      <4> QED BY <3>4, <3>5, <4>1, <4>2
    <3> QED BY <3>1, <3>5, <3>7 DEF DrainTypes, DrainIsOwn, Preparing, Active
  <2> QED BY <2>1, <2>2 DEF Robot, Claim, Unclaim, TuningIdle, OnBuffer, OnBaseState, PolicyChanges
<1>10. Granted'
  <2>1. CASE \E c \in Claims : Unclaim(c)
    <3>1. PICK c \in Claims : Unclaim(c)
      BY <2>1
    <3>2. granted' => granted /\ c # "maintenance" /\ claims' = claims \ {c} /\ session' = session
      BY <3>1 DEF Unclaim, sessVars
    <3> QED BY <1>1, <3>2 DEF Granted, Active
  <2>2. CASE TuningIdle
    BY <2>2 DEF TuningIdle, Granted, sessVars, Active
  <2>3. CASE granted' = granted /\ claims \subseteq claims'
    BY <1>1, <1>7, <2>3, SameGranted, NoSessionKeeps
  <2> QED BY <2>1, <2>2, <2>3 DEF Robot, Claim, OnBuffer, OnBaseState, PolicyChanges, envVars
<1> QED BY <1>4, <1>5, <1>6, <1>7, <1>8, <1>9, <1>10 DEF IInv, Types, SessionInv

\* Time: the frames stay what they are, and so does the session.
LEMMA AdvanceKeeps == ASSUME IInv, Advance PROVE IInv'
<1>1. /\ LinkTypes /\ SlotTypes /\ CommandTypes /\ EnvTypes /\ SessionTypes /\ DrainTypes
      /\ SessionInv /\ Answered /\ Granted /\ DrainIsOwn /\ Slots /\ Newer
  BY Parts
<1>2. /\ downAge' = Older(downAge, Stale)
      /\ queue' = [k \in DOMAIN queue |-> Aged(queue[k])]
      /\ latest' = Aged(latest) /\ release' = Aged(release)
      /\ cur' = Aged(cur) /\ rel' = Aged(rel) /\ smp' = Aged(smp)
      /\ session' = IF Accepted THEN [session EXCEPT !.age = Older(session.age, Timeout)]
                    ELSE IF Preparing THEN [session EXCEPT !.prep = Older(session.prep, PrepTimeout)]
                    ELSE session
      /\ drain' = [t \in Topics |->
                 IF ~Preparing \/ drain[t].since < 0 THEN drain[t]
                 ELSE [since |-> Older(drain[t].since, DrainTime),
                       last  |-> Older(drain[t].last, DrainTime + 1)]]
      /\ UNCHANGED <<link, gen, invalidated, wire, cmds, pc, taken, claims, origin, policy, granted,
                     seen, vel, evid, src, replies>>
  BY DEF Advance, envVars
<1>3. LinkTypes' /\ EnvTypes'
  <2>1. downAge' \in 0 .. Stale
    BY <1>1, <1>2, OlderIs, Bounds DEF LinkTypes
  <2> QED BY <1>1, <1>2, <2>1 DEF LinkTypes, EnvTypes
<1>4. CommandTypes'
  <2>1. queue \in Seq(CommandSet) /\ Len(queue) \in Nat /\ DOMAIN queue = 1 .. Len(queue)
        /\ \A k \in 1 .. Len(queue) : queue[k] \in CommandSet
    BY <1>1 DEF CommandTypes
  <2>2. \A k \in 1 .. Len(queue) : Aged(queue[k]) \in CommandSet
    BY <2>1, CommandIs
  <2>3. queue' \in [1 .. Len(queue) -> CommandSet]
    BY <1>2, <2>1, <2>2
  <2>4. queue' \in Seq(CommandSet) /\ Len(queue') = Len(queue)
    BY <2>1, <2>3
  <2>5. cur' \in CommandSet \cup {None} /\ (cur' = None <=> cur = None)
    <3>1. CASE cur = None
      <4>1. Aged(None) = None
        BY AgedIs DEF Frames
      <4> QED BY <1>2, <3>1, <4>1
    <3>2. CASE cur # None
      BY <1>1, <1>2, <3>2, CommandIs DEF CommandTypes
    <3> QED BY <3>1, <3>2
  <2> QED BY <1>1, <1>2, <2>4, <2>5 DEF CommandTypes
<1>5. ASSUME NEW f \in {latest, release, rel, smp}
      PROVE  /\ Aged(f) \in Frames /\ (Aged(f) = None <=> f = None)
             /\ f # None => /\ Aged(f).id = f.id /\ Aged(f).seq = f.seq /\ Aged(f).gen = f.gen
                            /\ Aged(f).deadman = f.deadman /\ Aged(f).speed = f.speed
  BY <1>1, AgedIs DEF SlotTypes
<1>6. SlotTypes'
  BY <1>1, <1>2, <1>5 DEF SlotTypes
<1>7. Slots'
  <2>1. Sent(latest)' /\ Sent(release)' /\ Sent(rel)' /\ Sent(smp)'
    BY <1>1, <1>2, <1>5 DEF Slots, Sent
  <2>2. \A f \in {release', rel'} : f # None => ~f.deadman /\ f.speed = 0
    BY <1>1, <1>2, <1>5 DEF Slots
  <2> QED BY <1>1, <1>2, <1>5, <2>1, <2>2 DEF Slots
<1>8. /\ session' \in SessionSet \cup {NoSession} /\ (Active' <=> Active)
      /\ Active => /\ session'.id = session.id /\ session'.acked = session.acked /\ session'.gen = session.gen
                   /\ session'.policy = session.policy /\ session'.seq = session.seq
      /\ Preparing => session'.prep = Older(session.prep, PrepTimeout)
  <2>1. CASE Active
    <3>1. session \in SessionSet /\ session.age \in 0 .. Timeout /\ session.prep \in 0 .. PrepTimeout
      BY <1>1, <2>1, SessionIs
    <3>2. Older(session.age, Timeout) \in 0 .. Timeout /\ Older(session.prep, PrepTimeout) \in 0 .. PrepTimeout
      BY <3>1, OlderIs, Bounds
    <3>3. CASE session.acked
      <4>1. session' = [session EXCEPT !.age = Older(session.age, Timeout)] /\ ~Preparing
        BY <1>2, <2>1, <3>3 DEF Accepted, Preparing
      <4>2. /\ session' \in SessionSet /\ session'.id = session.id /\ session'.acked = session.acked
            /\ session'.gen = session.gen /\ session'.policy = session.policy /\ session'.seq = session.seq
        BY <3>1, <3>2, <4>1, OlderSession
      <4>3. Active'
        BY <1>1, <4>2, SessionIs DEF Active
      <4> QED BY <2>1, <4>1, <4>2, <4>3
    <3>4. CASE ~session.acked
      <4>1. session' = [session EXCEPT !.prep = Older(session.prep, PrepTimeout)]
        BY <1>2, <2>1, <3>4 DEF Accepted, Preparing
      <4>2. /\ session' \in SessionSet /\ session'.id = session.id /\ session'.acked = session.acked
            /\ session'.gen = session.gen /\ session'.policy = session.policy /\ session'.seq = session.seq
            /\ session'.prep = Older(session.prep, PrepTimeout)
        BY <3>1, <3>2, <4>1, OlderSession
      <4>3. Active'
        BY <1>1, <4>2, SessionIs DEF Active
      <4> QED BY <2>1, <4>2, <4>3
    <3> QED BY <3>3, <3>4
  <2>2. CASE ~Active
    BY <1>1, <1>2, <2>2 DEF Accepted, Preparing, Active
  <2> QED BY <2>1, <2>2
<1>9. SessionInv'
  <2>1. SessionTypes'
    BY <1>1, <1>2, <1>8 DEF SessionTypes
  <2>2. Verdict'
    <3>1. ASSUME NEW i \in Ids PROVE VerdictOf(i)'
      <4>1. VerdictOf(i)
        BY <1>1 DEF SessionInv, Verdict
      <4>2. replies' = replies /\ seen' = seen
        BY <1>2
      <4> QED BY <1>8, <4>1, <4>2 DEF VerdictOf, Accepted, Preparing
    <3> QED BY <1>1, <1>2, <1>8, <3>1 DEF SessionInv, Verdict
  <2>3. Motion'
    BY <1>1, <1>2, <1>8 DEF SessionInv, Motion
  <2> QED BY <2>1, <2>2, <2>3 DEF SessionInv
<1>10. Newer'
  BY <1>1, <1>2, <1>5, <1>8 DEF Newer, Accepted
<1>11. Granted'
  BY <1>1, <1>2, <1>8 DEF Granted
<1>12. DrainTypes' /\ DrainIsOwn'
  <2>1. ASSUME NEW t \in Topics
        PROVE  drain'[t] \in Drains1 /\ (Preparing => drain'[t].since <= Older(session.prep, PrepTimeout))
    <3>1. drain[t] \in Drains1 /\ drain[t].since \in -1 .. DrainTime /\ drain[t].last \in 0 .. DrainTime + 1
      BY <1>1 DEF DrainTypes, Drains1
    <3>2. Preparing => session.prep \in 0 .. PrepTimeout /\ drain[t].since <= session.prep
      BY <1>1, SessionIs DEF DrainIsOwn, Preparing
    <3>3. CASE ~Preparing \/ drain[t].since < 0
      <4>1. drain'[t] = drain[t]
        BY <1>2, <3>3
      <4>2. Preparing => 0 <= Older(session.prep, PrepTimeout) /\ Older(session.prep, PrepTimeout) \in Int
        BY <3>2, OlderIs, Bounds
      <4> QED BY <3>1, <3>3, <4>1, <4>2
    <3>4. CASE Preparing /\ ~(drain[t].since < 0)
      <4>1. drain'[t] = [since |-> Older(drain[t].since, DrainTime), last |-> Older(drain[t].last, DrainTime + 1)]
        BY <1>2, <3>4
      <4>2. Older(drain[t].since, DrainTime) \in 0 .. DrainTime /\ Older(drain[t].last, DrainTime + 1) \in 0 .. DrainTime + 1
        BY <3>1, <3>4, OlderIs, Bounds
      <4>3. Older(drain[t].since, DrainTime) <= Older(session.prep, PrepTimeout)
        BY <3>1, <3>2, <3>4, Bounds DEF Older
      <4> QED BY <4>1, <4>2, <4>3, Bounds DEF Drains1
    <3> QED BY <3>3, <3>4
  <2>2. drain' = [t \in Topics |-> drain'[t]]
    BY <1>2
  <2>3. DrainTypes'
    BY <2>1, <2>2 DEF DrainTypes
  <2>4. Preparing' => Preparing
    BY <1>8 DEF Preparing
  <2> QED BY <1>8, <2>1, <2>3, <2>4 DEF DrainIsOwn
<1>13. Answered'
  <2>1. \A i \in Ids : Acks(i)' = Acks(i)
    BY <1>2, <1>8 DEF Acks, Preparing
  <2>2. \A i \in Ids : Held(i)' = Held(i)
    <3>1. CASE cur = None
      <4>1. cur' = None
        BY <1>2, <3>1, AgedIs DEF Frames
      <4> QED BY <3>1, <4>1 DEF Held
    <3>2. CASE cur # None
      <4>1. cur \in CommandSet
        BY <1>1, <3>2 DEF CommandTypes
      <4>2. cur' # None /\ cur'.cmd = cur.cmd /\ (cur.cmd = "teleop_start" => cur'.id = cur.id)
        BY <1>2, <4>1, CommandIs
      <4> QED BY <3>2, <4>2 DEF Held
    <3> QED BY <3>1, <3>2
  <2> QED BY <1>1, <1>2, <2>1, <2>2 DEF Answered
<1> QED BY <1>3, <1>4, <1>6, <1>7, <1>9, <1>10, <1>11, <1>12, <1>13 DEF IInv, Types, SessionInv

----------------------------------------------------------------------------
LEMMA InitHolds == Init => IInv
<1> SUFFICES ASSUME Init PROVE IInv
  OBVIOUS
<1>1. ~Active /\ session = NoSession
  BY DEF Init, Active
<1>2. LinkTypes /\ EnvTypes
  <2>1. granted \in BOOLEAN
    BY DEF Init
  <2>2. LinkTypes
    BY Bounds DEF Init, LinkTypes
  <2> QED BY <2>1, <2>2 DEF Init, EnvTypes
<1>3. SlotTypes
  BY DEF Init, SlotTypes, Frames
<1>4. CommandTypes
  <2>1. queue \in Seq(CommandSet) /\ Len(queue) <= QueueCap
    BY Bounds DEF Init
  <2> QED BY <2>1, Bounds DEF Init, CommandTypes
<1>5. DrainTypes
  <2>1. Still \in Drains1
    BY Bounds DEF Still, Drains1
  <2> QED BY <2>1 DEF Init, DrainTypes
<1>6. SessionTypes
  <2>1. NoReplies \in Messages
    BY DEF NoReplies, Messages
  <2>2. replies \in [Ids -> Messages]
    BY <2>1 DEF Init
  <2> QED BY <2>2 DEF Init, SessionTypes
<1>7. Verdict /\ Answered /\ Motion /\ Granted
  <2>1. ~Accepted /\ ~Preparing /\ Len(NoReplies.results) = 0 /\ NoReplies.accepted = 0 /\ NoReplies.refused = 0
    BY <1>1 DEF Accepted, Preparing, NoReplies
  <2>2. \A i \in Ids : replies[i] = NoReplies /\ taken[i] = 0 /\ taken \in [Ids -> Nat] /\ cur = None
    BY DEF Init
  <2>3. Verdict
    BY <1>1, <2>1, <2>2 DEF Verdict, VerdictOf
  <2>4. Answered
    BY <2>1, <2>2 DEF Answered, Acks, Held, Init
  <2> QED BY <1>1, <2>3, <2>4 DEF Init, Motion, Granted
<1>8. DrainIsOwn /\ Newer
  BY <1>1 DEF DrainIsOwn, Newer, Preparing, Accepted, Init
<1>9. Slots
  BY DEF Init, Slots, Sent
<1> QED BY <1>2, <1>3, <1>4, <1>5, <1>6, <1>7, <1>8, <1>9 DEF IInv, Types

LEMMA StepKeeps == IInv /\ [Next]_vars => IInv'
<1> SUFFICES ASSUME IInv, [Next]_vars PROVE IInv'
  OBVIOUS
<1>1. CASE Link
  BY <1>1, LinkKeeps
<1>2. CASE Inbound
  <2>1. gen \in 0 .. MaxGen /\ 0 \in 0 .. Stale
    BY Parts, Bounds DEF LinkTypes
  <2>2. \A i \in Ids : StartCommand(i) \in CommandSet
    BY <2>1 DEF StartCommand, CommandSet
  <2>3. StopCommand \in CommandSet /\ PlainStop \in CommandSet
    BY <2>1 DEF StopCommand, CommandSet
  <2>4. ASSUME NEW i \in Ids, NEW v \in Speeds \cup {0}, NEW d \in BOOLEAN, ~d => v = 0, EnqueueTeleop(Frame(i, wire[i], d, v))
        PROVE  IInv'
    <3> DEFINE f == Frame(i, wire[i], d, v)
    <3>1. f.seq \in 0 .. MaxSeq
      BY <2>4 DEF EnqueueTeleop
    <3>2. f.seq = wire[i]
      BY DEF Frame
    <3>3. f \in FrameSet /\ f.gen = gen /\ f.deadman = d /\ f.speed = v
      BY <2>1, <3>1, <3>2 DEF Frame, FrameSet
    <3> HIDE DEF f
    <3>4. EnqueueTeleop(f)
      BY <2>4 DEF f
    <3> QED BY <2>4, <3>3, <3>4, TeleopKeeps
  <2> QED BY <1>2, <2>2, <2>3, <2>4, CommandKeeps DEF Inbound
<1>3. CASE Drains
  BY <1>3, DrainBeginKeeps, DrainCommandKeeps, HandleKeeps, DrainReleaseKeeps, DrainSampleKeeps DEF Drains
<1>4. CASE Tick
  BY <1>4, TickKeeps
<1>5. CASE Robot
  BY <1>5, RobotKeeps
<1>6. CASE Advance
  BY <1>6, AdvanceKeeps
<1>7. CASE UNCHANGED vars
  <2>1. UNCHANGED <<wsVars, inVars, cbVars, envVars, sessVars, drain>>
    BY <1>7 DEF vars
  <2>2. UNCHANGED <<latest, release, invalidated, queue, wire, cmds, pc, cur, rel, smp, taken, gen, claims, granted, session>>
    BY <2>1 DEF wsVars, inVars, cbVars, envVars, sessVars
  <2>3. LinkTypes' /\ SlotTypes' /\ CommandTypes' /\ EnvTypes' /\ DrainTypes'
    BY <2>1, <2>2, Parts, SameTypes
  <2>4. SessionInv' /\ Answered' /\ DrainIsOwn' /\ Granted'
    BY <2>1, <2>2, Parts, SameSession, SameAnswered, SameDrain, SameGranted
  <2>5. Slots'
    BY <2>2, Parts DEF Slots, Sent
  <2>6. Newer'
    BY <2>2, Parts DEF Newer, Accepted, Active
  <2> QED BY <2>3, <2>4, <2>5, <2>6 DEF IInv, Types, SessionInv
<1> QED BY <1>1, <1>2, <1>3, <1>4, <1>5, <1>6, <1>7 DEF Next

LEMMA Invariant == Spec => []IInv
BY InitHolds, StepKeeps, PTL DEF Spec

----------------------------------------------------------------------------
\* Every variable keeps to its values, with queues, ages, generations and
\* sequence numbers within their bounds, whatever the bounds are.
THEOREM TypeCorrect == Spec => []TypeOK
<1>1. IInv => TypeOK
  BY DEF IInv, Types, LinkTypes, SlotTypes, CommandTypes, EnvTypes, SessionTypes, DrainTypes,
         Answered, TypeOK, Frames, Messages, Drains1
<1> QED BY <1>1, Invariant, PTL

\* Motion and the evidence of manual control are always the accepted session's,
\* by a frame of its own connection and within its own policy; or a zero could
\* not be published and the session was reported failed (TeleopSession.frame).
THEOREM MotionOwned == Spec => []MotionIsOwned
<1>1. IInv => MotionIsOwned
  BY DEF IInv, Motion, MotionIsOwned
<1> QED BY <1>1, Invariant, PTL

\* The dashboard, the maintenance service and the drain are told of the session
\* there is: every start taken is answered by one ack, of which at most one per
\* id says yes and has one result after it; the promise of idleness and the
\* stillness that was observed are the open session's (TeleopSession.start,
\* confirm_start, end, _tuning_idle, RosTeleop.handle).
THEOREM SessionKnown == Spec => []SessionIsKnown
<1>1. ASSUME IInv PROVE SessionIsKnown
  <2>1. ASSUME NEW i \in Ids
        PROVE  /\ replies[i].accepted + replies[i].refused + Due(i) = taken[i]
               /\ replies[i].accepted <= (IF i \in seen THEN 1 ELSE 0)
               /\ Len(replies[i].results) = replies[i].accepted - (IF Accepted /\ session.id = i THEN 1 ELSE 0)
    <3>1. VerdictOf(i) /\ Acks(i) + Held(i) = taken[i]
      BY <1>1 DEF IInv, Verdict, Answered
    <3>2. replies[i].accepted \in Nat /\ replies[i].refused \in Nat
      BY <1>1 DEF IInv, Types, SessionTypes, Messages
    <3> QED BY <3>1, <3>2 DEF VerdictOf, Acks, Held, Due
  <2> QED BY <1>1, <2>1 DEF IInv, Granted, SessionIsKnown, VerdictMatchesSession, MaintenanceExclusive
<1> QED BY <1>1, Invariant, PTL

\* A release that a drain took closes the session it is for, whatever stale
\* frames, lost connections and slots surround it (TeleopSession.frame).
THEOREM ReleaseReachesSession == Spec => ReleaseHonoured
<1>1. ASSUME IInv, [Next]_vars
      PROVE  [/\ pc = "sample" /\ pc' = "idle"
              /\ rel # None /\ rel.gen = gen
              => ~(session'.id = rel.id /\ session'.acked)]_vars
  <2> SUFFICES ASSUME pc = "sample", pc' = "idle", rel # None, rel.gen = gen
               PROVE  ~(session'.id = rel.id /\ session'.acked)
    OBVIOUS
  <2>1. DrainSample
    <3>1. UNCHANGED pc \/ Drains
      BY <1>1 DEF Next, vars, cbVars, Link, Dial, DialFails, HelloAcked, ClearConnected, BumpGeneration, TeleopDisconnected,
             Inbound, EnqueueCommand, EnqueueTeleop, Tick, Advance, Robot, Claim, Unclaim, TuningIdle, OnBuffer,
             OnBaseState, PolicyChanges
    <3> QED BY <3>1 DEF Drains, DrainBegin, DrainCommand, Handle, DrainRelease
  <2>2. /\ SessionInv /\ LinkTypes /\ EnvTypes /\ Newer /\ smp \in Frames /\ OnFrame(smp) /\ rel.id \in Ids
    BY <1>1, <2>1, Parts, FrameIs DEF DrainSample, SlotTypes, Frames
  <2>3. ~(Accepted /\ session.id = rel.id)
    BY <2>2 DEF Newer
  <2>4. \/ session' = session
        \/ session' = NoSession
        \/ Accepted /\ smp \in FrameSet /\ session' = [session EXCEPT !.seq = smp.seq, !.age = 0]
    BY <2>2, FrameKeeps DEF sessVars
  <2>5. CASE session' = NoSession
    BY <2>2, <2>5, Bounds DEF NoSession
  <2>6. CASE session' = session /\ session # NoSession
    BY <2>3, <2>6 DEF Accepted, Active
  <2>7. CASE Accepted /\ smp \in FrameSet /\ session' = [session EXCEPT !.seq = smp.seq, !.age = 0]
    <3>1. session \in SessionSet /\ smp.seq \in -1 .. MaxSeq
      BY <2>2, <2>7, SessionIs, FrameIs, Bounds DEF Accepted, SessionInv
    <3>2. session'.id = session.id
      BY <2>7, <3>1, DrivenIs
    <3> QED BY <2>3, <2>7, <3>2
  <2> QED BY <2>4, <2>5, <2>6, <2>7
<1> QED BY <1>1, Invariant, PTL DEF Spec, ReleaseHonoured

=============================================================================
