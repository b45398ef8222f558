------------------------- MODULE ServerManualProofs -------------------------
(***************************************************************************)
(* Proofs about manual drive on the dashboard server, for any number of    *)
(* browsers, starts, stops, policies and events: the robot has one session *)
(* at most, nothing drives it after a zero frame, and a session that was   *)
(* closed was told to halt and can still be freed.                         *)
(*                                                                         *)
(* revoke waits twice in the task that called it, so most of the invariant *)
(* is about what a waiting task may still do to an owner that is no longer *)
(* the one it knew.                                                        *)
(***************************************************************************)
EXTENDS ServerManual, SequenceTheorems, FiniteSetTheorems, TLAPS

----------------------------------------------------------------------------
(* One task.                                                               *)

StopId == Command \ Start

Frames == [at : {"t_lookup", "uncertain", "connect", "disconnect", "hello", "r_lookup"},
           id : Command \cup {None}]

Whats == BOOLEAN \cup Nat \cup Command \cup {None}

Tasks == [at : At, own : Start \cup {None}, issue : BOOLEAN, id : Command \cup {None}, session : Nat,
          what : Whats, locked : BOOLEAN, stack : Seq(Frames)]

Calls == {"t_lookup", "uncertain"}

\* What returns to a frame: calls may return to calls, and the rest is last.
StackFits(r, depth) ==
  /\ r.stack \in Seq(Frames) /\ Len(r.stack) <= depth
  /\ \A n \in 1 .. Len(r.stack) :
       /\ r.stack[n].at = "t_lookup" => r.stack[n].id \in StopId
       /\ r.stack[n].at = "uncertain" => r.stack[n].id \in Command
       /\ r.stack[n].at = "r_lookup" => r.locked
       /\ n < Len(r.stack) => r.stack[n].at \in Calls

Zeroing == {"zero_q", "zero"}
Driving == {"vel_q", "vel"}
Starting == {"waiting", "s_lookup", "s_audit", "s_send"}
Stopping == {"t_lookup", "t_audit", "t_send"}

Depth(r) ==
  IF r.at \in Zeroing THEN (IF r.issue THEN 1 ELSE 2)
  ELSE IF r.at \in Stopping \cup {"uncertain", "changed"} THEN 1 ELSE 0

TaskFits(t, r) ==
  /\ r \in Tasks /\ StackFits(r, Depth(r))
  /\ r.own # None <=> r.at \in Zeroing \cup Driving
  /\ r.at \in Driving => t \in Client /\ r.what \in Nat
  /\ r.at \in Starting => r.id \in Start /\ From[r.id] = t
  /\ r.at \in Stopping => r.id \in StopId
  /\ r.at = "uncertain" => r.id \in Command
  /\ r.at \in {"s_lookup", "s_audit", "s_send", "r_lookup", "r_audit"} => r.locked
  /\ r.locked => t \in Client

TaskTypes == task \in [Task -> Tasks] /\ \A t \in Task : TaskFits(t, task[t])

\* The handler is a software reset, wherever its revocation waits.
Resets(r) ==
  \/ r.at \in {"r_lookup", "r_audit"}
  \/ \E n \in 1 .. Len(r.stack) : r.stack[n].at = "r_lookup"

----------------------------------------------------------------------------
(* The inductive invariant.                                                *)

Policies == {Legacy, Refused} \cup
            {[mode |-> "tuning_policy_v1", cap |-> p.cap, generation |-> p.generation] : p \in RawPolicy}

Owner == [client : Client \cup {None}, conn : Nat, base : Nat, phase : Phase, seq : Nat, quiet : BOOLEAN,
          send_lock : Task \cup {None}, start_terminal : BOOLEAN, stop_ids : SUBSET StopId,
          stop_issued : BOOLEAN, policy : Policies]

Applied == [kind : {"none", "drive", "zero"}, seq : Nat, speed : Nat]

OwnerTypes == owner \in [Start -> Owner] /\ owners \in Start \cup {None}

OtherTypes ==
  /\ rev_ok \subseteq Client /\ used \subseteq Command
  /\ holder \in Client \cup {None} /\ connected \subseteq Client /\ departed \subseteq Client
  /\ conn \in Nat /\ up \in BOOLEAN /\ base \in Base /\ raw \in RawPolicy
  /\ active \subseteq Command /\ entry \in [Command -> [acked : BOOLEAN, uncertain : BOOLEAN, conn : Nat]]
  /\ budget \in [Event -> Nat]
  /\ robot \in [Command -> {"none", "sent", "accepted", "ended", "superseded"}]
  /\ applied \in [Start -> Applied]

OneLock == \A c, d \in Client : task[c].locked /\ task[d].locked => c = d

\* An open session is the owner's, and not one a reset is about to drop.
OpenIsOwned ==
  \A s \in Start : owner[s].phase \in Open =>
    /\ owners = s /\ ~owner[s].start_terminal
    /\ \A c \in Client : ~Resets(task[c])

\* A start nobody handled yet has left no trace.
Untouched ==
  \A s \in Start :
    /\ (s \notin used \/ \E t \in Task : task[t].at \in {"waiting", "s_lookup"} /\ task[t].id = s) =>
         applied[s].kind = "none" /\ owners # s /\ \A t \in Task : task[t].own # s
    /\ (s \notin used \/ \E t \in Task : task[t].at \in {"waiting", "s_lookup", "s_audit"} /\ task[t].id = s) =>
         s \notin active /\ robot[s] = "none"
    /\ s \notin used => \A t \in Task : task[t].at \in Starting => task[t].id # s

\* A start that is out at the robot is the owner's.
AtRobot ==
  \A s \in Start : robot[s] \in {"sent", "accepted"} => owners = s /\ ~owner[s].start_terminal

\* A velocity frame is written by its owner's client; a zero frame after the
\* session was closed.
Writers ==
  \A t \in Task :
    /\ task[t].at \in Driving => owner[task[t].own].client = t
    /\ task[t].at \in Zeroing => owner[task[t].own].phase \notin Open

\* A session that is open after a zero frame is about to be closed by the
\* client whose release that was.
Halted ==
  \A s \in Start : applied[s].kind = "zero" /\ owner[s].phase \in Open =>
    \E c \in Client : owner[s].client = c /\ task[c].at = "vel" /\ task[c].own = s /\ task[c].what = 0

\* The commands that are active are the owner's: its stops, and its start until
\* that is terminal.
Counted ==
  owners # None =>
    LET o == owner[owners] IN
    /\ o.stop_ids = active \ {owners} /\ (o.stop_ids # {} => o.stop_issued)
    /\ o.start_terminal => owners \notin active /\ o.stop_ids # {}
    /\ ~o.start_terminal => owners \in active \/ \E c \in Client : task[c].at = "s_audit" /\ task[c].id = owners

\* ClosedIsTold, while somebody still works on it.
Told ==
  owners # None =>
    LET o == owner[owners] IN
    /\ applied[owners].kind = "drive" => applied[owners].seq <= o.seq
    /\ \A t \in Task : task[t].at = "zero" /\ task[t].own = owners => applied[owners].kind # "drive"
    /\ o.phase = "closing" /\ ~o.start_terminal =>
         \/ applied[owners].kind # "drive" \/ o.stop_issued
         \/ \E t \in Task : task[t].at \in Zeroing /\ task[t].own = owners

\* A timer is that of an active command.
TimerFits == task["timer"].what \in active \cup {None}

Core ==
  /\ TaskTypes /\ OwnerTypes /\ OneLock /\ OpenIsOwned /\ Untouched /\ AtRobot
  /\ Writers /\ Halted /\ Counted /\ Told /\ TimerFits

IInv == OtherTypes /\ Core

----------------------------------------------------------------------------
(* The data.                                                               *)

\* The constants, as the proofs use them.
LEMMA Constants ==
  /\ DOMAIN AutoStop = Start /\ DOMAIN From = Start
  /\ \A s \in Start : AutoStop[s] \in StopId
  /\ Client \cap Gateway = {} /\ Client \subseteq Task /\ Gateway \subseteq Task
  /\ Start \subseteq Command /\ Stop \subseteq StopId /\ StopId \subseteq Command
  /\ None \notin Command /\ None \notin Task /\ None \notin Start
  /\ Budgets \subseteq [Event -> Nat] /\ Speed \subseteq Nat \ {0} /\ Base \subseteq Nat
BY ServerManualAssumption, PolicyAssumption DEF StopId, Command, Task

\* A call on top of a stack, and what it returns to.
LEMMA PushIs ==
  ASSUME NEW s \in Seq(Frames), NEW f \in Frames
  PROVE  LET u == <<f>> \o s IN
         /\ u \in Seq(Frames) /\ Len(u) = Len(s) + 1 /\ u # << >> /\ u[1] = f
         /\ \A n \in 2 .. Len(u) : u[n] = s[n - 1]
         /\ Head(u) = f /\ Tail(u) = s
<1> DEFINE u == <<f>> \o s
<1>1. <<f>> \in Seq(Frames) /\ Len(<<f>>) = 1 /\ <<f>>[1] = f
  OBVIOUS
<1>2. /\ u \in Seq(Frames) /\ Len(u) = Len(s) + 1
      /\ \A n \in 1 .. Len(u) : u[n] = IF n <= 1 THEN <<f>>[n] ELSE s[n - 1]
  BY <1>1, ConcatProperties
<1> QED BY <1>1, <1>2

\* A stack that is not empty has one frame or two.
LEMMA OneOrTwo ==
  ASSUME NEW n \in Nat, NEW d \in {0, 1, 2}, n <= d, n # 0
  PROVE  n \in {1, 2} /\ n <= 2 /\ 1 \in 1 .. n /\ (n = 2 => 1 < n)
OBVIOUS

\* What a task is after the innermost call returned.
LEMMA ResumeFits ==
  ASSUME NEW t \in Task, NEW r \in Tasks, NEW d \in {0, 1, 2}, StackFits(r, d), r.locked => t \in Client
  PROVE  LET q == Resume(r) IN
         /\ TaskFits(t, q) /\ q.own = None /\ q.what \in {r.what, None}
         /\ q.locked => r.locked
         /\ Resets(q) => Resets(r)
         /\ q.at \notin Starting \cup Driving \cup Zeroing
<1>1. CASE r.stack = << >>
  <2>1. Resume(r) = Idle
    BY <1>1 DEF Resume
  <2>2. Idle \in Tasks /\ Len(Idle.stack) = 0
    BY EmptySeq DEF Idle, Tasks, At, Whats
  <2>3. StackFits(Idle, Depth(Idle))
    BY <2>2 DEF Idle, StackFits, Depth, Tasks, Zeroing, Stopping
  <2>4. TaskFits(t, Idle)
    BY <2>2, <2>3 DEF Idle, TaskFits, Zeroing, Driving, Starting, Stopping
  <2>5. ~Resets(Idle)
    BY DEF Idle, Resets
  <2>6. Idle.own = None /\ Idle.what = None /\ ~Idle.locked /\ Idle.at \notin Starting \cup Driving \cup Zeroing
    BY DEF Idle, Starting, Driving, Zeroing
  <2> QED BY <2>1, <2>4, <2>5, <2>6
<1>2. CASE r.stack # << >>
  <2> DEFINE s == r.stack
             f == r.stack[1]
             q == [r EXCEPT !.at = f.at, !.id = f.id, !.own = None, !.issue = FALSE, !.session = 0, !.stack = Tail(s)]
  <2>1. /\ s \in Seq(Frames) /\ Len(s) \in Nat \ {0} /\ Len(s) <= 2 /\ Head(s) = f /\ f \in Frames
        /\ Tail(s) \in Seq(Frames) /\ Len(Tail(s)) = Len(s) - 1
        /\ \A n \in 1 .. Len(Tail(s)) : Tail(s)[n] = s[n + 1]
        /\ Len(s) \in {1, 2} /\ 1 \in 1 .. Len(s) /\ (Len(s) = 2 => 1 < Len(s))
    <3>1. s \in Seq(Frames) /\ Len(s) <= d /\ Len(s) \in Nat
      BY DEF StackFits
    <3>2. Len(s) # 0
      BY <1>2, <3>1, EmptySeq
    <3>3. Head(s) = f
      BY <3>1, <3>2
    <3>4. f \in Frames
      BY <3>1, <3>2, ElementOfSeq
    <3>5. Tail(s) \in Seq(Frames) /\ Len(Tail(s)) = Len(s) - 1
          /\ \A n \in 1 .. Len(Tail(s)) : Tail(s)[n] = s[n + 1]
      BY <1>2, <3>1, HeadTailProperties
    <3> HIDE DEF s
    <3>6. Len(s) \in {1, 2} /\ Len(s) \in Nat \ {0} /\ Len(s) <= 2
      BY <3>1, <3>2, OneOrTwo
    <3>7. 1 \in 1 .. Len(s) /\ (Len(s) = 2 => 1 < Len(s))
      BY <3>1, <3>2, OneOrTwo
    <3> QED BY <3>1, <3>3, <3>4, <3>5, <3>6, <3>7
  <2>2. Resume(r) = q
    BY <1>2, <2>1 DEF Resume
  <2>3. /\ f.at \in {"t_lookup", "uncertain", "connect", "disconnect", "hello", "r_lookup"}
        /\ f.id \in Command \cup {None}
        /\ f.at = "t_lookup" => f.id \in StopId
        /\ f.at = "uncertain" => f.id \in Command
        /\ f.at = "r_lookup" => r.locked
        /\ Len(s) = 2 => f.at \in Calls
    <3>1. f.at \in {"t_lookup", "uncertain", "connect", "disconnect", "hello", "r_lookup"}
          /\ f.id \in Command \cup {None}
      BY <2>1 DEF Frames
    <3> QED BY <2>1, <3>1 DEF StackFits
  <2>4. /\ q \in Tasks /\ q.at = f.at /\ q.id = f.id /\ q.own = None /\ q.what = r.what /\ q.locked = r.locked
        /\ q.stack = Tail(s)
    BY <2>1, <2>3 DEF Tasks, At
  <2> HIDE DEF q
  <2>5. Len(q.stack) <= Depth(q)
    <3>1. Len(q.stack) = 0 \/ (Len(q.stack) = 1 /\ q.at \in Calls)
      <4>1. Len(q.stack) = Len(s) - 1
        BY <2>1, <2>4
      <4>2. CASE Len(s) = 1
        BY <4>1, <4>2
      <4>3. CASE Len(s) = 2
        BY <2>3, <2>4, <4>1, <4>3
      <4> QED BY <2>1, <4>2, <4>3
    <3>2. Depth(q) \in {0, 1, 2} /\ (q.at \in Calls => Depth(q) = 1)
      BY DEF Depth, Calls, Zeroing, Stopping
    <3>3. CASE Len(q.stack) = 0
      BY <3>2, <3>3
    <3>4. CASE Len(q.stack) = 1 /\ q.at \in Calls
      BY <3>2, <3>4
    <3> QED BY <3>1, <3>3, <3>4
  <2>6. StackFits(q, Depth(q))
    BY <2>1, <2>4, <2>5 DEF StackFits
  <2>7. TaskFits(t, q)
    BY <2>3, <2>4, <2>6 DEF TaskFits, Zeroing, Driving, Starting, Stopping
  <2>8. Resets(q) => Resets(r)
    BY <2>1, <2>3, <2>4 DEF Resets
  <2>9. q.at \notin Starting \cup Driving \cup Zeroing
    BY <2>3, <2>4 DEF Starting, Driving, Zeroing
  <2> QED BY <2>2, <2>4, <2>7, <2>8, <2>9
<1> QED BY <1>1, <1>2

\* A call on the stack of a task that has room for one.
Called(r, at, i) == [r EXCEPT !.stack = Frame(at, i) \o @]

LEMMA CallFits ==
  ASSUME NEW r \in Tasks, NEW d \in {0, 1}, StackFits(r, d), NEW at \in Calls, NEW i \in Command,
         at = "t_lookup" => i \in StopId
  PROVE  LET q == Called(r, at, i) IN
         /\ q \in Tasks /\ StackFits(q, d + 1)
         /\ q.at = r.at /\ q.own = r.own /\ q.issue = r.issue /\ q.what = r.what /\ q.locked = r.locked
         /\ Resets(q) => Resets(r)
<1> DEFINE f == [at |-> at, id |-> i]
           u == <<f>> \o r.stack
           q == [r EXCEPT !.stack = u]
<1>1. f \in Frames /\ f.at = at /\ f.id = i /\ at # "r_lookup"
  BY DEF Frames, Calls
<1>2. r.stack \in Seq(Frames) /\ Len(r.stack) <= d /\ Len(r.stack) \in Nat
  BY DEF StackFits
<1> HIDE DEF f
<1>3. u \in Seq(Frames) /\ Len(u) = Len(r.stack) + 1 /\ u[1] = f /\ \A n \in 2 .. Len(u) : u[n] = r.stack[n - 1]
  BY <1>1, <1>2, PushIs
<1> HIDE DEF u
<1>4. /\ q \in Tasks /\ q.stack = u
      /\ q.at = r.at /\ q.own = r.own /\ q.issue = r.issue /\ q.what = r.what /\ q.locked = r.locked
  BY <1>3 DEF Tasks
<1> HIDE DEF q
<1>5. ASSUME NEW n \in 1 .. Len(u)
      PROVE  /\ u[n].at = "t_lookup" => u[n].id \in StopId
             /\ u[n].at = "uncertain" => u[n].id \in Command
             /\ u[n].at = "r_lookup" => r.locked /\ \E k \in 1 .. Len(r.stack) : r.stack[k].at = "r_lookup"
             /\ n < Len(u) => u[n].at \in Calls
  <2>1. CASE n = 1
    BY <1>1, <1>3, <2>1
  <2>2. CASE n # 1
    <3>1. n - 1 \in 1 .. Len(r.stack) /\ u[n] = r.stack[n - 1] /\ (n < Len(u) => n - 1 < Len(r.stack))
      <4>1. n \in Nat /\ 1 <= n /\ n <= Len(r.stack) + 1 /\ n \in 2 .. Len(u)
        BY <1>2, <1>3, <2>2
      <4>2. u[n] = r.stack[n - 1]
        BY <1>3, <4>1
      <4>3. n < Len(u) => n - 1 < Len(r.stack)
        BY <1>2, <1>3, <4>1
      <4>4. n - 1 \in 1 .. Len(r.stack)
        BY <1>2, <4>1
      <4> QED BY <4>2, <4>3, <4>4
    <3> QED BY <3>1 DEF StackFits
  <2> QED BY <2>1, <2>2
<1>6. StackFits(q, d + 1)
  BY <1>2, <1>3, <1>4, <1>5 DEF StackFits
<1>7. Resets(q) => Resets(r)
  BY <1>4, <1>5 DEF Resets
<1>8. Called(r, at, i) = q
  BY DEF Called, Frame, u, f, q
<1> QED BY <1>4, <1>6, <1>7, <1>8

----------------------------------------------------------------------------
(* One owner.                                                              *)

\* The same session, at most closed and its stop issued.
Later(o, p) ==
  /\ p \in Owner
  /\ p.client = o.client /\ p.seq = o.seq /\ p.start_terminal = o.start_terminal /\ p.stop_ids = o.stop_ids
  /\ p.phase \in Open => o.phase \in Open
  /\ o.stop_issued => p.stop_issued

LEMMA LaterIs ==
  /\ \A o \in Owner : Later(o, o)
  /\ \A o, p, q : Later(o, p) /\ Later(p, q) => Later(o, q)
BY DEF Later

\* What is assigned to an owner while its session goes on or ends.
LEMMA EditIs ==
  ASSUME NEW o \in Owner
  PROVE  /\ \A ph \in Phase : LET p == [o EXCEPT !.phase = ph] IN
              /\ p \in Owner /\ p.phase = ph /\ p.stop_issued = o.stop_issued
              /\ (ph \in Open => o.phase \in Open) => Later(o, p)
         /\ LET p == [o EXCEPT !.stop_issued = TRUE] IN Later(o, p) /\ p.stop_issued /\ p.phase = o.phase
         /\ \A k \in Task \cup {None} : LET p == [o EXCEPT !.send_lock = k] IN
              Later(o, p) /\ p.stop_issued = o.stop_issued /\ p.phase = o.phase
         /\ \A b \in BOOLEAN : LET p == [o EXCEPT !.quiet = b] IN
              Later(o, p) /\ p.stop_issued = o.stop_issued /\ p.phase = o.phase
<1>1. ASSUME NEW ph \in Phase
      PROVE  LET p == [o EXCEPT !.phase = ph] IN
              /\ p \in Owner /\ p.phase = ph /\ p.stop_issued = o.stop_issued
              /\ (ph \in Open => o.phase \in Open) => Later(o, p)
  BY DEF Owner, Later
<1>2. LET p == [o EXCEPT !.stop_issued = TRUE] IN Later(o, p) /\ p.stop_issued /\ p.phase = o.phase
  BY DEF Owner, Later
<1>3. ASSUME NEW k \in Task \cup {None}
      PROVE  LET p == [o EXCEPT !.send_lock = k] IN
               Later(o, p) /\ p.stop_issued = o.stop_issued /\ p.phase = o.phase
  BY DEF Owner, Later
<1>4. ASSUME NEW b \in BOOLEAN
      PROVE  LET p == [o EXCEPT !.quiet = b] IN
               Later(o, p) /\ p.stop_issued = o.stop_issued /\ p.phase = o.phase
  BY DEF Owner, Later
<1> QED BY <1>1, <1>2, <1>3, <1>4

LEMMA ClosingIs ==
  ASSUME NEW ow \in [Start -> Owner], NEW s \in Start
  PROVE  LET cl == Closing(ow, s) IN
         /\ cl \in [Start -> Owner] /\ \A x \in Start : Later(ow[x], cl[x]) /\ cl[x].stop_issued = ow[x].stop_issued
         /\ cl[s].phase \notin Open /\ \A x \in Start \ {s} : cl[x] = ow[x]
         /\ ow[s].phase \notin Open => cl[s].phase = ow[s].phase
<1> DEFINE ph == IF ow[s].phase = "unknown" THEN ow[s].phase ELSE "closing"
           p == [ow[s] EXCEPT !.phase = ph]
           cl == [ow EXCEPT ![s] = p]
<1>1. ow[s] \in Owner /\ ow[s].phase \in Phase
  BY DEF Owner
<1>2. ph \in Phase /\ ph \notin Open /\ (ow[s].phase \notin Open => ph = ow[s].phase)
  BY <1>1 DEF Phase, Open
<1> HIDE DEF ph
<1>3. p \in Owner /\ p.phase = ph /\ p.stop_issued = ow[s].stop_issued /\ Later(ow[s], p)
  BY <1>1, <1>2, EditIs
<1> HIDE DEF p
<1>4. cl \in [Start -> Owner] /\ cl[s] = p /\ \A x \in Start \ {s} : cl[x] = ow[x]
  BY <1>3
<1>5. Closing(ow, s) = cl
  BY DEF Closing, cl, p, ph
<1> HIDE DEF cl
<1>6. \A x \in Start : Later(ow[x], cl[x]) /\ cl[x].stop_issued = ow[x].stop_issued
  BY <1>3, <1>4, LaterIs
<1> QED BY <1>2, <1>3, <1>4, <1>5, <1>6

----------------------------------------------------------------------------
(* revoke, in one task.                                                    *)

\* t, which ran r, is now q: it waits for a zero frame or is past the call.
Waits(t, r, q, ow) ==
  /\ task' = [task EXCEPT ![t] = q] /\ TaskFits(t, q)
  /\ q.what \in {r.what, None} /\ (q.locked => r.locked) /\ (Resets(q) => Resets(r))
  /\ q.at \notin Starting \cup Driving \cup {"zero"}
  /\ q.own # None => q.own = owners /\ owner'[owners].phase \notin Open
  /\ owner' \in [Start -> Owner] /\ \A x \in Start : Later(ow[x], owner'[x])
  /\ \A x \in Start : owner'[x].phase = "closing" /\ ow[x].phase # "closing" => q.own = x \/ owner'[x].stop_issued

\* The calls are what the task may make.
Callable(t, r, issue) ==
  r \in Tasks /\ StackFits(r, IF issue THEN 1 ELSE 2) /\ (r.locked => t \in Client)

\* A task that returns has done what it says to the owners.
LEMMA ReturnWaits ==
  ASSUME NEW t \in Task, NEW r \in Tasks, NEW d \in {0, 1, 2}, StackFits(r, d), r.locked => t \in Client,
         Return(t, r), owner' \in [Start -> Owner]
  PROVE  LET q == Resume(r) IN
         /\ task' = [task EXCEPT ![t] = q] /\ TaskFits(t, q)
         /\ q.what \in {r.what, None} /\ (q.locked => r.locked) /\ (Resets(q) => Resets(r))
         /\ q.at \notin Starting \cup Driving \cup Zeroing
         /\ q.own = None
BY ResumeFits DEF Return

\* What a task that waits for a zero frame is.
Zeroes(r, s) == [r EXCEPT !.at = "zero_q", !.own = s]

LEMMA ZeroFits ==
  ASSUME NEW t \in Task, NEW r \in Tasks, Callable(t, r, r.issue), NEW s \in Start
  PROVE  LET q == Zeroes(r, s) IN
         /\ TaskFits(t, q) /\ q.what = r.what /\ q.locked = r.locked /\ (Resets(q) => Resets(r))
         /\ q.own = s /\ q.at = "zero_q"
<1> DEFINE q == Zeroes(r, s)
<1>1. /\ q \in Tasks /\ q.what = r.what /\ q.locked = r.locked /\ q.own = s /\ q.at = "zero_q"
      /\ q.stack = r.stack /\ q.issue = r.issue
  BY DEF Tasks, At, Zeroes
<1>2. s # None
  BY Constants
<1>3. Depth(q) = IF r.issue THEN 1 ELSE 2
  BY <1>1 DEF Depth, Zeroing
<1>4. StackFits(q, Depth(q))
  BY <1>1, <1>3 DEF Callable, StackFits
<1>5. TaskFits(t, q)
  BY <1>1, <1>2, <1>4 DEF TaskFits, Zeroing, Driving, Starting, Stopping, Callable
<1>6. Resets(q) => Resets(r)
  BY <1>1 DEF Resets
<1> QED BY <1>1, <1>5, <1>6

\* The second half of revoke closes the session of s, or of whoever owns the
\* robot by then.
LEMMA IssueStopIs ==
  ASSUME TaskTypes, OwnerTypes, NEW t \in Task, NEW r, Callable(t, r, r.issue), NEW s \in Start,
         NEW ow \in [Start -> Owner], NEW revs, IssueStop(t, r, s, ow, revs)
  PROVE  /\ \E q \in Tasks : Waits(t, r, q, ow)
         /\ r.issue => owner'[s].stop_issued
         /\ rev_ok' \in {revs, {}}
<1>0. r \in Tasks /\ r.issue \in BOOLEAN /\ owners \in Start \cup {None}
  BY DEF Callable, Tasks, OwnerTypes
<1>a. (IF r.issue THEN 1 ELSE 2) \in {0, 1, 2}
  OBVIOUS
<1>b. \A x \in Start : Later(ow[x], ow[x])
  BY LaterIs
<1>1. CASE ~r.issue \/ ow[s].stop_issued
  <2>1. owner' = ow /\ rev_ok' = revs /\ Return(t, r)
    BY <1>1 DEF IssueStop
  <2>2. Waits(t, r, Resume(r), ow) /\ Resume(r) \in Tasks
    BY <1>0, <1>a, <1>b, <2>1, ReturnWaits DEF Callable, Waits, Zeroing, TaskFits
  <2> QED BY <1>1, <2>1, <2>2
<1>2. CASE r.issue /\ ~ow[s].stop_issued /\ ~bound(s)
  <2> DEFINE p == [ow[s] EXCEPT !.stop_issued = TRUE, !.phase = "unknown"]
  <2>1. owner' = [ow EXCEPT ![s] = p] /\ rev_ok' = revs /\ Return(t, r)
    BY <1>2 DEF IssueStop
  <2>2. Later(ow[s], p) /\ p.stop_issued /\ p.phase = "unknown"
    BY DEF Owner, Later, Phase, Open
  <2> HIDE DEF p
  <2>3. owner' \in [Start -> Owner] /\ owner'[s] = p /\ \A x \in Start \ {s} : owner'[x] = ow[x]
    BY <2>1, <2>2 DEF Later
  <2>4. \A x \in Start : Later(ow[x], owner'[x])
    BY <1>b, <2>2, <2>3
  <2>5. \A x \in Start : owner'[x].phase = "closing" => ow[x].phase = "closing"
    BY <2>2, <2>3
  <2>6. Waits(t, r, Resume(r), ow) /\ Resume(r) \in Tasks
    BY <1>0, <1>a, <2>1, <2>3, <2>4, <2>5, ReturnWaits DEF Callable, Waits, Zeroing, TaskFits
  <2> QED BY <2>1, <2>2, <2>3, <2>6
<1>3. CASE r.issue /\ ~ow[s].stop_issued /\ bound(s)
  <2> DEFINE p == [ow[s] EXCEPT !.stop_issued = TRUE]
             issued == [ow EXCEPT ![s] = p]
             call == Called(r, "t_lookup", AutoStop[s])
             now == [call EXCEPT !.issue = FALSE]
             zero == [call EXCEPT !.at = "zero_q", !.own = owners, !.issue = FALSE]
  <2>1. Later(ow[s], p) /\ p.stop_issued /\ p.phase = ow[s].phase
    BY EditIs
  <2> HIDE DEF p
  <2>2. issued \in [Start -> Owner] /\ issued[s] = p /\ \A x \in Start \ {s} : issued[x] = ow[x]
    BY <2>1 DEF Later
  <2>3. \A x \in Start : Later(ow[x], issued[x]) /\ issued[x].phase = ow[x].phase
    BY <1>b, <2>1, <2>2
  <2>4. AutoStop[s] \in StopId /\ AutoStop[s] \in Command
    BY Constants
  <2>5. /\ call \in Tasks /\ StackFits(call, 2) /\ call.at = r.at /\ call.own = r.own /\ call.issue = r.issue
        /\ call.what = r.what /\ call.locked = r.locked /\ (Resets(call) => Resets(r))
    <3>1. StackFits(r, 1)
      BY <1>3 DEF Callable
    <3>2. "t_lookup" \in Calls /\ 1 \in {0, 1} /\ 1 + 1 = 2
      BY DEF Calls
    <3> QED BY <1>0, <2>4, <3>1, <3>2, CallFits
  <2>6. /\ rev_ok' = {}
        /\ IF owners # None /\ issued[owners].phase \in Open
             THEN owner' = Closing(issued, owners) /\ task' = [task EXCEPT ![t] = zero]
             ELSE owner' = issued /\ Return(t, call)
    BY <1>3 DEF IssueStop, p, Called
  <2> HIDE DEF issued, call
  <2>7. CASE owners # None /\ issued[owners].phase \in Open
    <3> DEFINE cl == Closing(issued, owners)
    <3>1. owners \in Start
      BY <1>0, <2>7
    <3>2. /\ cl \in [Start -> Owner]
          /\ \A x \in Start : Later(issued[x], cl[x]) /\ cl[x].stop_issued = issued[x].stop_issued
          /\ cl[owners].phase \notin Open /\ \A x \in Start \ {owners} : cl[x] = issued[x]
      BY <2>2, <3>1, ClosingIs
    <3>3. owner' = cl /\ task' = [task EXCEPT ![t] = zero]
      BY <2>6, <2>7
    <3> HIDE DEF cl
    <3>4. /\ now \in Tasks /\ now.issue = FALSE /\ now.what = r.what /\ now.locked = r.locked
          /\ now.stack = call.stack /\ now.at = call.at
      BY <2>5 DEF Tasks
    <3>5. zero = Zeroes(now, owners)
      BY <2>5 DEF Tasks, Zeroes
    <3> HIDE DEF now, zero
    <3>6. Callable(t, now, now.issue)
      BY <2>5, <3>4 DEF Callable, StackFits
    <3>7. Resets(now) => Resets(r)
      BY <2>5, <3>4 DEF Resets
    <3>8. /\ TaskFits(t, zero) /\ zero.what = r.what /\ zero.locked = r.locked /\ (Resets(zero) => Resets(r))
          /\ zero.own = owners /\ zero.at = "zero_q"
      BY <3>1, <3>4, <3>5, <3>6, <3>7, ZeroFits
    <3>9. \A x \in Start : Later(ow[x], owner'[x])
      BY <2>3, <3>2, <3>3, LaterIs
    <3>10. \A x \in Start : owner'[x].phase = "closing" /\ ow[x].phase # "closing" => x = owners
      BY <2>3, <3>2, <3>3
    <3>11. zero \in Tasks
      BY <3>8 DEF TaskFits
    <3>12. zero.at \notin Starting \cup Driving \cup {"zero"}
      BY <3>8 DEF Starting, Driving
    <3>13. Waits(t, r, zero, ow)
      BY <3>2, <3>3, <3>8, <3>9, <3>10, <3>12 DEF Waits
    <3>14. owner'[s].stop_issued
      BY <2>1, <2>2, <3>2, <3>3
    <3> QED BY <2>6, <3>11, <3>13, <3>14
  <2>8. CASE ~(owners # None /\ issued[owners].phase \in Open)
    <3>1. owner' = issued /\ Return(t, call)
      BY <2>6, <2>8
    <3>2. LET q == Resume(call) IN
         /\ task' = [task EXCEPT ![t] = q] /\ TaskFits(t, q)
         /\ q.what \in {call.what, None} /\ (q.locked => call.locked) /\ (Resets(q) => Resets(call))
         /\ q.at \notin Starting \cup Driving \cup Zeroing
         /\ q.own = None
      BY <2>2, <2>5, <3>1, ReturnWaits DEF Callable
    <3>3. Waits(t, r, Resume(call), ow) /\ Resume(call) \in Tasks
      BY <2>2, <2>3, <2>5, <3>1, <3>2 DEF Waits, Zeroing, TaskFits
    <3> QED BY <2>1, <2>2, <2>6, <3>1, <3>3
  <2> QED BY <2>7, <2>8
<1> QED BY <1>1, <1>2, <1>3

\* After revoke no session is open, whatever it waits for.
LEMMA RevokeIs ==
  ASSUME TaskTypes, OwnerTypes, NEW t \in Task, NEW r, NEW issue \in BOOLEAN, NEW sent \in BOOLEAN,
         sent => issue, Callable(t, r, issue), NEW ow \in [Start -> Owner], revoke(t, r, ow, issue, sent)
  PROVE  /\ \E q \in Tasks : Waits(t, r, q, ow)
         /\ owners # None => owner'[owners].phase \notin Open
         /\ rev_ok' = {}
<1> DEFINE m == [r EXCEPT !.issue = issue, !.id = None, !.session = 0]
<1>0. r \in Tasks /\ owners \in Start \cup {None}
  BY DEF Callable, OwnerTypes
<1>1. /\ m \in Tasks /\ m.issue = issue /\ m.what = r.what /\ m.locked = r.locked /\ m.stack = r.stack
      /\ m.at = r.at
  BY <1>0 DEF Tasks
<1>b. \A x \in Start : Later(ow[x], ow[x])
  BY LaterIs
<1>c. IF owners = None
        THEN owner' = ow /\ rev_ok' = {} /\ Return(t, m)
      ELSE IF ow[owners].phase \in Open /\ ~sent
        THEN /\ owner' = Closing(ow, owners) /\ rev_ok' = {}
             /\ task' = [task EXCEPT ![t] = [m EXCEPT !.at = "zero_q", !.own = owners]]
        ELSE IssueStop(t, m, owners, Closing(ow, owners), {})
  BY DEF revoke
<1> HIDE DEF m
<1>2. Callable(t, m, issue) /\ (Resets(m) => Resets(r))
  BY <1>1 DEF Callable, StackFits, Resets
<1>3. CASE owners = None
  <2>1. owner' = ow /\ rev_ok' = {} /\ Return(t, m)
    BY <1>3, <1>c
  <2>2. (IF issue THEN 1 ELSE 2) \in {0, 1, 2}
    OBVIOUS
  <2>3. Waits(t, r, Resume(m), ow) /\ Resume(m) \in Tasks
    BY <1>1, <1>2, <1>b, <2>1, <2>2, ReturnWaits DEF Callable, Waits, Zeroing, TaskFits
  <2> QED BY <1>3, <2>1, <2>3
<1>4. CASE owners # None /\ ow[owners].phase \in Open /\ ~sent
  <2> DEFINE cl == Closing(ow, owners)
             zero == [m EXCEPT !.at = "zero_q", !.own = owners]
  <2>1. owners \in Start
    BY <1>0, <1>4
  <2>2. /\ cl \in [Start -> Owner]
        /\ \A x \in Start : Later(ow[x], cl[x]) /\ cl[x].stop_issued = ow[x].stop_issued
        /\ cl[owners].phase \notin Open /\ \A x \in Start \ {owners} : cl[x] = ow[x]
    BY <2>1, ClosingIs
  <2>3. owner' = cl /\ rev_ok' = {} /\ task' = [task EXCEPT ![t] = zero]
    BY <1>4, <1>c
  <2>4. /\ TaskFits(t, zero) /\ zero.what = r.what /\ zero.locked = r.locked /\ (Resets(zero) => Resets(r))
        /\ zero.own = owners /\ zero.at = "zero_q"
    <3>1. Callable(t, m, m.issue)
      BY <1>1, <1>2
    <3>z. zero = Zeroes(m, owners)
      BY DEF Zeroes
    <3> HIDE DEF zero
    <3>2. /\ TaskFits(t, zero) /\ zero.what = m.what /\ zero.locked = m.locked /\ (Resets(zero) => Resets(m))
          /\ zero.own = owners /\ zero.at = "zero_q"
      BY <1>1, <2>1, <3>1, <3>z, ZeroFits
    <3> QED BY <1>1, <1>2, <3>2
  <2> HIDE DEF cl, zero
  <2>5. zero \in Tasks /\ zero.at \notin Starting \cup Driving \cup {"zero"}
    BY <2>4 DEF TaskFits, Starting, Driving
  <2>6. Waits(t, r, zero, ow)
    BY <2>2, <2>3, <2>4, <2>5 DEF Waits
  <2> QED BY <2>2, <2>3, <2>5, <2>6
<1>5. CASE owners # None /\ ~(ow[owners].phase \in Open /\ ~sent)
  <2> DEFINE cl == Closing(ow, owners)
  <2>1. owners \in Start
    BY <1>0, <1>5
  <2>2. /\ cl \in [Start -> Owner]
        /\ \A x \in Start : Later(ow[x], cl[x]) /\ cl[x].stop_issued = ow[x].stop_issued
        /\ cl[owners].phase \notin Open /\ \A x \in Start \ {owners} : cl[x] = ow[x]
        /\ ow[owners].phase \notin Open => cl[owners].phase = ow[owners].phase
    BY <2>1, ClosingIs
  <2>3. IssueStop(t, m, owners, cl, {})
    BY <1>5, <1>c
  <2> HIDE DEF cl
  <2>4. /\ \E q \in Tasks : Waits(t, m, q, cl)
        /\ m.issue => owner'[owners].stop_issued
        /\ rev_ok' \in {{}, {}}
    BY <1>1, <1>2, <2>1, <2>2, <2>3, IssueStopIs
  <2>5. PICK q \in Tasks : Waits(t, m, q, cl)
    BY <2>4
  <2>6. \A x \in Start : Later(ow[x], owner'[x])
    BY <2>2, <2>5, LaterIs DEF Waits
  <2>7. owner'[owners].phase \notin Open
    BY <2>1, <2>2, <2>5 DEF Waits, Later
  <2>8. \A x \in Start : owner'[x].phase = "closing" /\ ow[x].phase # "closing" => q.own = x \/ owner'[x].stop_issued
    <3>1. CASE ow[owners].phase \notin Open
      BY <2>2, <2>5, <3>1 DEF Waits
    <3>2. CASE ow[owners].phase \in Open
      <4>1. owner'[owners].stop_issued
        BY <1>1, <1>5, <2>4, <3>2
      <4> QED BY <2>2, <2>5, <4>1 DEF Waits
    <3> QED BY <3>1, <3>2
  <2>9. Waits(t, r, q, ow)
    BY <1>1, <1>2, <2>5, <2>6, <2>8 DEF Waits
  <2> QED BY <2>4, <2>7, <2>9
<1> QED BY <1>3, <1>4, <1>5

----------------------------------------------------------------------------
(* Steps that leave the owner with its start and its stops.                *)

NoneOpen == \A x \in Start : owner'[x].phase \notin Open

\* Nothing of what ties the robot to its owner changes.
Tied ==
  /\ owners' = owners /\ applied' = applied /\ active' = active
  /\ \A s \in Start : s \in used' <=> s \in used
  /\ \A s \in Start : robot'[s] # robot[s] => robot[s] \in {"sent", "accepted"}
  /\ owner' \in [Start -> Owner] /\ \A x \in Start : Later(owner[x], owner'[x])

\* t goes on as q.
Moved(t, q) ==
  /\ Tied
  /\ task' = [task EXCEPT ![t] = q] /\ TaskFits(t, q)
  /\ q.locked => task[t].locked \/ LockFree
  /\ Resets(q) => Resets(task[t]) \/ NoneOpen
  /\ q.at \notin Driving \cup {"zero"}
  /\ q.at \in Starting => q.at = "s_lookup" /\ task[t].at = "waiting" /\ q.id = task[t].id
  /\ q.own # None => q.own = owners /\ owner'[owners].phase \notin Open
  /\ task[t].at # "s_audit"
  /\ task[t].at = "vel" => task[t].what # 0 \/ NoneOpen
  /\ owners # None /\ owner'[owners].phase = "closing" =>
       \/ q.own = owners \/ owner'[owners].stop_issued
       \/ owner[owners].phase = "closing" /\ (task[t].at = "zero_q" => task[t].own # owners)
  /\ t = "timer" => q.what \in active \cup {None}

LEMMA MovedKeeps ==
  ASSUME IInv, NEW t \in Task, NEW q \in Tasks, Moved(t, q)
  PROVE  Core'
<1>0. Core
  BY DEF IInv
<1>1. /\ task \in [Task -> Tasks] /\ owner \in [Start -> Owner] /\ owners \in Start \cup {None}
      /\ \A u \in Task : TaskFits(u, task[u])
  BY <1>0 DEF Core, TaskTypes, OwnerTypes
<1>2. /\ task' \in [Task -> Tasks] /\ task'[t] = q /\ \A u \in Task \ {t} : task'[u] = task[u]
  BY <1>1 DEF Moved
<1>3. Tied
  BY DEF Moved
<1>4. \A x \in Start : /\ owner'[x].client = owner[x].client /\ owner'[x].seq = owner[x].seq
                       /\ owner'[x].start_terminal = owner[x].start_terminal
                       /\ owner'[x].stop_ids = owner[x].stop_ids
                       /\ owner'[x].phase \in Open => owner[x].phase \in Open
                       /\ owner[x].stop_issued => owner'[x].stop_issued
  BY <1>3 DEF Tied, Later
<1>5. Client \subseteq Task /\ None \notin Start /\ "timer" \in Task
  BY Constants DEF Gateway
<1>6. TaskTypes'
  BY <1>1, <1>2 DEF TaskTypes, Moved
<1>7. OwnerTypes'
  BY <1>1, <1>3 DEF OwnerTypes, Tied
<1>8. OneLock'
  BY <1>0, <1>2, <1>5 DEF Core, OneLock, Moved, LockFree
<1>9. OpenIsOwned'
  BY <1>0, <1>2, <1>3, <1>4, <1>5 DEF Core, OpenIsOwned, Moved, Tied, NoneOpen
<1>10. q.at \in {"waiting", "s_lookup", "s_audit"} => task[t].at = "waiting" /\ q.id = task[t].id /\ q.at = "s_lookup"
  BY DEF Moved, Starting
<1>11. Untouched'
  <2>1. ASSUME NEW s \in Start,
               s \notin used' \/ \E u \in Task : task'[u].at \in {"waiting", "s_lookup"} /\ task'[u].id = s
        PROVE  applied'[s].kind = "none" /\ owners' # s /\ \A u \in Task : task'[u].own # s
    <3>1. s \notin used \/ \E u \in Task : task[u].at \in {"waiting", "s_lookup"} /\ task[u].id = s
      BY <1>2, <1>3, <1>10, <2>1 DEF Tied
    <3>2. applied[s].kind = "none" /\ owners # s /\ \A u \in Task : task[u].own # s
      BY <1>0, <3>1 DEF Core, Untouched
    <3>3. q.own # s
      BY <1>5, <3>2 DEF Moved
    <3> QED BY <1>2, <1>3, <3>2, <3>3 DEF Tied
  <2>2. ASSUME NEW s \in Start,
               s \notin used' \/ \E u \in Task : task'[u].at \in {"waiting", "s_lookup", "s_audit"} /\ task'[u].id = s
        PROVE  s \notin active' /\ robot'[s] = "none"
    <3>1. s \notin used \/ \E u \in Task : task[u].at \in {"waiting", "s_lookup", "s_audit"} /\ task[u].id = s
      BY <1>2, <1>3, <1>10, <2>2 DEF Tied
    <3> QED BY <1>0, <1>3, <3>1 DEF Core, Untouched, Tied
  <2>3. ASSUME NEW s \in Start, s \notin used', NEW u \in Task, task'[u].at \in Starting PROVE task'[u].id # s
    <3>1. task[u].at \in Starting /\ task'[u].id = task[u].id
      BY <1>2, <2>3 DEF Moved, Starting
    <3> QED BY <1>0, <1>3, <2>3, <3>1 DEF Core, Untouched, Tied
  <2> QED BY <2>1, <2>2, <2>3 DEF Untouched
<1>12. AtRobot'
  BY <1>0, <1>3, <1>4 DEF Core, AtRobot, Tied
<1>13. Writers'
  <2>1. ASSUME NEW u \in Task \ {t}
        PROVE  /\ task'[u].at \in Driving => owner'[task'[u].own].client = u
               /\ task'[u].at \in Zeroing => owner'[task'[u].own].phase \notin Open
    <3>1. task'[u] = task[u] /\ task[u].own \in Start \cup {None}
      BY <1>1, <1>2 DEF Tasks
    <3>2. task[u].at \in Zeroing \cup Driving => task[u].own \in Start
      BY <1>1, <3>1 DEF TaskFits
    <3> QED BY <1>0, <1>4, <3>1, <3>2 DEF Core, Writers
  <2>2. q.at \notin Driving /\ (q.at \in Zeroing => owner'[q.own].phase \notin Open)
    BY DEF Moved, TaskFits
  <2> QED BY <1>2, <2>1, <2>2 DEF Writers
<1>14. Halted'
  <2> SUFFICES ASSUME NEW s \in Start, applied'[s].kind = "zero", owner'[s].phase \in Open
               PROVE  \E c \in Client : owner'[s].client = c /\ task'[c].at = "vel" /\ task'[c].own = s /\ task'[c].what = 0
    BY DEF Halted
  <2>1. PICK c \in Client : owner[s].client = c /\ task[c].at = "vel" /\ task[c].own = s /\ task[c].what = 0
    BY <1>0, <1>3, <1>4 DEF Core, Halted, Tied
  <2>2. c # t
    BY <2>1 DEF Moved, NoneOpen
  <2> QED BY <1>2, <1>4, <1>5, <2>1, <2>2
<1>15. Counted'
  <2> SUFFICES ASSUME owners # None
               PROVE  /\ owner'[owners].stop_ids = active \ {owners}
                      /\ owner'[owners].stop_ids # {} => owner'[owners].stop_issued
                      /\ owner'[owners].start_terminal => owners \notin active /\ owner'[owners].stop_ids # {}
                      /\ ~owner'[owners].start_terminal =>
                           owners \in active \/ \E c \in Client : task'[c].at = "s_audit" /\ task'[c].id = owners
    BY <1>3 DEF Counted, Tied
  <2>1. owners \in Start
    BY <1>1
  <2>2. \A c \in Client : task[c].at = "s_audit" => task'[c] = task[c]
    BY <1>2, <1>5 DEF Moved
  <2> QED BY <1>0, <1>4, <2>1, <2>2 DEF Core, Counted
<1>16. Told'
  <2> SUFFICES ASSUME owners # None
               PROVE  /\ applied[owners].kind = "drive" => applied[owners].seq <= owner'[owners].seq
                      /\ \A u \in Task : task'[u].at = "zero" /\ task'[u].own = owners => applied[owners].kind # "drive"
                      /\ owner'[owners].phase = "closing" /\ ~owner'[owners].start_terminal =>
                           \/ applied[owners].kind # "drive" \/ owner'[owners].stop_issued
                           \/ \E u \in Task : task'[u].at \in Zeroing /\ task'[u].own = owners
    BY <1>3 DEF Told, Tied
  <2>1. owners \in Start
    BY <1>1
  <2>2. applied[owners].kind = "drive" => applied[owners].seq <= owner'[owners].seq
    BY <1>0, <1>4, <2>1 DEF Core, Told
  <2>3. \A u \in Task : task'[u].at = "zero" /\ task'[u].own = owners => applied[owners].kind # "drive"
    BY <1>0, <1>2 DEF Core, Told, Moved
  <2>4. ASSUME owner'[owners].phase = "closing", ~owner'[owners].start_terminal, ~owner'[owners].stop_issued,
               applied[owners].kind = "drive"
        PROVE  \E u \in Task : task'[u].at \in Zeroing /\ task'[u].own = owners
    <3>1. CASE q.own = owners
      BY <1>2, <2>1, <1>5, <3>1 DEF Moved, TaskFits
    <3>2. CASE owner[owners].phase = "closing" /\ (task[t].at = "zero_q" => task[t].own # owners)
      <4>1. PICK u \in Task : task[u].at \in Zeroing /\ task[u].own = owners
        BY <1>0, <1>4, <2>1, <2>4, <3>2 DEF Core, Told
      <4>2. task[u].at # "zero"
        BY <1>0, <2>4, <4>1 DEF Core, Told
      <4>3. u # t
        BY <3>2, <4>1, <4>2 DEF Zeroing
      <4> QED BY <1>2, <4>1, <4>3
    <3> QED BY <2>4, <3>1, <3>2 DEF Moved
  <2> QED BY <2>2, <2>3, <2>4
<1>17. TimerFits'
  BY <1>0, <1>2, <1>3, <1>5 DEF Core, TimerFits, Moved, Tied
<1> QED BY <1>6, <1>7, <1>8, <1>9, <1>11, <1>12, <1>13, <1>14, <1>15, <1>16, <1>17 DEF Core

\* No task goes on.
LEMMA StaysKeeps ==
  ASSUME IInv, Tied, task' = task, \A x \in Start : owner'[x].phase = "closing" => owner[x].phase = "closing"
  PROVE  Core'
<1>0. Core
  BY DEF IInv
<1>1. /\ task \in [Task -> Tasks] /\ owner \in [Start -> Owner] /\ owners \in Start \cup {None}
      /\ \A u \in Task : TaskFits(u, task[u]) /\ task[u].own \in Start \cup {None}
  BY <1>0 DEF Core, TaskTypes, OwnerTypes, Tasks
<1>4. \A x \in Start : /\ owner'[x].client = owner[x].client /\ owner'[x].seq = owner[x].seq
                       /\ owner'[x].start_terminal = owner[x].start_terminal
                       /\ owner'[x].stop_ids = owner[x].stop_ids
                       /\ owner'[x].phase \in Open => owner[x].phase \in Open
                       /\ owner[x].stop_issued => owner'[x].stop_issued
  BY DEF Tied, Later
<1>5. None \notin Start
  BY Constants
<1>6. TaskTypes' /\ OneLock' /\ TimerFits'
  BY <1>0 DEF Core, TaskTypes, OneLock, TimerFits, Tied
<1>7. OwnerTypes'
  BY <1>1 DEF OwnerTypes, Tied
<1>9. OpenIsOwned' /\ AtRobot'
  BY <1>0, <1>4 DEF Core, OpenIsOwned, AtRobot, Tied
<1>11. Untouched'
  BY <1>0 DEF Core, Untouched, Tied
<1>13. Writers'
  <2>1. \A u \in Task : task[u].at \in Zeroing \cup Driving => task[u].own \in Start
    BY <1>1 DEF TaskFits
  <2> QED BY <1>0, <1>4, <2>1 DEF Core, Writers
<1>14. Halted'
  BY <1>0, <1>4 DEF Core, Halted, Tied
<1>15. Counted'
  <2> SUFFICES ASSUME owners # None
               PROVE  /\ owner'[owners].stop_ids = active \ {owners}
                      /\ owner'[owners].stop_ids # {} => owner'[owners].stop_issued
                      /\ owner'[owners].start_terminal => owners \notin active /\ owner'[owners].stop_ids # {}
                      /\ ~owner'[owners].start_terminal =>
                           owners \in active \/ \E c \in Client : task[c].at = "s_audit" /\ task[c].id = owners
    BY DEF Counted, Tied
  <2> QED BY <1>0, <1>1, <1>4 DEF Core, Counted
<1>16. Told'
  <2> SUFFICES ASSUME owners # None
               PROVE  /\ applied[owners].kind = "drive" => applied[owners].seq <= owner'[owners].seq
                      /\ \A u \in Task : task[u].at = "zero" /\ task[u].own = owners => applied[owners].kind # "drive"
                      /\ owner'[owners].phase = "closing" /\ ~owner'[owners].start_terminal =>
                           \/ applied[owners].kind # "drive" \/ owner'[owners].stop_issued
                           \/ \E u \in Task : task[u].at \in Zeroing /\ task[u].own = owners
    BY DEF Told, Tied
  <2> QED BY <1>0, <1>1, <1>4 DEF Core, Told
<1> QED BY <1>6, <1>7, <1>9, <1>11, <1>13, <1>14, <1>15, <1>16 DEF Core

----------------------------------------------------------------------------
(* How the handlers go on.                                                 *)

LEMMA CoreIs ==
  IInv => /\ task \in [Task -> Tasks] /\ owner \in [Start -> Owner] /\ owners \in Start \cup {None}
          /\ \A u \in Task : TaskFits(u, task[u])
          /\ TaskTypes /\ OwnerTypes
BY DEF IInv, Core, TaskTypes, OwnerTypes

LEMMA IdleIs ==
  /\ Idle \in Tasks /\ StackFits(Idle, 0) /\ ~Resets(Idle)
  /\ Idle.at = "idle" /\ Idle.own = None /\ Idle.what = None /\ Idle.locked = FALSE /\ Idle.stack = << >>
  /\ Idle.session = 0 /\ Idle.issue = FALSE /\ Idle.id = None
  /\ \A t \in Task : TaskFits(t, Idle)
<1>1. Idle \in Tasks /\ Len(Idle.stack) = 0
  BY EmptySeq DEF Idle, Tasks, At, Whats
<1>2. Depth(Idle) = 0
  BY DEF Idle, Depth, Zeroing, Stopping
<1>3. StackFits(Idle, 0)
  BY <1>1 DEF Idle, StackFits, Tasks
<1>4. ASSUME NEW t \in Task PROVE TaskFits(t, Idle)
  BY <1>1, <1>2, <1>3 DEF Idle, TaskFits, Zeroing, Driving, Starting, Stopping
<1>5. ~Resets(Idle)
  BY <1>1 DEF Idle, Resets
<1> QED BY <1>1, <1>3, <1>4, <1>5 DEF Idle

\* A handler with one frame to return to.
Framed(r, at, i) == [r EXCEPT !.stack = Frame(at, i)]

FrameIs(at, i, r) ==
  /\ at \in {"t_lookup", "uncertain", "connect", "disconnect", "hello", "r_lookup"} /\ i \in Command \cup {None}
  /\ at = "t_lookup" => i \in StopId
  /\ at = "uncertain" => i \in Command
  /\ at = "r_lookup" => r.locked

LEMMA FrameFits ==
  ASSUME NEW t \in Task, NEW r \in Tasks, r.locked => t \in Client,
         NEW at, NEW i, FrameIs(at, i, r)
  PROVE  LET q == Framed(r, at, i) IN
         /\ q \in Tasks /\ Callable(t, q, TRUE) /\ Callable(t, q, FALSE) /\ q.what = r.what /\ (q.locked => r.locked)
         /\ q.at = r.at /\ q.own = r.own /\ q.id = r.id /\ StackFits(q, 1)
<1> DEFINE f == [at |-> at, id |-> i]
           u == <<f>>
           q == [r EXCEPT !.stack = u]
<1>1. f \in Frames /\ f.at = at /\ f.id = i
  BY DEF Frames, FrameIs
<1> HIDE DEF f
<1>2. u \in Seq(Frames) /\ Len(u) = 1 /\ u[1] = f
  BY <1>1
<1> HIDE DEF u
<1>3. /\ q \in Tasks /\ q.stack = u /\ q.what = r.what /\ q.locked = r.locked
      /\ q.at = r.at /\ q.own = r.own /\ q.id = r.id
  BY <1>2 DEF Tasks
<1> HIDE DEF q
<1>4. \A n \in 1 .. Len(u) : n = 1 /\ u[n] = f
  BY <1>2
<1>a. Len(q.stack) <= 1 /\ Len(q.stack) <= 2 /\ ~(1 < Len(u))
  <2>1. Len(u) = 1 /\ Len(q.stack) = Len(u)
    BY <1>2, <1>3
  <2>2. 1 <= 1 /\ 1 <= 2 /\ ~(1 < 1)
    OBVIOUS
  <2> QED BY <2>1, <2>2
<1>5. StackFits(q, 1) /\ StackFits(q, 2)
  BY <1>1, <1>2, <1>3, <1>4, <1>a DEF StackFits, FrameIs
<1>6. Callable(t, q, TRUE) /\ Callable(t, q, FALSE)
  BY <1>3, <1>5 DEF Callable
<1>7. Framed(r, at, i) = q
  BY DEF Framed, Frame, u, f, q
<1> QED BY <1>3, <1>5, <1>6, <1>7

\* Room for what is on the stack is room for more.
LEMMA FitsDeeper ==
  ASSUME NEW t \in Task, NEW r \in Tasks, r.locked => t \in Client, NEW d \in {0, 1, 2}, StackFits(r, d)
  PROVE  /\ d <= 1 => Callable(t, r, TRUE)
         /\ Callable(t, r, FALSE)
<1>1. Len(r.stack) \in Nat
  BY DEF StackFits
<1> QED BY <1>1 DEF Callable, StackFits

LEMMA NoneOpenIs ==
  ASSUME IInv, Tied, owners # None => owner'[owners].phase \notin Open
  PROVE  NoneOpen
<1>1. \A x \in Start : owner'[x].phase \in Open => owners = x
  BY DEF IInv, Core, OpenIsOwned, Tied, Later
<1>2. None \notin Start
  BY Constants
<1> QED BY <1>1, <1>2 DEF NoneOpen

\* A step that calls revoke.
LEMMA RevokeKeeps ==
  ASSUME IInv, NEW t \in Task, NEW r, NEW issue \in BOOLEAN, NEW sent \in BOOLEAN, sent => issue,
         Callable(t, r, issue),
         NEW ow \in [Start -> Owner], \A x \in Start : Later(owner[x], ow[x]) /\ ow[x].phase = owner[x].phase,
         revoke(t, r, ow, issue, sent),
         owners' = owners, applied' = applied, active' = active, \A s \in Start : s \in used' <=> s \in used,
         \A s \in Start : robot'[s] # robot[s] => robot[s] \in {"sent", "accepted"},
         r.locked => task[t].locked \/ LockFree,
         task[t].at \notin Zeroing \cup {"s_audit"},
         t = "timer" => r.what \in active \cup {None}
  PROVE  Core'
<1>1. TaskTypes /\ OwnerTypes
  BY CoreIs
<1>2. /\ \E q \in Tasks : Waits(t, r, q, ow)
      /\ owners # None => owner'[owners].phase \notin Open
      /\ rev_ok' = {}
  BY <1>1, RevokeIs
<1>3. PICK q \in Tasks : Waits(t, r, q, ow)
  BY <1>2
<1>4. Tied
  BY <1>3, LaterIs DEF Waits, Tied
<1>5. NoneOpen
  BY <1>2, <1>4, NoneOpenIs
<1>6. owners # None /\ owner'[owners].phase = "closing" =>
       \/ q.own = owners \/ owner'[owners].stop_issued
       \/ owner[owners].phase = "closing" /\ (task[t].at = "zero_q" => task[t].own # owners)
  BY <1>1, <1>3 DEF Waits, OwnerTypes, Zeroing
<1>7. Moved(t, q)
  BY <1>3, <1>4, <1>5, <1>6 DEF Waits, Moved, Zeroing
<1> QED BY <1>7, MovedKeeps

\* A step of a task that had nothing to return to, or is done with it.
LEMMA EndKeeps ==
  ASSUME IInv, NEW t \in Task, task' = [task EXCEPT ![t] = Idle], Tied,
         \A x \in Start : owner'[x].phase = "closing" => owner[x].phase = "closing",
         task[t].at \notin Zeroing \cup {"s_audit"}, task[t].at = "vel" => task[t].what # 0
  PROVE  Core'
<1>1. owners # None /\ owner'[owners].phase = "closing" =>
        owner[owners].phase = "closing" /\ (task[t].at = "zero_q" => task[t].own # owners)
  BY CoreIs DEF Zeroing
<1>2. Moved(t, Idle)
  BY <1>1, IdleIs DEF Moved, Driving, Starting
<1> QED BY <1>2, IdleIs, MovedKeeps

\* A step that ends with a return.
LEMMA ReturnKeeps ==
  ASSUME IInv, NEW t \in Task, Return(t, task[t]), Tied,
         \A x \in Start : owner'[x].phase = "closing" => owner[x].phase = "closing",
         task[t].at \in Stopping \cup {"uncertain", "changed"}
  PROVE  Core'
<1> DEFINE r == task[t]
           q == Resume(r)
<1>1. r \in Tasks /\ TaskFits(t, r) /\ StackFits(r, 1) /\ (r.locked => t \in Client)
  BY CoreIs DEF TaskFits, Depth, Zeroing, Stopping
<1>2. 1 \in {0, 1, 2} /\ owner' \in [Start -> Owner]
  BY DEF Tied
<1>3. /\ task' = [task EXCEPT ![t] = q] /\ TaskFits(t, q)
      /\ q.what \in {r.what, None} /\ (q.locked => r.locked) /\ (Resets(q) => Resets(r))
      /\ q.at \notin Starting \cup Driving \cup Zeroing
      /\ q.own = None
  BY <1>1, <1>2, ReturnWaits
<1> HIDE DEF q
<1>4. owners # None /\ owner'[owners].phase = "closing" =>
        owner[owners].phase = "closing" /\ (task[t].at = "zero_q" => task[t].own # owners)
  BY CoreIs DEF Stopping
<1>5. t = "timer" => q.what \in active \cup {None}
  BY <1>3 DEF IInv, Core, TimerFits
<1>6. q \in Tasks
  BY <1>3 DEF TaskFits
<1>7. Moved(t, q)
  BY <1>3, <1>4, <1>5 DEF Moved, Zeroing, Stopping
<1> QED BY <1>6, <1>7, MovedKeeps

\* A step that goes on in the same handler.
LEMMA NextKeeps ==
  ASSUME IInv, NEW t \in Task, NEW q \in Tasks, task' = [task EXCEPT ![t] = q], TaskFits(t, q), Tied,
         \A x \in Start : owner'[x].phase = "closing" => owner[x].phase = "closing",
         task[t].at \notin Zeroing \cup Driving \cup {"s_audit"},
         q.at \notin Zeroing \cup Driving \cup Starting,
         q.locked => task[t].locked, Resets(q) => Resets(task[t]),
         t = "timer" => q.what \in active \cup {None}
  PROVE  Core'
<1>1. owners # None /\ owner'[owners].phase = "closing" =>
        owner[owners].phase = "closing" /\ (task[t].at = "zero_q" => task[t].own # owners)
  BY CoreIs DEF Zeroing
<1>2. q.own = None
  BY DEF TaskFits
<1>3. Moved(t, q)
  BY <1>1, <1>2 DEF Moved, Driving, Zeroing
<1> QED BY <1>3, MovedKeeps

\* The owners are as they were.
LEMMA SameOwner ==
  ASSUME IInv, owner' = owner
  PROVE  /\ owner' \in [Start -> Owner] /\ \A x \in Start : Later(owner[x], owner'[x])
         /\ \A x \in Start : owner'[x].phase = "closing" => owner[x].phase = "closing"
BY CoreIs, LaterIs

\* A handler that begins by revoking.
LEMMA BeginsRevoking ==
  ASSUME IInv, NEW t \in Task, Begins(t), NEW r, NEW issue \in BOOLEAN, Callable(t, r, issue),
         revoke(t, r, owner, issue, FALSE),
         owners' = owners, applied' = applied, active' = active, \A s \in Start : s \in used' <=> s \in used,
         \A s \in Start : robot'[s] # robot[s] => robot[s] \in {"sent", "accepted"},
         r.locked => LockFree, t = "timer" => r.what \in active \cup {None}
  PROVE  Core'
<1>1. task[t].at = "idle"
  BY IdleIs DEF Begins
<1>2. owner \in [Start -> Owner] /\ \A x \in Start : Later(owner[x], owner[x])
  BY CoreIs, LaterIs
<1>3. task[t].at \notin Zeroing \cup {"s_audit"}
  BY <1>1 DEF Zeroing
<1>4. FALSE \in BOOLEAN /\ (FALSE => issue)
  OBVIOUS
<1> QED BY <1>2, <1>3, <1>4, RevokeKeeps

LEMMA IdleCalls == \A t \in Task, issue \in BOOLEAN : Callable(t, Idle, issue)
<1> TAKE t \in Task, issue \in BOOLEAN
<1>1. Idle \in Tasks /\ StackFits(Idle, 0) /\ (Idle.locked => t \in Client) /\ 0 \in {0, 1, 2} /\ 0 <= 1
  BY IdleIs
<1>2. Callable(t, Idle, TRUE) /\ Callable(t, Idle, FALSE)
  BY <1>1, FitsDeeper
<1>3. CASE issue = TRUE
  BY <1>2, <1>3
<1>4. CASE issue = FALSE
  BY <1>2, <1>4
<1> QED BY <1>3, <1>4

\* The handlers that revoke and are done.
LEMMA EmergencyKeeps == ASSUME IInv, NEW c \in Client, Emergency(c) PROVE Core'
<1>1. /\ Begins(c) /\ revoke(c, Idle, owner, TRUE, FALSE)
      /\ owners' = owners /\ applied' = applied /\ active' = active /\ used' = used /\ robot' = robot
  BY DEF Emergency, entryVars
<1>2. c \in Task /\ c # "timer"
  BY Constants DEF Gateway
<1> QED BY <1>1, <1>2, IdleIs, IdleCalls, BeginsRevoking

LEMMA CancelKeeps == ASSUME IInv, NEW c \in Client, cancel_for_client(c) PROVE Core'
<1>1. /\ Begins("timer")
      /\ owners' = owners /\ applied' = applied /\ active' = active /\ used' = used /\ robot' = robot
      /\ revoke("timer", Idle, owner, TRUE, FALSE) \/ (task' = task /\ owner' = owner)
  BY DEF cancel_for_client, entryVars
<1>2. "timer" \in Task
  BY Constants DEF Gateway
<1>3. CASE revoke("timer", Idle, owner, TRUE, FALSE)
  BY <1>1, <1>2, <1>3, IdleIs, IdleCalls, BeginsRevoking
<1>4. CASE task' = task /\ owner' = owner
  BY <1>1, <1>4, SameOwner, StaysKeeps DEF Tied
<1> QED BY <1>1, <1>3, <1>4

LEMMA MonitorKeeps == ASSUME IInv, _monitor PROVE Core'
<1>1. /\ Begins("monitor")
      /\ owners' = owners /\ applied' = applied /\ active' = active /\ used' = used /\ robot' = robot
      /\ revoke("monitor", Idle, owner, TRUE, FALSE) \/ (Return("monitor", Idle) /\ owner' = owner)
  BY DEF _monitor, changed, entryVars
<1>2. "monitor" \in Task /\ "monitor" # "timer"
  BY Constants DEF Gateway
<1>3. CASE revoke("monitor", Idle, owner, TRUE, FALSE)
  BY <1>1, <1>2, <1>3, IdleIs, IdleCalls, BeginsRevoking
<1>4. CASE Return("monitor", Idle) /\ owner' = owner
  <2>1. task' = [task EXCEPT !["monitor"] = Idle]
    BY <1>4, IdleIs DEF Return, Resume
  <2>2. task["monitor"].at = "idle"
    BY <1>1, IdleIs DEF Begins
  <2> QED BY <1>1, <1>2, <1>4, <2>1, <2>2, SameOwner, EndKeeps DEF Tied, Zeroing
<1> QED BY <1>1, <1>3, <1>4

\* The handlers that revoke and go on.
LEMMA TimeoutKeeps == ASSUME IInv, NEW i \in Command, NEW w, Timeout(i, w) PROVE Core'
<1> DEFINE p == [Idle EXCEPT !.what = i]
           r == Framed(p, "uncertain", i)
<1>1. p \in Tasks /\ p.what = i /\ ~p.locked
  BY IdleIs DEF Tasks, Whats
<1>2. [Idle EXCEPT !.what = i, !.stack = Frame("uncertain", i)] = r
  BY IdleIs DEF Tasks, Framed
<1>3. /\ Begins("timer") /\ revoke("timer", r, owner, TRUE, FALSE) /\ i \in active
      /\ owners' = owners /\ applied' = applied /\ active' = active /\ used' = used /\ robot' = robot
  BY <1>2 DEF Timeout, entryVars
<1>4. "timer" \in Task
  BY Constants DEF Gateway
<1> HIDE DEF p
<1>f. FrameIs("uncertain", i, p)
  BY DEF FrameIs
<1>p. p \in Tasks /\ ~p.locked
  BY <1>1
<1>5. Callable("timer", r, TRUE) /\ ~r.locked
  BY <1>p, <1>4, <1>f, FrameFits
<1>6. r.what = p.what
  BY <1>p, <1>4, <1>f, FrameFits
<1> HIDE DEF r
<1> QED BY <1>1, <1>3, <1>4, <1>5, <1>6, BeginsRevoking

LEMMA StopRequestKeeps == ASSUME IInv, NEW c \in Client, NEW i \in Stop, StopRequest(c, i) PROVE Core'
<1> DEFINE r == Framed(Idle, "t_lookup", i)
<1>i. Idle \in Tasks /\ ~Idle.locked
  BY IdleIs
<1>1. i \in StopId /\ i \in Command /\ c \in Task /\ c # "timer" /\ i \notin Start
  BY Constants DEF Gateway, StopId
<1>2. /\ Begins(c) /\ revoke(c, r, owner, FALSE, FALSE)
      /\ owners' = owners /\ applied' = applied /\ active' = active /\ robot' = robot
      /\ used' = used \cup {i}
  BY DEF StopRequest, entryVars, Framed
<1>f. FrameIs("t_lookup", i, Idle)
  BY <1>1 DEF FrameIs
<1>3. Callable(c, r, FALSE) /\ ~r.locked
  BY <1>1, <1>f, <1>i, FrameFits
<1> HIDE DEF r
<1> QED BY <1>1, <1>2, <1>3, BeginsRevoking

LEMMA ResetRequestKeeps == ASSUME IInv, NEW c \in Client, ResetRequest(c) PROVE Core'
<1> DEFINE p == [Idle EXCEPT !.locked = TRUE]
           r == Framed(p, "r_lookup", None)
<1>1. p \in Tasks /\ p.locked
  BY IdleIs DEF Tasks
<1>2. [Idle EXCEPT !.locked = TRUE, !.stack = Frame("r_lookup", None)] = r
  BY IdleIs DEF Tasks, Framed
<1>3. /\ Begins(c) /\ revoke(c, r, owner, TRUE, FALSE) /\ LockFree
      /\ owners' = owners /\ applied' = applied /\ active' = active /\ used' = used /\ robot' = robot
  BY <1>2 DEF ResetRequest, entryVars
<1>4. c \in Task /\ c # "timer"
  BY Constants DEF Gateway
<1> HIDE DEF p
<1>f. FrameIs("r_lookup", None, p)
  BY <1>1 DEF FrameIs
<1>5. Callable(c, r, TRUE)
  BY <1>1, <1>4, <1>f, FrameFits
<1> HIDE DEF r
<1> QED BY <1>3, <1>4, <1>5, BeginsRevoking

LEMMA OrdinaryKeeps == ASSUME IInv, NEW c \in Client, Ordinary(c) PROVE Core'
<1> DEFINE r == [Idle EXCEPT !.locked = TRUE]
<1>1. r \in Tasks /\ r.stack = Idle.stack
  BY IdleIs DEF Tasks
<1>2. /\ Begins(c) /\ LockFree /\ c \in Task /\ c # "timer"
      /\ owners' = owners /\ applied' = applied /\ active' = active /\ used' = used /\ robot' = robot
      /\ revoke(c, r, owner, TRUE, FALSE) \/ (task' = task /\ owner' = owner)
  BY Constants DEF Ordinary, entryVars, Gateway
<1> HIDE DEF r
<1>3. Callable(c, r, TRUE)
  <2>1. StackFits(r, 0) /\ 0 \in {0, 1, 2} /\ 0 <= 1
    BY <1>1, IdleIs DEF StackFits
  <2> QED BY <1>1, <1>2, <2>1, FitsDeeper
<1>4. CASE revoke(c, r, owner, TRUE, FALSE)
  BY <1>2, <1>3, <1>4, BeginsRevoking
<1>5. CASE task' = task /\ owner' = owner
  BY <1>2, <1>5, SameOwner, StaysKeeps DEF Tied
<1> QED BY <1>2, <1>4, <1>5

LEMMA ConnectKeeps == ASSUME IInv, robot_connected \/ robot_disconnected PROVE Core'
<1>i. Idle \in Tasks /\ ~Idle.locked
  BY IdleIs
<1>1. "gateway" \in Task /\ "robot" \in Task /\ "gateway" # "timer" /\ "robot" # "timer"
  BY Constants DEF Gateway
<1>2. CASE robot_connected
  <2> DEFINE r == Framed(Idle, "connect", None)
  <2>1. /\ Begins("gateway") /\ revoke("gateway", r, owner, TRUE, FALSE)
        /\ owners' = owners /\ applied' = applied /\ active' = active /\ used' = used /\ robot' = robot
    BY <1>2 DEF robot_connected, entryVars, Framed
  <2>f. FrameIs("connect", None, Idle)
    BY DEF FrameIs
  <2>2. Callable("gateway", r, TRUE) /\ ~r.locked
    BY <1>1, <2>f, <1>i, FrameFits
  <2> HIDE DEF r
  <2> QED BY <1>1, <2>1, <2>2, BeginsRevoking
<1>3. CASE robot_disconnected
  <2> DEFINE p == [Idle EXCEPT !.what = conn]
             r == Framed(p, "disconnect", None)
  <2>1. p \in Tasks /\ ~p.locked
    BY IdleIs DEF Tasks, Whats, IInv, OtherTypes
  <2>2. [Idle EXCEPT !.what = conn, !.stack = Frame("disconnect", None)] = r
    BY IdleIs DEF Tasks, Framed
  <2>3. /\ Begins("robot") /\ revoke("robot", r, owner, TRUE, FALSE)
        /\ owners' = owners /\ applied' = applied /\ active' = active /\ used' = used /\ robot' = robot
    BY <1>3, <2>2 DEF robot_disconnected, entryVars
  <2> HIDE DEF p
  <2>f. FrameIs("disconnect", None, p)
    BY DEF FrameIs
  <2>4. Callable("robot", r, TRUE) /\ ~r.locked
    BY <1>1, <2>1, <2>f, FrameFits
  <2> HIDE DEF r
  <2> QED BY <1>1, <2>3, <2>4, BeginsRevoking
<1> QED BY <1>2, <1>3

LEMMA UnknownKeeps == ASSUME IInv, NEW i \in Command, ResultUnknown(i) PROVE Core'
<1> DEFINE r == Framed(Idle, "uncertain", i)
<1>i. Idle \in Tasks /\ ~Idle.locked
  BY IdleIs
<1>1. /\ Begins("robot") /\ revoke("robot", r, owner, FALSE, FALSE)
      /\ owners' = owners /\ applied' = applied /\ active' = active /\ used' = used /\ robot' = robot
  BY DEF ResultUnknown, Replies, entryVars, Framed
<1>2. "robot" \in Task /\ "robot" # "timer"
  BY Constants DEF Gateway
<1>f. FrameIs("uncertain", i, Idle)
  BY DEF FrameIs
<1>3. Callable("robot", r, FALSE) /\ ~r.locked
  BY <1>2, <1>f, <1>i, FrameFits
<1> HIDE DEF r
<1> QED BY <1>1, <1>2, <1>3, BeginsRevoking

----------------------------------------------------------------------------
(* The handlers that wait for a frame.                                     *)

\* The send lock is released.
Released(s, t) == [owner EXCEPT ![s].send_lock = IF @ = t THEN None ELSE @]

LEMMA ReleasedIs ==
  ASSUME IInv, NEW t \in Task, NEW s \in Start
  PROVE  LET ow == Released(s, t) IN
         /\ ow \in [Start -> Owner]
         /\ \A x \in Start : Later(owner[x], ow[x]) /\ ow[x].phase = owner[x].phase
<1> DEFINE k == IF owner[s].send_lock = t THEN None ELSE owner[s].send_lock
           p == [owner[s] EXCEPT !.send_lock = k]
           ow == [owner EXCEPT ![s] = p]
<1>1. owner \in [Start -> Owner] /\ owner[s] \in Owner
  BY CoreIs
<1>2. k \in Task \cup {None}
  BY <1>1 DEF Owner
<1> HIDE DEF k
<1>3. Later(owner[s], p) /\ p.phase = owner[s].phase
  BY <1>1, <1>2, EditIs
<1> HIDE DEF p
<1>4. ow \in [Start -> Owner] /\ ow[s] = p /\ \A x \in Start \ {s} : ow[x] = owner[x]
  BY <1>1, <1>3 DEF Later
<1>5. Released(s, t) = ow
  BY DEF Released, ow, p, k
<1> HIDE DEF ow
<1> QED BY <1>1, <1>3, <1>4, <1>5, LaterIs

LEMMA VelocityEndKeeps == ASSUME IInv, NEW c \in Client, VelocityEnd(c) PROVE Core'
<1> DEFINE s == task[c].own
           ow == Released(s, c)
<1>1. /\ c \in Task /\ c # "timer" /\ FALSE \in BOOLEAN /\ TRUE \in BOOLEAN
  BY Constants DEF Gateway
<1>2. /\ \/ task[c].at = "vel" /\ task[c].what # 0 /\ owner' = ow /\ task' = [task EXCEPT ![c] = Idle]
         \/ task[c].at = "vel" /\ revoke(c, Idle, ow, TRUE, TRUE)
         \/ task[c].at \in Driving /\ revoke(c, Idle, ow, TRUE, FALSE)
      /\ owners' = owners /\ applied' = applied /\ active' = active /\ used' = used /\ robot' = robot
  BY DEF VelocityEnd, Released, entryVars, Driving
<1>3. task[c].at \in Driving
  BY <1>2 DEF Driving
<1>4. s \in Start
  BY <1>1, <1>3, CoreIs DEF TaskFits, Tasks
<1> HIDE DEF s
<1>5. ow \in [Start -> Owner] /\ \A x \in Start : Later(owner[x], ow[x]) /\ ow[x].phase = owner[x].phase
  BY <1>1, <1>4, ReleasedIs
<1> HIDE DEF ow
<1>6. task[c].at \notin Zeroing \cup {"s_audit"}
  BY <1>3 DEF Driving, Zeroing
<1>7. CASE task[c].at = "vel" /\ task[c].what # 0 /\ owner' = ow /\ task' = [task EXCEPT ![c] = Idle]
  BY <1>1, <1>2, <1>5, <1>6, <1>7, EndKeeps DEF Tied
<1>8. Callable(c, Idle, TRUE) /\ ~Idle.locked
  BY <1>1, IdleIs, IdleCalls
<1>9. CASE revoke(c, Idle, ow, TRUE, TRUE)
  BY <1>1, <1>2, <1>5, <1>6, <1>8, <1>9, RevokeKeeps
<1>10. CASE revoke(c, Idle, ow, TRUE, FALSE)
  BY <1>1, <1>2, <1>5, <1>6, <1>8, <1>10, RevokeKeeps
<1> QED BY <1>2, <1>7, <1>9, <1>10

LEMMA ZeroEndKeeps == ASSUME IInv, NEW t \in Task, ZeroEnd(t) PROVE Core'
<1> DEFINE s == task[t].own
           ow == Released(s, t)
           failed == [ow EXCEPT ![s].phase = "unknown"]
<1>1. /\ \/ task[t].at = "zero" /\ IssueStop(t, task[t], s, ow, rev_ok)
         \/ task[t].at \in Zeroing /\ IssueStop(t, task[t], s, failed, rev_ok)
      /\ owners' = owners /\ applied' = applied /\ active' = active /\ used' = used /\ robot' = robot
  BY DEF ZeroEnd, Released, entryVars, Zeroing
<1>2. task[t].at \in Zeroing
  BY <1>1 DEF Zeroing
<1>3. /\ s \in Start /\ TaskFits(t, task[t])
      /\ task[t] \in Tasks /\ task[t].issue \in BOOLEAN
  BY <1>2, CoreIs DEF TaskFits, Tasks
<1>4. Callable(t, task[t], task[t].issue)
  BY <1>2, <1>3 DEF TaskFits, Callable, Depth
<1>5. ow \in [Start -> Owner] /\ \A x \in Start : Later(owner[x], ow[x]) /\ ow[x].phase = owner[x].phase
  BY <1>3, ReleasedIs
<1>t. task[t].at # "s_audit" /\ task[t].at # "vel"
  BY <1>2 DEF Zeroing
<1>6. ASSUME NEW ot \in [Start -> Owner], \A x \in Start : Later(owner[x], ot[x]),
             IssueStop(t, task[t], s, ot, rev_ok),
             ot[s].phase = "closing" => task[t].at = "zero",
             \A x \in Start : ot[x].phase = "closing" => owner[x].phase = "closing"
      PROVE  Core'
  <2>1. PICK q \in Tasks : Waits(t, task[t], q, ot)
    BY <1>3, <1>4, <1>6, CoreIs, IssueStopIs
  <2>2. Tied
    BY <1>1, <1>6, <2>1, LaterIs DEF Waits, Tied
  <2>3. owners # None /\ owner'[owners].phase = "closing" =>
       \/ q.own = owners \/ owner'[owners].stop_issued
       \/ owner[owners].phase = "closing" /\ (task[t].at = "zero_q" => task[t].own # owners)
    <3> SUFFICES ASSUME owners # None, owner'[owners].phase = "closing", q.own # owners,
                        ~owner'[owners].stop_issued
                 PROVE  owner[owners].phase = "closing" /\ (task[t].at = "zero_q" => task[t].own # owners)
      OBVIOUS
    <3>1. owners \in Start /\ ot[owners].phase = "closing"
      BY <2>1, CoreIs DEF Waits
    <3> QED BY <1>6, <3>1
  <2>4. t = "timer" => q.what \in active \cup {None}
    BY <2>1 DEF Waits, IInv, Core, TimerFits
  <2>5. Moved(t, q)
    BY <1>t, <2>1, <2>2, <2>3, <2>4 DEF Waits, Moved, Zeroing
  <2> QED BY <2>5, MovedKeeps
<1>7. CASE task[t].at = "zero" /\ IssueStop(t, task[t], s, ow, rev_ok)
  BY <1>5, <1>6, <1>7
<1>8. CASE task[t].at \in Zeroing /\ IssueStop(t, task[t], s, failed, rev_ok)
  <2> HIDE DEF s, ow
  <2> DEFINE p == [ow[s] EXCEPT !.phase = "unknown"]
  <2>1. ow[s] \in Owner
    BY <1>3, <1>5
  <2>2. Later(ow[s], p) /\ p.phase = "unknown"
    BY <2>1, EditIs DEF Phase, Open
  <2> HIDE DEF p
  <2>3. failed \in [Start -> Owner] /\ failed[s] = p /\ \A x \in Start \ {s} : failed[x] = ow[x]
    <3>1. failed = [ow EXCEPT ![s] = p]
      BY DEF failed, p
    <3>2. p \in Owner
      BY <2>2 DEF Later
    <3> QED BY <1>3, <1>5, <3>1, <3>2
  <2> HIDE DEF failed
  <2>4. \A x \in Start : Later(owner[x], failed[x]) /\ (failed[x].phase = "closing" => owner[x].phase = "closing")
    BY <1>5, <2>2, <2>3, LaterIs
  <2>5. failed[s].phase # "closing"
    BY <1>3, <2>2, <2>3
  <2> QED BY <1>6, <1>8, <2>3, <2>4, <2>5 DEF s
<1> QED BY <1>1, <1>7, <1>8

----------------------------------------------------------------------------
(* The handlers of starts, stops and resets.                               *)

LEMMA StartAdmitKeeps == ASSUME IInv, NEW c \in Client, StartAdmit(c) PROVE Core'
<1> DEFINE held == [task[c] EXCEPT !.locked = TRUE, !.what = None]
           q == [held EXCEPT !.at = "s_lookup"]
<1>1. /\ c \in Task /\ c # "timer" /\ FALSE \in BOOLEAN
  BY Constants DEF Gateway
<1>2. /\ task[c].at = "waiting" /\ LockFree
      /\ \/ revoke(c, held, owner, TRUE, FALSE)
         \/ owner' = owner /\ task' = [task EXCEPT ![c] = q]
         \/ owner' = owner /\ task' = [task EXCEPT ![c] = Idle]
      /\ owners' = owners /\ applied' = applied /\ active' = active /\ used' = used /\ robot' = robot
  BY DEF StartAdmit, entryVars
<1>3. /\ TaskFits(c, task[c]) /\ task[c] \in Tasks /\ owner \in [Start -> Owner]
      /\ \A x \in Start : Later(owner[x], owner[x]) /\ owner[x].phase = owner[x].phase
  BY <1>1, CoreIs, LaterIs DEF TaskFits
<1>4. StackFits(task[c], 0)
  BY <1>2, <1>3 DEF TaskFits, Depth, Zeroing, Stopping
<1>5. task[c].at \notin Zeroing \cup {"s_audit"} /\ task[c].at # "vel"
  BY <1>2 DEF Zeroing
<1>6. /\ held \in Tasks /\ held.stack = task[c].stack /\ held.at = "waiting" /\ held.id = task[c].id
      /\ held.own = task[c].own /\ held.locked
  BY <1>2, <1>3 DEF Tasks, Whats
<1>7. CASE revoke(c, held, owner, TRUE, FALSE)
  <2> HIDE DEF held
  <2>1. StackFits(held, 0) /\ 0 \in {0, 1, 2} /\ 0 <= 1
    BY <1>4, <1>6 DEF StackFits
  <2>2. Callable(c, held, TRUE)
    BY <1>1, <1>6, <2>1, FitsDeeper
  <2> QED BY <1>1, <1>2, <1>3, <1>5, <1>7, <2>2, RevokeKeeps
<1>8. CASE owner' = owner /\ task' = [task EXCEPT ![c] = q]
  <2> HIDE DEF held
  <2>1. /\ q \in Tasks /\ q.at = "s_lookup" /\ q.stack = task[c].stack /\ q.id = task[c].id /\ q.own = task[c].own
          /\ q.locked
    BY <1>6 DEF Tasks, At
  <2> HIDE DEF q
  <2>2. Depth(q) = 0
    BY <2>1 DEF Depth, Zeroing, Stopping
  <2>3. StackFits(q, Depth(q))
    <3>1. StackFits(q, 0)
      <4>1. \A n \in 1 .. Len(q.stack) : FALSE
        BY <1>4, <2>1 DEF StackFits
      <4> QED BY <1>4, <2>1, <4>1 DEF StackFits
    <3> QED BY <2>2, <3>1
  <2>4. q.own = None
    BY <1>2, <1>3, <2>1 DEF TaskFits, Zeroing, Driving
  <2>5. q.id \in Start /\ From[q.id] = c
    BY <1>2, <1>3, <2>1 DEF TaskFits, Starting
  <2>6. TaskFits(c, q)
    BY <2>1, <2>3, <2>4, <2>5 DEF TaskFits, Zeroing, Driving, Starting, Stopping
  <2>7. ~Resets(q)
    BY <1>4, <2>1 DEF Resets, StackFits
  <2>8. Tied
    BY <1>2, <1>3, <1>8 DEF Tied
  <2>9. Moved(c, q)
    BY <1>1, <1>2, <1>5, <1>8, <2>1, <2>4, <2>6, <2>7, <2>8, SameOwner DEF Moved, Driving, Zeroing
  <2> QED BY <1>1, <2>1, <2>9, MovedKeeps
<1>9. CASE owner' = owner /\ task' = [task EXCEPT ![c] = Idle]
  BY <1>1, <1>2, <1>5, <1>9, SameOwner, EndKeeps DEF Tied
<1> QED BY <1>2, <1>7, <1>8, <1>9

LEMMA ResetsLocked == ASSUME NEW t \in Task, NEW r, TaskFits(t, r), Resets(r) PROVE r.locked
BY DEF TaskFits, StackFits, Resets

\* The gateway's own tasks never hold the admission lock.
LEMMA GatewayFree ==
  ASSUME IInv, NEW t \in Gateway
  PROVE  t \in Task /\ t \notin Client /\ task[t] \in Tasks /\ TaskFits(t, task[t]) /\ ~task[t].locked
<1>1. t \in Task /\ t \notin Client
  BY Constants
<1> QED BY <1>1, CoreIs DEF TaskFits

LEMMA StartSendKeeps == ASSUME IInv, NEW c \in Client, StartSend(c) PROVE Core'
<1> DEFINE r == Framed(task[c], "uncertain", task[c].id)
<1>1. /\ c \in Task /\ c # "timer"
  BY Constants DEF Gateway
<1>2. /\ task[c].at = "s_send"
      /\ \/ task' = [task EXCEPT ![c] = Idle] /\ owner' = owner
         \/ revoke(c, r, owner, FALSE, FALSE)
      /\ owners' = owners /\ applied' = applied /\ active' = active /\ used' = used /\ robot' = robot
  BY DEF StartSend, entryVars, Framed
<1>3. /\ TaskFits(c, task[c]) /\ task[c] \in Tasks /\ owner \in [Start -> Owner] /\ owner = owner
      /\ \A x \in Start : Later(owner[x], owner[x]) /\ owner[x].phase = owner[x].phase
  BY <1>1, CoreIs, LaterIs DEF TaskFits
<1>4. task[c].at \notin Zeroing \cup {"s_audit"} /\ task[c].at # "vel"
  BY <1>2 DEF Zeroing
<1>5. CASE task' = [task EXCEPT ![c] = Idle] /\ owner' = owner
  BY <1>1, <1>2, <1>4, <1>5, SameOwner, EndKeeps DEF Tied
<1>6. CASE revoke(c, r, owner, FALSE, FALSE)
  <2>1. task[c].id \in Start /\ task[c].id \in Command
    BY <1>2, <1>3, Constants DEF TaskFits, Starting
  <2>2. FrameIs("uncertain", task[c].id, task[c])
    BY <2>1 DEF FrameIs
  <2>3. Callable(c, r, FALSE) /\ (r.locked => task[c].locked)
    BY <1>1, <1>3, <2>2, FrameFits
  <2> HIDE DEF r
  <2> QED BY <1>1, <1>2, <1>3, <1>4, <1>6, <2>3, RevokeKeeps
<1> QED BY <1>2, <1>5, <1>6

LEMMA StopLookupKeeps == ASSUME IInv, NEW t \in Task, StopLookup(t) PROVE Core'
<1> DEFINE q == [task[t] EXCEPT !.at = "t_audit", !.session = conn]
<1>1. /\ task[t].at = "t_lookup"
      /\ \/ task' = [task EXCEPT ![t] = q]
         \/ Return(t, task[t])
      /\ owner' = owner
      /\ owners' = owners /\ applied' = applied /\ active' = active /\ used' = used /\ robot' = robot
  BY DEF StopLookup, entryVars
<1>2. Tied /\ \A x \in Start : owner'[x].phase = "closing" => owner[x].phase = "closing"
  BY <1>1, SameOwner DEF Tied
<1>3. CASE Return(t, task[t])
  BY <1>1, <1>2, <1>3, ReturnKeeps DEF Stopping
<1>4. CASE task' = [task EXCEPT ![t] = q]
  <2>1. TaskFits(t, task[t]) /\ task[t] \in Tasks /\ conn \in Nat
    BY CoreIs DEF TaskFits, IInv, OtherTypes
  <2>2. /\ q \in Tasks /\ q.at = "t_audit" /\ q.stack = task[t].stack /\ q.own = task[t].own /\ q.id = task[t].id
        /\ q.what = task[t].what /\ (q.locked <=> task[t].locked) /\ q.issue = task[t].issue
    BY <2>1 DEF Tasks, At
  <2> HIDE DEF q
  <2>3. Depth(q) = 1 /\ Depth(task[t]) = 1
    BY <1>1, <2>2 DEF Depth, Zeroing, Stopping
  <2>4. \A n \in 1 .. Len(task[t].stack) : task[t].stack[n].at = "r_lookup" => q.locked
    BY <1>1, <2>1, <2>2 DEF TaskFits, StackFits, Tasks
  <2>5. StackFits(q, Depth(q))
    BY <2>1, <2>2, <2>3, <2>4 DEF TaskFits, StackFits
  <2>6. TaskFits(t, q)
    BY <1>1, <2>1, <2>2, <2>5 DEF TaskFits, Zeroing, Driving, Starting, Stopping
  <2>7. Resets(q) => Resets(task[t])
    BY <2>2 DEF Resets
  <2>8. /\ task[t].at \notin Zeroing \cup Driving \cup {"s_audit"}
        /\ q.at \notin Zeroing \cup Driving \cup Starting
    BY <1>1, <2>2 DEF Zeroing, Driving, Starting
  <2>9. t = "timer" => q.what \in active \cup {None}
    BY <2>2 DEF IInv, Core, TimerFits
  <2> QED BY <1>2, <1>4, <2>2, <2>6, <2>7, <2>8, <2>9, NextKeeps
<1> QED BY <1>1, <1>3, <1>4

LEMMA StopSendKeeps == ASSUME IInv, NEW t \in Task, StopSend(t) PROVE Core'
<1> DEFINE i == task[t].id
           r == Called(task[t], "uncertain", i)
<1>1. /\ task[t].at = "t_send"
      /\ \/ Return(t, task[t]) /\ owner' = owner
         \/ revoke(t, r, owner, FALSE, FALSE)
      /\ owners' = owners /\ applied' = applied /\ active' = active /\ used' = used /\ robot' = robot
  BY DEF StopSend, entryVars, Called
<1>2. CASE Return(t, task[t]) /\ owner' = owner
  BY <1>1, <1>2, SameOwner, ReturnKeeps DEF Stopping, Tied
<1>3. CASE revoke(t, r, owner, FALSE, FALSE)
  <2>1. /\ TaskFits(t, task[t]) /\ task[t] \in Tasks /\ owner \in [Start -> Owner]
        /\ \A x \in Start : Later(owner[x], owner[x]) /\ owner[x].phase = owner[x].phase
    BY CoreIs, LaterIs DEF TaskFits
  <2>2. StackFits(task[t], 1) /\ 1 \in {0, 1} /\ 1 + 1 = 2
    BY <1>1, <2>1 DEF TaskFits, Depth, Zeroing, Stopping
  <2>3. i \in StopId /\ i \in Command
    BY <1>1, <2>1 DEF TaskFits, Stopping, StopId
  <2> HIDE DEF i
  <2>4. "uncertain" \in Calls /\ "uncertain" # "t_lookup"
    BY DEF Calls
  <2>5. r \in Tasks /\ StackFits(r, 2) /\ r.what = task[t].what /\ r.locked = task[t].locked
    BY <2>1, <2>2, <2>3, <2>4, CallFits
  <2> HIDE DEF r
  <2>6. Callable(t, r, FALSE)
    BY <2>1, <2>5 DEF Callable, TaskFits
  <2>7. task[t].at \notin Zeroing \cup {"s_audit"}
    BY <1>1 DEF Zeroing
  <2>8. t = "timer" => r.what \in active \cup {None}
    BY <2>5 DEF IInv, Core, TimerFits
  <2>9. r.locked => task[t].locked
    BY <2>5
  <2> QED BY <1>1, <1>3, <2>1, <2>6, <2>7, <2>8, <2>9, RevokeKeeps DEF i
<1> QED BY <1>1, <1>2, <1>3

LEMMA UncertainKeeps == ASSUME IInv, NEW t \in Task, Uncertain(t) PROVE Core'
<1>1. /\ task[t].at = "uncertain" /\ Return(t, task[t])
      /\ \/ owner' = owner
         \/ owners # None /\ owner' = [owner EXCEPT ![owners].phase = "unknown"]
      /\ owners' = owners /\ applied' = applied /\ active' = active /\ used' = used /\ robot' = robot
  BY DEF Uncertain
<1>2. CASE owner' = owner
  BY <1>1, <1>2, SameOwner, ReturnKeeps DEF Stopping, Tied
<1>3. CASE owners # None /\ owner' = [owner EXCEPT ![owners].phase = "unknown"]
  <2> DEFINE p == [owner[owners] EXCEPT !.phase = "unknown"]
  <2>1. owners \in Start /\ owner \in [Start -> Owner] /\ owner[owners] \in Owner
    BY <1>3, CoreIs
  <2>2. Later(owner[owners], p) /\ p.phase = "unknown"
    BY <2>1, EditIs DEF Phase, Open
  <2>3. owner' = [owner EXCEPT ![owners] = p]
    BY <1>3
  <2> HIDE DEF p
  <2>4. owner' \in [Start -> Owner] /\ owner'[owners] = p /\ \A x \in Start \ {owners} : owner'[x] = owner[x]
    BY <2>1, <2>2, <2>3 DEF Later
  <2>5. Tied
    BY <1>1, <2>1, <2>2, <2>4, LaterIs DEF Tied
  <2>6. \A x \in Start : owner'[x].phase = "closing" => owner[x].phase = "closing"
    BY <2>2, <2>4
  <2> QED BY <1>1, <2>5, <2>6, ReturnKeeps DEF Stopping
<1> QED BY <1>1, <1>2, <1>3

LEMMA ResetLookupKeeps == ASSUME IInv, NEW c \in Client, ResetLookup(c) PROVE Core'
<1> DEFINE q == [task[c] EXCEPT !.at = "r_audit"]
<1>1. /\ task[c].at = "r_lookup" /\ owner' = owner
      /\ task' = [task EXCEPT ![c] = q] \/ task' = [task EXCEPT ![c] = Idle]
      /\ owners' = owners /\ applied' = applied /\ active' = active /\ used' = used /\ robot' = robot
  BY DEF ResetLookup, entryVars
<1>2. Tied /\ \A x \in Start : owner'[x].phase = "closing" => owner[x].phase = "closing"
  BY <1>1, SameOwner DEF Tied
<1>3. /\ c \in Task /\ c # "timer" /\ TaskFits(c, task[c]) /\ task[c] \in Tasks
  BY Constants, CoreIs DEF Gateway, TaskFits
<1>4. CASE task' = [task EXCEPT ![c] = Idle]
  BY <1>1, <1>2, <1>3, <1>4, EndKeeps DEF Zeroing
<1>5. CASE task' = [task EXCEPT ![c] = q]
  <2>1. /\ q \in Tasks /\ q.at = "r_audit" /\ q.stack = task[c].stack /\ q.own = task[c].own
        /\ q.locked /\ task[c].locked
    BY <1>1, <1>3 DEF Tasks, At, TaskFits
  <2> HIDE DEF q
  <2>2. Depth(q) = 0 /\ Depth(task[c]) = 0
    BY <1>1, <2>1 DEF Depth, Zeroing, Stopping
  <2>3. StackFits(q, Depth(q))
    BY <1>3, <2>1, <2>2 DEF TaskFits, StackFits
  <2>4. TaskFits(c, q)
    BY <1>1, <1>3, <2>1, <2>3 DEF TaskFits, Zeroing, Driving, Starting, Stopping
  <2>5. Resets(task[c])
    BY <1>1 DEF Resets
  <2>6. /\ task[c].at \notin Zeroing \cup Driving \cup {"s_audit"}
        /\ q.at \notin Zeroing \cup Driving \cup Starting
    BY <1>1, <2>1 DEF Zeroing, Driving, Starting
  <2> QED BY <1>2, <1>3, <1>5, <2>1, <2>4, <2>5, <2>6, NextKeeps
<1> QED BY <1>1, <1>4, <1>5

----------------------------------------------------------------------------
(* The robot's connection.                                                 *)

\* The gateway's task goes on to changed.
Changing(r) == [r EXCEPT !.at = "changed"]

LEMMA ChangingFits ==
  ASSUME NEW t \in Gateway, NEW r \in Tasks, StackFits(r, 1), ~r.locked, r.own = None
  PROVE  LET q == Changing(r) IN
         /\ q \in Tasks /\ TaskFits(t, q) /\ ~q.locked /\ ~Resets(q) /\ q.at = "changed"
<1> DEFINE q == Changing(r)
<1>1. q \in Tasks /\ q.at = "changed" /\ q.stack = r.stack /\ q.own = r.own /\ (q.locked <=> r.locked)
  BY DEF Changing, Tasks, At
<1> HIDE DEF q
<1>2. Depth(q) = 1
  BY <1>1 DEF Depth, Zeroing, Stopping
<1>3. StackFits(q, Depth(q))
  BY <1>1, <1>2 DEF StackFits
<1>4. TaskFits(t, q)
  BY <1>1, <1>3 DEF TaskFits, Zeroing, Driving, Starting, Stopping
<1>5. t \in Task
  BY Constants
<1>6. ~Resets(q)
  BY <1>1, <1>4, <1>5, ResetsLocked
<1> QED BY <1>1, <1>4, <1>6 DEF q

LEMMA ChangingKeeps ==
  ASSUME IInv, NEW t \in Gateway \ {"timer"}, NEW r \in Tasks, StackFits(r, 1), ~r.locked, r.own = None,
         task' = [task EXCEPT ![t] = Changing(r)], owner' = owner,
         task[t].at \in {"idle", "connect", "disconnect"},
         owners' = owners, applied' = applied, active' = active, used' = used, robot' = robot
  PROVE  Core'
<1> DEFINE q == Changing(r)
<1>1. q \in Tasks /\ TaskFits(t, q) /\ ~q.locked /\ ~Resets(q) /\ q.at = "changed"
  BY ChangingFits
<1> HIDE DEF q
<1>2. Tied /\ \A x \in Start : owner'[x].phase = "closing" => owner[x].phase = "closing"
  BY SameOwner DEF Tied
<1>3. t \in Task /\ t # "timer"
  BY Constants
<1>4. task' = [task EXCEPT ![t] = q]
  BY DEF q
<1>5. /\ task[t].at \notin Zeroing \cup Driving \cup {"s_audit"}
      /\ q.at \notin Zeroing \cup Driving \cup Starting
  BY <1>1 DEF Zeroing, Driving, Starting
<1> QED BY <1>1, <1>2, <1>3, <1>4, <1>5, NextKeeps

LEMMA TelemetryKeeps == ASSUME IInv, NEW b, NEW ok, NEW p, Telemetry(b, ok, p) PROVE Core'
<1>1. /\ Begins("robot") /\ task' = [task EXCEPT !["robot"] = Changing(Idle)] /\ owner' = owner
      /\ owners' = owners /\ applied' = applied /\ active' = active /\ used' = used /\ robot' = robot
  BY DEF Telemetry, entryVars, Changing
<1>2. "robot" \in Gateway \ {"timer"}
  BY DEF Gateway
<1>3. Idle \in Tasks /\ ~Idle.locked /\ Idle.own = None /\ task["robot"].at = "idle"
  BY <1>1, IdleIs DEF Begins
<1>4. StackFits(Idle, 1)
  BY IdleIs DEF StackFits
<1> QED BY <1>1, <1>2, <1>3, <1>4, ChangingKeeps

LEMMA ConnectedKeeps == ASSUME IInv, Connected PROVE Core'
<1> DEFINE r == Framed(task["gateway"], "hello", None)
<1>1. /\ "gateway" \in Gateway \ {"timer"} /\ "gateway" \in Gateway
  BY DEF Gateway
<1>2. /\ "gateway" \in Task /\ task["gateway"] \in Tasks /\ TaskFits("gateway", task["gateway"])
      /\ ~task["gateway"].locked
  BY <1>1, GatewayFree
<1>3. /\ task["gateway"].at = "connect" /\ owner' = owner
      /\ task' = [task EXCEPT !["gateway"] = Changing(r)]
      /\ owners' = owners /\ applied' = applied /\ active' = active /\ used' = used /\ robot' = robot
  <2>1. /\ task["gateway"].at = "connect" /\ owner' = owner
        /\ task' = [task EXCEPT !["gateway"] =
                     [task["gateway"] EXCEPT !.at = "changed", !.stack = Frame("hello", None)]]
        /\ owners' = owners /\ applied' = applied /\ active' = active /\ used' = used /\ robot' = robot
    BY DEF Connected, entryVars
  <2>2. [task["gateway"] EXCEPT !.at = "changed", !.stack = Frame("hello", None)] = Changing(r)
    BY <1>2 DEF Tasks, Changing, Framed
  <2> QED BY <2>1, <2>2
<1>4. FrameIs("hello", None, task["gateway"])
  BY DEF FrameIs
<1>5. r \in Tasks /\ StackFits(r, 1) /\ (r.locked => task["gateway"].locked) /\ r.own = task["gateway"].own
  BY <1>2, <1>4, FrameFits
<1>6. task["gateway"].own = None
  BY <1>2, <1>3 DEF TaskFits, Zeroing, Driving
<1> HIDE DEF r
<1> QED BY <1>1, <1>2, <1>3, <1>5, <1>6, ChangingKeeps

LEMMA DisconnectedKeeps == ASSUME IInv, Disconnected PROVE Core'
<1>1. /\ "robot" \in Gateway \ {"timer"} /\ "robot" \in Gateway
  BY DEF Gateway
<1>2. /\ "robot" \in Task /\ task["robot"] \in Tasks /\ TaskFits("robot", task["robot"])
      /\ ~task["robot"].locked
  BY <1>1, GatewayFree
<1>3. /\ task["robot"].at = "disconnect" /\ owner' = owner
      /\ task' = [task EXCEPT !["robot"] = Changing(task["robot"])]
      /\ owners' = owners /\ applied' = applied /\ active' = active /\ used' = used /\ robot' = robot
  BY DEF Disconnected, entryVars, Changing
<1>4. StackFits(task["robot"], 1) /\ task["robot"].own = None
  <2>1. StackFits(task["robot"], 0)
    BY <1>2, <1>3 DEF TaskFits, Depth, Zeroing, Stopping
  <2> QED BY <1>2, <1>3, <2>1 DEF StackFits, TaskFits, Zeroing, Driving
<1> QED BY <1>1, <1>2, <1>3, <1>4, ChangingKeeps

LEMMA HelloKeeps == ASSUME IInv, Hello PROVE Core'
<1>1. "gateway" \in Task
  BY Constants DEF Gateway
<1>2. /\ task["gateway"].at = "hello" /\ owner' = owner /\ task' = [task EXCEPT !["gateway"] = Idle]
      /\ owners' = owners /\ applied' = applied /\ active' = active /\ used' = used /\ robot' = robot
  BY DEF Hello, entryVars
<1> QED BY <1>1, <1>2, SameOwner, EndKeeps DEF Tied, Zeroing

LEMMA ChangedKeeps == ASSUME IInv, NEW t \in Task, Changed(t) PROVE Core'
<1>1. /\ task[t].at = "changed"
      /\ \/ revoke(t, task[t], owner, TRUE, FALSE)
         \/ Return(t, task[t]) /\ owner' = owner
      /\ owners' = owners /\ applied' = applied /\ active' = active /\ used' = used /\ robot' = robot
  BY DEF Changed, changed, entryVars
<1>2. CASE Return(t, task[t]) /\ owner' = owner
  BY <1>1, <1>2, SameOwner, ReturnKeeps DEF Stopping, Tied
<1>3. CASE revoke(t, task[t], owner, TRUE, FALSE)
  <2>1. /\ TaskFits(t, task[t]) /\ task[t] \in Tasks /\ owner \in [Start -> Owner] /\ FALSE \in BOOLEAN
        /\ \A x \in Start : Later(owner[x], owner[x]) /\ owner[x].phase = owner[x].phase
    BY CoreIs, LaterIs DEF TaskFits
  <2>2. StackFits(task[t], 1)
    BY <1>1, <2>1 DEF TaskFits, Depth, Zeroing, Stopping
  <2>3. Callable(t, task[t], TRUE)
    BY <2>1, <2>2 DEF Callable, TaskFits
  <2>4. task[t].at \notin Zeroing \cup {"s_audit"} /\ (t = "timer" => task[t].what \in active \cup {None})
    BY <1>1 DEF Zeroing, IInv, Core, TimerFits
  <2> QED BY <1>1, <1>3, <2>1, <2>3, <2>4, RevokeKeeps
<1> QED BY <1>1, <1>2, <1>3

\* Nobody's handler: a lease, a reading or the reset's end.
LEMMA EventKeeps ==
  ASSUME IInv, Quiet \/ Expire \/ ResetDone \/ (\E c \in Client : Disconnect(c)) \/ UNCHANGED vars
  PROVE  Core'
<1>1. CASE Expire \/ ResetDone \/ (\E c \in Client : Disconnect(c)) \/ UNCHANGED vars
  <2>1. /\ owner' = owner /\ task' = task
        /\ owners' = owners /\ applied' = applied /\ active' = active /\ used' = used /\ robot' = robot
    BY <1>1 DEF Expire, ResetDone, Disconnect, vars, entryVars
  <2> QED BY <2>1, SameOwner, StaysKeeps DEF Tied
<1>2. CASE Quiet
  <2> DEFINE p == [owner[owners] EXCEPT !.quiet = TRUE]
  <2>1. /\ owners # None /\ owner' = [owner EXCEPT ![owners] = p] /\ task' = task
        /\ owners' = owners /\ applied' = applied /\ active' = active /\ used' = used /\ robot' = robot
    BY <1>2 DEF Quiet, entryVars
  <2>2. owners \in Start /\ owner \in [Start -> Owner] /\ owner[owners] \in Owner
    BY <2>1, CoreIs
  <2>3. Later(owner[owners], p) /\ p.phase = owner[owners].phase
    BY <2>2, EditIs
  <2> HIDE DEF p
  <2>4. owner' \in [Start -> Owner] /\ owner'[owners] = p /\ \A x \in Start \ {owners} : owner'[x] = owner[x]
    BY <2>1, <2>2, <2>3 DEF Later
  <2>5. Tied /\ \A x \in Start : owner'[x].phase = "closing" => owner[x].phase = "closing"
    BY <2>1, <2>2, <2>3, <2>4, LaterIs DEF Tied
  <2> QED BY <2>1, <2>5, StaysKeeps
<1> QED BY <1>1, <1>2

LEMMA AcceptedKeeps == ASSUME IInv, NEW i \in Command, Accepted(i) PROVE Core'
<1>1. /\ Begins("robot") /\ robot[i] \in {"sent", "accepted"} /\ robot' = [robot EXCEPT ![i] = "accepted"]
      /\ owners' = owners /\ applied' = applied /\ active' = active /\ used' = used
  BY DEF Accepted, Replies
<1>2. \A s \in Start : robot'[s] # robot[s] => robot[s] \in {"sent", "accepted"}
  BY <1>1 DEF IInv, OtherTypes
<1>3. "robot" \in Task /\ "robot" # "timer"
  BY Constants DEF Gateway
<1>4. CASE task' = task /\ owner' = owner
  BY <1>1, <1>2, <1>4, SameOwner, StaysKeeps DEF Tied
<1>5. CASE revoke("robot", Idle, owner, TRUE, FALSE)
  <2>1. Callable("robot", Idle, TRUE) /\ ~Idle.locked
    BY <1>3, IdleIs, IdleCalls
  <2> QED BY <1>1, <1>2, <1>3, <1>5, <2>1, BeginsRevoking
<1>6. CASE /\ i \in Start /\ Opened(i)
           /\ owner' = [owner EXCEPT ![i].phase = "active",
                            ![i].quiet = IF owner[i].phase = "pending" THEN FALSE ELSE @]
           /\ task' = task
  <2> DEFINE p == [owner[i] EXCEPT !.phase = "active",
                                   !.quiet = IF owner[i].phase = "pending" THEN FALSE ELSE @]
  <2>1. owner \in [Start -> Owner] /\ owner[i] \in Owner /\ owner[i].phase \in Open
    BY <1>6, CoreIs DEF Opened
  <2>2. Later(owner[i], p) /\ p.phase = "active"
    BY <2>1 DEF Later, Owner, Phase, Open
  <2>3. owner' = [owner EXCEPT ![i] = p]
    BY <1>6, <2>1
  <2> HIDE DEF p
  <2>4. owner' \in [Start -> Owner] /\ owner'[i] = p /\ \A x \in Start \ {i} : owner'[x] = owner[x]
    BY <1>6, <2>1, <2>2, <2>3 DEF Later
  <2>5. Tied /\ \A x \in Start : owner'[x].phase = "closing" => owner[x].phase = "closing"
    BY <1>1, <1>2, <2>1, <2>2, <2>4, LaterIs DEF Tied
  <2> QED BY <1>6, <2>5, StaysKeeps
<1>7. \/ task' = task /\ owner' = owner
      \/ revoke("robot", Idle, owner, TRUE, FALSE)
      \/ /\ i \in Start /\ Opened(i)
         /\ owner' = [owner EXCEPT ![i].phase = "active",
                            ![i].quiet = IF owner[i].phase = "pending" THEN FALSE ELSE @]
         /\ task' = task
  BY DEF Accepted
<1> QED BY <1>4, <1>5, <1>6, <1>7

----------------------------------------------------------------------------
(* Velocity frames.                                                        *)

\* The parts of the invariant in one state, as the steps below use them.
LEMMA CoreParts ==
  Core => /\ TaskTypes /\ OwnerTypes /\ OneLock /\ OpenIsOwned /\ Untouched /\ AtRobot /\ Writers /\ Halted
          /\ Counted /\ Told /\ TimerFits
BY DEF Core

\* Who writes to a session, and that the session exists.
LEMMA WriterIs ==
  ASSUME IInv, NEW t \in Task, task[t].at \in Zeroing \cup Driving
  PROVE  LET s == task[t].own IN
         /\ s \in Start /\ s \in used /\ s # None /\ TaskFits(t, task[t])
         /\ task[t].at \in Driving => t \in Client /\ owner[s].client = t /\ task[t].what \in Nat
         /\ task[t].at \in Zeroing => owner[s].phase \notin Open
         /\ \A u \in Task : ~(task[u].at \in {"waiting", "s_lookup"} /\ task[u].id = s)
<1>1. TaskFits(t, task[t])
  BY CoreIs
<1>2. task[t].own # None /\ task[t].own \in Start
  BY <1>1 DEF TaskFits, Tasks
<1>3. Untouched /\ Writers
  BY DEF IInv, Core
<1> QED BY <1>1, <1>2, <1>3 DEF Untouched, Writers, TaskFits

\* A frame is handed to the socket: the owner changes its lock, t goes on.
LEMMA SocketKeeps ==
  ASSUME IInv, NEW t \in Task, NEW q \in Tasks, NEW p \in Owner, NEW s \in Start, s = task[t].own,
         task[t].at \in {"zero_q", "vel_q"}, q = [task[t] EXCEPT !.at = IF task[t].at = "zero_q" THEN "zero" ELSE "vel"],
         p = [owner[s] EXCEPT !.send_lock = t],
         task' = [task EXCEPT ![t] = q], owner' = [owner EXCEPT ![s] = p],
         owners' = owners, active' = active, used' = used, robot' = robot,
         \A x \in Start \ {s} : applied'[x] = applied[x]
  PROVE  /\ TaskTypes' /\ OwnerTypes' /\ OneLock' /\ OpenIsOwned' /\ Untouched' /\ AtRobot' /\ Writers' /\ Counted'
         /\ TimerFits'
         /\ task'[t] = q /\ \A u \in Task \ {t} : task'[u] = task[u]
         /\ \A x \in Start : /\ owner'[x].client = owner[x].client /\ owner'[x].seq = owner[x].seq
                             /\ owner'[x].start_terminal = owner[x].start_terminal
                             /\ owner'[x].stop_ids = owner[x].stop_ids
                             /\ owner'[x].phase = owner[x].phase
                             /\ owner'[x].stop_issued = owner[x].stop_issued
         /\ q.own = s /\ q.what = task[t].what /\ q.at = IF task[t].at = "zero_q" THEN "zero" ELSE "vel"
<1>0. Core
  BY DEF IInv
<1>1. /\ task \in [Task -> Tasks] /\ owner \in [Start -> Owner] /\ owners \in Start \cup {None}
      /\ \A u \in Task : TaskFits(u, task[u])
  BY CoreIs
<1>2. /\ q.own = s /\ q.what = task[t].what /\ q.at = IF task[t].at = "zero_q" THEN "zero" ELSE "vel"
      /\ q.stack = task[t].stack /\ q.id = task[t].id /\ (q.locked <=> task[t].locked) /\ q.issue = task[t].issue
  BY <1>1 DEF Tasks
<1>3. /\ p.client = owner[s].client /\ p.seq = owner[s].seq /\ p.start_terminal = owner[s].start_terminal
      /\ p.stop_ids = owner[s].stop_ids /\ p.phase = owner[s].phase /\ p.stop_issued = owner[s].stop_issued
  BY <1>1 DEF Owner
<1>4. task' \in [Task -> Tasks] /\ task'[t] = q /\ \A u \in Task \ {t} : task'[u] = task[u]
  BY <1>1
<1>5. owner' \in [Start -> Owner] /\ owner'[s] = p /\ \A x \in Start \ {s} : owner'[x] = owner[x]
  BY <1>1
<1>6. \A x \in Start : /\ owner'[x].client = owner[x].client /\ owner'[x].seq = owner[x].seq
                       /\ owner'[x].start_terminal = owner[x].start_terminal
                       /\ owner'[x].stop_ids = owner[x].stop_ids
                       /\ owner'[x].phase = owner[x].phase
                       /\ owner'[x].stop_issued = owner[x].stop_issued
  BY <1>3, <1>5
<1>7. \/ task[t].at = "zero_q" /\ q.at = "zero"
      \/ task[t].at = "vel_q" /\ q.at = "vel"
  BY <1>2
<1>8. TaskFits(t, q)
  <2>1. Depth(q) = Depth(task[t])
    BY <1>2, <1>7 DEF Depth, Zeroing, Stopping
  <2>2. StackFits(q, Depth(q))
    BY <1>1, <1>2, <2>1 DEF TaskFits, StackFits
  <2> QED BY <1>1, <1>2, <1>7, <2>2 DEF TaskFits, Zeroing, Driving, Starting, Stopping
<1>9. TaskTypes' /\ OwnerTypes'
  BY <1>1, <1>4, <1>5, <1>8 DEF TaskTypes, OwnerTypes
<1>10. OneLock' /\ TimerFits'
  BY <1>0, <1>2, <1>4, Constants DEF Core, OneLock, TimerFits, Gateway
<1>11. \A u \in Task : Resets(task'[u]) <=> Resets(task[u])
  <2>1. Resets(q) <=> Resets(task[t])
    BY <1>2, <1>7 DEF Resets
  <2> QED BY <1>4, <2>1
<1>12. OpenIsOwned'
  BY <1>0, <1>6, <1>11, Constants DEF Core, OpenIsOwned
<1>13. /\ \A u \in Task : task'[u].own = task[u].own
       /\ \A u \in Task : task'[u].at \in Starting <=> task[u].at \in Starting
       /\ \A u \in Task : task'[u].at \in Starting => task'[u] = task[u]
  <2>1. q.at \notin Starting /\ task[t].at \notin Starting
    BY <1>7 DEF Starting
  <2> QED BY <1>2, <1>4, <2>1
<1>14. Untouched'
  <2>1. s \in used /\ \A u \in Task : ~(task[u].at \in {"waiting", "s_lookup"} /\ task[u].id = s)
    <3>1. task[t].at \in Zeroing \cup Driving
      BY DEF Zeroing, Driving
    <3> QED BY <3>1, WriterIs
  <2>2. Untouched
    BY <1>0 DEF Core
  <2>3. \A u \in Task : task'[u].at \in {"waiting", "s_lookup", "s_audit"} => task'[u] = task[u]
    BY <1>13 DEF Starting
  <2> QED BY <1>13, <2>1, <2>2, <2>3 DEF Untouched
<1>15. AtRobot'
  BY <1>0, <1>6 DEF Core, AtRobot
<1>16. Writers'
  <2>1. \A u \in Task : task[u].at \in Zeroing \cup Driving => task[u].own \in Start
    BY WriterIs
  <2>2. \A u \in Task : /\ task'[u].at \in Driving <=> task[u].at \in Driving
                        /\ task'[u].at \in Zeroing <=> task[u].at \in Zeroing
    BY <1>4, <1>7 DEF Driving, Zeroing
  <2> QED BY <1>0, <1>6, <1>13, <2>1, <2>2 DEF Core, Writers
<1>17. Counted'
  <2>1. \A u \in Task : task[u].at = "s_audit" => task'[u] = task[u]
    BY <1>4, <1>7
  <2> QED BY <1>0, <1>1, <1>6, <2>1, Constants DEF Core, Counted
<1> QED BY <1>2, <1>4, <1>6, <1>9, <1>10, <1>12, <1>14, <1>15, <1>16, <1>17

LEMMA ZeroWriteKeeps == ASSUME IInv, NEW t \in Task, ZeroWrite(t) PROVE Core'
<1> DEFINE s == task[t].own
           q == [task[t] EXCEPT !.at = IF task[t].at = "zero_q" THEN "zero" ELSE "vel"]
           p == [owner[s] EXCEPT !.send_lock = t]
           n == owner[s].seq + 1
           a == [kind |-> "zero", seq |-> n, speed |-> 0]
<1>0. Core
  BY DEF IInv
<1>1. /\ task[t].at = "zero_q"
      /\ applied' = IF n > applied[s].seq THEN [applied EXCEPT ![s] = a] ELSE applied
      /\ owner' = [owner EXCEPT ![s] = p]
      /\ task' = [task EXCEPT ![t].at = "zero"]
      /\ owners' = owners /\ active' = active /\ used' = used /\ robot' = robot
  BY DEF ZeroWrite, Write, entryVars
<1>2. /\ s \in Start /\ owner[s].phase \notin Open /\ task[t] \in Tasks /\ s # None
      /\ owner[s] \in Owner /\ owners \in Start \cup {None} /\ owner[s].seq \in Nat
      /\ applied \in [Start -> Applied] /\ applied[s].seq \in Nat /\ applied[s].kind \in {"none", "drive", "zero"}
  <2>1. task[t].at \in Zeroing
    BY <1>1 DEF Zeroing
  <2>2. applied \in [Start -> Applied]
    BY DEF IInv, OtherTypes
  <2>3. s \in Start /\ owner[s].phase \notin Open /\ task[t] \in Tasks /\ s # None
    BY <2>1, WriterIs DEF TaskFits
  <2> QED BY <2>2, <2>3, CoreIs DEF Owner, Applied
<1>3. task' = [task EXCEPT ![t] = q]
  BY <1>1
<1>4. q \in Tasks /\ p \in Owner
  BY <1>1, <1>2, EditIs DEF Tasks, At, Later
<1>5. \A x \in Start \ {s} : applied'[x] = applied[x]
  BY <1>1, <1>2
<1>6. task[t].at \in {"zero_q", "vel_q"}
  BY <1>1
<1> HIDE DEF q, p
<1>7. /\ TaskTypes' /\ OwnerTypes' /\ OneLock' /\ OpenIsOwned' /\ Untouched' /\ AtRobot' /\ Writers' /\ Counted'
      /\ TimerFits'
      /\ task'[t] = q /\ \A u \in Task \ {t} : task'[u] = task[u]
      /\ \A x \in Start : /\ owner'[x].client = owner[x].client /\ owner'[x].seq = owner[x].seq
                          /\ owner'[x].start_terminal = owner[x].start_terminal
                          /\ owner'[x].stop_ids = owner[x].stop_ids
                          /\ owner'[x].phase = owner[x].phase
                          /\ owner'[x].stop_issued = owner[x].stop_issued
      /\ q.own = s /\ q.what = task[t].what /\ q.at = IF task[t].at = "zero_q" THEN "zero" ELSE "vel"
  BY <1>1, <1>2, <1>3, <1>4, <1>5, <1>6, SocketKeeps DEF q, p
<1>8. applied'[s].kind = applied[s].kind \/ applied'[s].kind = "zero"
  BY <1>1, <1>2
<1>9. Halted'
  <2> SUFFICES ASSUME NEW x \in Start, applied'[x].kind = "zero", owner'[x].phase \in Open
               PROVE  \E c \in Client : owner'[x].client = c /\ task'[c].at = "vel" /\ task'[c].own = x /\ task'[c].what = 0
    BY DEF Halted
  <2>1. x # s
    BY <1>2, <1>7
  <2>2. PICK c \in Client : owner[x].client = c /\ task[c].at = "vel" /\ task[c].own = x /\ task[c].what = 0
    BY <1>0, <1>5, <1>7, <2>1 DEF Core, Halted
  <2> QED BY <1>1, <1>7, <2>2, Constants
<1>10. Told'
  <2> SUFFICES ASSUME owners # None
               PROVE  /\ applied'[owners].kind = "drive" => applied'[owners].seq <= owner'[owners].seq
                      /\ \A u \in Task : task'[u].at = "zero" /\ task'[u].own = owners => applied'[owners].kind # "drive"
                      /\ owner'[owners].phase = "closing" /\ ~owner'[owners].start_terminal =>
                           \/ applied'[owners].kind # "drive" \/ owner'[owners].stop_issued
                           \/ \E u \in Task : task'[u].at \in Zeroing /\ task'[u].own = owners
    BY <1>1 DEF Told
  <2>1. owners \in Start
    BY <1>2
  <2>2. Told
    BY <1>0 DEF Core
  <2>3. owners = s => applied'[s].kind # "drive"
    BY <1>1, <1>2, <2>2 DEF Told
  <2>4. CASE owners = s
    BY <2>3, <2>4
  <2>5. CASE owners # s
    BY <1>5, <1>7, <2>1, <2>2, <2>5 DEF Told
  <2> QED BY <2>4, <2>5
<1> QED BY <1>7, <1>9, <1>10 DEF Core

\* A frame that moves the robot is written to an open session no release has
\* reached.
LEMMA DriveIs ==
  ASSUME IInv, NEW c \in Client, VelocityWrite(c), task[c].what # 0
  PROVE  LET s == task[c].own IN
         s \in Start /\ owner[s].phase = "active" /\ applied[s].kind # "zero"
<1> DEFINE s == task[c].own
<1>1. task[c].at = "vel_q" /\ MayWrite(c)
  BY DEF VelocityWrite
<1>2. c \in Task /\ task[c].at \in Driving
  BY <1>1, Constants DEF Driving
<1>3. s \in Start /\ owner[s].client = c
  BY <1>2, WriterIs
<1>4. owner[s].phase = "active" /\ owner[s].phase \in Open
  BY <1>1 DEF MayWrite, Open
<1>5. applied[s].kind # "zero"
  BY <1>1, <1>3, <1>4 DEF IInv, Core, Halted
<1> QED BY <1>3, <1>4, <1>5

LEMMA VelocityWriteKeeps == ASSUME IInv, NEW c \in Client, VelocityWrite(c) PROVE Core'
<1> DEFINE s == task[c].own
           v == task[c].what
           k == IF v = 0 THEN "zero" ELSE "drive"
           q == [task[c] EXCEPT !.at = IF task[c].at = "zero_q" THEN "zero" ELSE "vel"]
           p == [owner[s] EXCEPT !.send_lock = c]
           n == owner[s].seq
           a == [kind |-> k, seq |-> n, speed |-> v]
<1>0. Core /\ c \in Task
  BY Constants DEF IInv
<1>1. /\ task[c].at = "vel_q"
      /\ applied' = IF n > applied[s].seq THEN [applied EXCEPT ![s] = a] ELSE applied
      /\ owner' = [owner EXCEPT ![s] = p]
      /\ task' = [task EXCEPT ![c].at = "vel"]
      /\ owners' = owners /\ active' = active /\ used' = used /\ robot' = robot
  BY DEF VelocityWrite, Write, entryVars
<1>2. /\ s \in Start /\ task[c] \in Tasks /\ s # None /\ owner[s].client = c
      /\ owner[s] \in Owner /\ owners \in Start \cup {None} /\ owner[s].seq \in Nat
      /\ applied \in [Start -> Applied] /\ applied[s].seq \in Nat /\ applied[s].kind \in {"none", "drive", "zero"}
  <2>1. task[c].at \in Driving
    BY <1>1 DEF Driving
  <2>2. applied \in [Start -> Applied]
    BY DEF IInv, OtherTypes
  <2>3. s \in Start /\ task[c] \in Tasks /\ s # None /\ owner[s].client = c
    BY <1>0, <2>1, WriterIs DEF TaskFits
  <2> QED BY <2>2, <2>3, CoreIs DEF Owner, Applied
<1>3. task' = [task EXCEPT ![c] = q]
  BY <1>1
<1>4. q \in Tasks /\ p \in Owner
  BY <1>0, <1>1, <1>2, EditIs DEF Tasks, At, Later
<1>5. \A x \in Start \ {s} : applied'[x] = applied[x]
  BY <1>1, <1>2
<1>6. task[c].at \in {"zero_q", "vel_q"}
  BY <1>1
<1> HIDE DEF q, p
<1>7. /\ TaskTypes' /\ OwnerTypes' /\ OneLock' /\ OpenIsOwned' /\ Untouched' /\ AtRobot' /\ Writers' /\ Counted'
      /\ TimerFits'
      /\ task'[c] = q /\ \A u \in Task \ {c} : task'[u] = task[u]
      /\ \A x \in Start : /\ owner'[x].client = owner[x].client /\ owner'[x].seq = owner[x].seq
                          /\ owner'[x].start_terminal = owner[x].start_terminal
                          /\ owner'[x].stop_ids = owner[x].stop_ids
                          /\ owner'[x].phase = owner[x].phase
                          /\ owner'[x].stop_issued = owner[x].stop_issued
      /\ q.own = s /\ q.what = task[c].what /\ q.at = IF task[c].at = "zero_q" THEN "zero" ELSE "vel"
  BY <1>0, <1>1, <1>2, <1>3, <1>4, <1>5, <1>6, SocketKeeps DEF q, p
<1>8. \/ applied'[s] = applied[s]
      \/ applied'[s].kind = k /\ applied'[s].seq = n
  BY <1>1, <1>2
<1>9. v # 0 => owner[s].phase = "active" /\ applied[s].kind # "zero"
  BY DriveIs
<1> HIDE DEF v
<1>10. Halted'
  <2> SUFFICES ASSUME NEW x \in Start, applied'[x].kind = "zero", owner'[x].phase \in Open
               PROVE  \E d \in Client : owner'[x].client = d /\ task'[d].at = "vel" /\ task'[d].own = x /\ task'[d].what = 0
    BY DEF Halted
  <2>1. CASE x = s /\ v = 0
    <3>1. owner'[x].client = c /\ task'[c].at = "vel" /\ task'[c].own = x /\ task'[c].what = 0
      BY <1>1, <1>2, <1>7, <2>1 DEF v
    <3> QED BY <3>1
  <2>2. CASE x = s /\ v # 0
    BY <1>8, <1>9, <2>2
  <2>3. CASE x # s
    <3>1. PICK d \in Client : owner[x].client = d /\ task[d].at = "vel" /\ task[d].own = x /\ task[d].what = 0
      BY <1>0, <1>5, <1>7, <2>3 DEF Core, Halted
    <3> QED BY <1>1, <1>7, <3>1, Constants
  <2> QED BY <2>1, <2>2, <2>3
<1>11. Told'
  <2> SUFFICES ASSUME owners # None
               PROVE  /\ applied'[owners].kind = "drive" => applied'[owners].seq <= owner'[owners].seq
                      /\ \A u \in Task : task'[u].at = "zero" /\ task'[u].own = owners => applied'[owners].kind # "drive"
                      /\ owner'[owners].phase = "closing" /\ ~owner'[owners].start_terminal =>
                           \/ applied'[owners].kind # "drive" \/ owner'[owners].stop_issued
                           \/ \E u \in Task : task'[u].at \in Zeroing /\ task'[u].own = owners
    BY <1>1 DEF Told
  <2>1. owners \in Start /\ Told
    BY <1>0, <1>2 DEF Core
  <2>2. \A u \in Task : task'[u].at = "zero" /\ task'[u].own = owners => task[u].at = "zero" /\ task[u].own = owners
    BY <1>1, <1>7
  <2>3. \A u \in Task : task[u].at \in Zeroing => task'[u] = task[u]
    BY <1>1, <1>7 DEF Zeroing
  <2>4. CASE applied'[owners] = applied[owners]
    BY <1>7, <2>1, <2>2, <2>3, <2>4 DEF Told
  <2>5. CASE owners = s /\ v = 0 /\ applied'[s].kind = "zero"
    BY <2>5
  <2>6. CASE owners = s /\ v # 0 /\ applied'[s].kind = "drive" /\ applied'[s].seq = n
    <3>1. owner[s].phase = "active"
      BY <1>9, <2>6
    <3>2. \A u \in Task : task[u].at = "zero" => task[u].own # s
      BY <1>0, <3>1 DEF Core, Writers, Zeroing, Open
    <3>3. n <= n
      BY <1>2
    <3> QED BY <1>7, <2>1, <2>2, <2>6, <3>1, <3>2, <3>3
  <2> QED BY <1>5, <1>8, <2>1, <2>4, <2>5, <2>6
<1> QED BY <1>7, <1>10, <1>11 DEF Core

LEMMA VelocityKeeps ==
  ASSUME IInv, NEW c \in Client, NEW deadman \in BOOLEAN, NEW speed \in Speed, velocity(c, deadman, speed)
  PROVE  Core'
<1> DEFINE s == owners
           v == IF deadman THEN speed ELSE 0
           q == [Idle EXCEPT !.own = s, !.what = v, !.at = "vel_q"]
           n == owner[s].seq + 1
           p == [owner[s] EXCEPT !.seq = n, !.quiet = FALSE]
<1>0. Core /\ c \in Task /\ c # "timer"
  BY Constants DEF IInv, Gateway
<1>1. /\ Begins(c) /\ s # None /\ owner[s].client = c
      /\ \/ revoke(c, Idle, owner, TRUE, FALSE)
         \/ /\ owner' = [owner EXCEPT ![s].seq = owner[s].seq + 1, ![s].quiet = FALSE]
            /\ task' = [task EXCEPT ![c] = [[Idle EXCEPT !.own = s, !.what = v] EXCEPT !.at = "vel_q"]]
      /\ owners' = owners /\ applied' = applied /\ active' = active /\ used' = used /\ robot' = robot
  BY DEF velocity, entryVars
<1>2. CASE revoke(c, Idle, owner, TRUE, FALSE)
  BY <1>0, <1>1, <1>2, IdleIs, IdleCalls, BeginsRevoking
<1>3. CASE /\ owner' = [owner EXCEPT ![s].seq = owner[s].seq + 1, ![s].quiet = FALSE]
           /\ task' = [task EXCEPT ![c] = [[Idle EXCEPT !.own = s, !.what = v] EXCEPT !.at = "vel_q"]]
  <2>1. /\ s \in Start /\ owner \in [Start -> Owner] /\ owner[s] \in Owner /\ owner[s].seq \in Nat
        /\ task \in [Task -> Tasks] /\ \A u \in Task : TaskFits(u, task[u])
    BY <1>1, CoreIs DEF Owner
  <2>2. v \in Nat
    BY Constants
  <2> HIDE DEF v
  <2>3. /\ p \in Owner /\ p.client = owner[s].client /\ p.seq = owner[s].seq + 1
        /\ p.start_terminal = owner[s].start_terminal /\ p.stop_ids = owner[s].stop_ids
        /\ p.phase = owner[s].phase /\ p.stop_issued = owner[s].stop_issued
    <3>1. n \in Nat
      BY <2>1
    <3> HIDE DEF n
    <3>2. /\ p \in Owner /\ p.client = owner[s].client /\ p.seq = n
          /\ p.start_terminal = owner[s].start_terminal /\ p.stop_ids = owner[s].stop_ids
          /\ p.phase = owner[s].phase /\ p.stop_issued = owner[s].stop_issued
      BY <2>1, <3>1 DEF Owner
    <3> QED BY <3>2 DEF n
  <2>4. owner' = [owner EXCEPT ![s] = p]
    BY <1>3, <2>1
  <2>5. /\ q \in Tasks /\ q.at = "vel_q" /\ q.own = s /\ q.what = v /\ q.stack = Idle.stack /\ ~q.locked
    BY <2>1, <2>2, IdleIs DEF Tasks, At, Whats
  <2>6. task' = [task EXCEPT ![c] = q]
    BY <1>3, IdleIs DEF Tasks
  <2> HIDE DEF p, q
  <2>7. owner' \in [Start -> Owner] /\ owner'[s] = p /\ \A x \in Start \ {s} : owner'[x] = owner[x]
    BY <2>1, <2>3, <2>4
  <2>8. task' \in [Task -> Tasks] /\ task'[c] = q /\ \A u \in Task \ {c} : task'[u] = task[u]
    BY <1>0, <2>1, <2>5, <2>6
  <2>9. \A x \in Start : /\ owner'[x].client = owner[x].client
                         /\ owner'[x].start_terminal = owner[x].start_terminal
                         /\ owner'[x].stop_ids = owner[x].stop_ids
                         /\ owner'[x].phase = owner[x].phase
                         /\ owner'[x].stop_issued = owner[x].stop_issued
    BY <2>3, <2>7
  <2>10. task[c] = Idle /\ task[c].at = "idle" /\ task[c].own = None
    BY <1>1, IdleIs DEF Begins
  <2>11. TaskFits(c, q)
    <3>1. Depth(q) = 0
      BY <2>5 DEF Depth, Zeroing, Stopping
    <3>2. StackFits(q, Depth(q))
      BY <2>5, <3>1, IdleIs DEF StackFits
    <3> QED BY <1>1, <2>2, <2>5, <3>2 DEF TaskFits, Zeroing, Driving, Starting, Stopping
  <2>12. ~Resets(q)
    BY <1>0, <2>5, <2>11, ResetsLocked
  <2>13. TaskTypes' /\ OwnerTypes'
    BY <1>1, <2>1, <2>7, <2>8, <2>11 DEF TaskTypes, OwnerTypes
  <2>14. OneLock' /\ TimerFits'
    BY <1>0, <1>1, <2>5, <2>8, Constants DEF Core, OneLock, TimerFits, Gateway
  <2>15. OpenIsOwned' /\ AtRobot'
    BY <1>0, <1>1, <2>8, <2>9, <2>12, Constants DEF Core, OpenIsOwned, AtRobot
  <2>16. Untouched'
    <3>1. \A u \in Task : task'[u].at \in Starting => task'[u] = task[u]
      BY <2>5, <2>8 DEF Starting
    <3>2. \A u \in Task : task'[u].at \in {"waiting", "s_lookup", "s_audit"} => task'[u] = task[u]
      BY <2>5, <2>8
    <3>3. \A u \in Task : task'[u].own = task[u].own \/ task'[u].own = owners
      BY <2>5, <2>8
    <3>4. Untouched
      BY <1>0 DEF Core
    <3> QED BY <1>1, <3>1, <3>2, <3>3, <3>4 DEF Untouched
  <2>17. Writers'
    <3>1. \A u \in Task : task[u].at \in Zeroing \cup Driving => task[u].own \in Start
      BY WriterIs
    <3>2. q.at \notin Zeroing
      BY <2>5 DEF Zeroing
    <3> QED BY <1>0, <1>1, <2>1, <2>5, <2>8, <2>9, <3>1, <3>2 DEF Core, Writers
  <2>18. Halted'
    BY <1>0, <1>1, <2>8, <2>9, <2>10, Constants DEF Core, Halted
  <2>19. Counted'
    BY <1>0, <1>1, <2>1, <2>8, <2>9, <2>10, Constants DEF Core, Counted
  <2>20. Told'
    <3> SUFFICES /\ applied[owners].kind = "drive" => applied[owners].seq <= owner'[owners].seq
                 /\ \A u \in Task : task'[u].at = "zero" /\ task'[u].own = owners => applied[owners].kind # "drive"
                 /\ owner'[owners].phase = "closing" /\ ~owner'[owners].start_terminal =>
                      \/ applied[owners].kind # "drive" \/ owner'[owners].stop_issued
                      \/ \E u \in Task : task'[u].at \in Zeroing /\ task'[u].own = owners
      BY <1>1 DEF Told
    <3>1. Told
      BY <1>0 DEF Core
    <3>2. applied[owners].kind = "drive" => applied[owners].seq <= owner'[owners].seq
      <4>1. applied[owners].seq \in Nat
        BY <2>1 DEF IInv, OtherTypes, Applied
      <4>2. applied[owners].kind = "drive" => applied[owners].seq <= owner[owners].seq
        BY <1>1, <3>1 DEF Told
      <4> QED BY <2>1, <2>3, <2>7, <4>1, <4>2
    <3>3. \A u \in Task : task'[u].at = "zero" => task'[u] = task[u]
      BY <2>5, <2>8
    <3>4. \A u \in Task : task[u].at \in Zeroing => task'[u] = task[u]
      BY <2>8, <2>10 DEF Zeroing
    <3> QED BY <1>1, <2>1, <2>9, <3>1, <3>2, <3>3, <3>4 DEF Told
  <2> QED BY <2>13, <2>14, <2>15, <2>16, <2>17, <2>18, <2>19, <2>20 DEF Core
<1> QED BY <1>1, <1>2, <1>3

----------------------------------------------------------------------------
(* A start, from its request to the robot.                                 *)

LEMMA StartRequestKeeps ==
  ASSUME IInv, NEW c \in Client, NEW s \in Start, NEW takeover \in BOOLEAN, StartRequest(c, s, takeover)
  PROVE  Core'
<1> DEFINE q == [Idle EXCEPT !.at = "waiting", !.id = s, !.what = takeover]
<1>0. Core /\ c \in Task /\ c # "timer" /\ s \in Command
  BY Constants DEF IInv, Gateway
<1>1. /\ c = From[s] /\ Begins(c) /\ s \notin used /\ used' = used \cup {s}
      /\ task' = [task EXCEPT ![c] = q] /\ owner' = owner
      /\ owners' = owners /\ applied' = applied /\ active' = active /\ robot' = robot
  BY DEF StartRequest, entryVars
<1>2. /\ task \in [Task -> Tasks] /\ owner \in [Start -> Owner] /\ owners \in Start \cup {None}
      /\ \A u \in Task : TaskFits(u, task[u])
  BY CoreIs
<1>3. q \in Tasks /\ q.at = "waiting" /\ q.id = s /\ q.own = None /\ q.stack = Idle.stack /\ ~q.locked
  BY <1>0, IdleIs DEF Tasks, At, Whats
<1> HIDE DEF q
<1>4. TaskFits(c, q)
  <2>1. Depth(q) = 0
    BY <1>3 DEF Depth, Zeroing, Stopping
  <2>2. StackFits(q, Depth(q))
    BY <1>3, <2>1, IdleIs DEF StackFits
  <2> QED BY <1>1, <1>3, <2>2 DEF TaskFits, Zeroing, Driving, Starting, Stopping
<1>5. ~Resets(q)
  BY <1>0, <1>3, <1>4, ResetsLocked
<1>6. task' \in [Task -> Tasks] /\ task'[c] = q /\ \A u \in Task \ {c} : task'[u] = task[u]
  BY <1>0, <1>1, <1>2, <1>3
<1>7. task[c] = Idle /\ task[c].at = "idle" /\ task[c].own = None
  BY <1>1, IdleIs DEF Begins
<1>8. TaskTypes' /\ OwnerTypes'
  BY <1>1, <1>2, <1>4, <1>6 DEF TaskTypes, OwnerTypes
<1>9. OneLock' /\ TimerFits'
  BY <1>0, <1>1, <1>3, <1>6, Constants DEF Core, OneLock, TimerFits, Gateway
<1>10. OpenIsOwned' /\ AtRobot'
  BY <1>0, <1>1, <1>6, <1>5, Constants DEF Core, OpenIsOwned, AtRobot
<1>11. Untouched'
  <2>1. Untouched
    BY <1>0 DEF Core
  <2>2. ASSUME NEW x \in Start,
               x \notin used' \/ \E u \in Task : task'[u].at \in {"waiting", "s_lookup"} /\ task'[u].id = x
        PROVE  applied[x].kind = "none" /\ owners # x /\ \A u \in Task : task'[u].own # x
    <3>1. x \notin used \/ \E u \in Task : task[u].at \in {"waiting", "s_lookup"} /\ task[u].id = x
      BY <1>1, <1>3, <1>6, <2>2
    <3>2. applied[x].kind = "none" /\ owners # x /\ \A u \in Task : task[u].own # x
      BY <2>1, <3>1 DEF Untouched
    <3> QED BY <1>3, <1>6, <3>2, Constants
  <2>3. ASSUME NEW x \in Start,
               x \notin used' \/ \E u \in Task : task'[u].at \in {"waiting", "s_lookup", "s_audit"} /\ task'[u].id = x
        PROVE  x \notin active /\ robot[x] = "none"
    <3>1. x \notin used \/ \E u \in Task : task[u].at \in {"waiting", "s_lookup", "s_audit"} /\ task[u].id = x
      BY <1>1, <1>3, <1>6, <2>3
    <3> QED BY <2>1, <3>1 DEF Untouched
  <2>4. ASSUME NEW x \in Start, x \notin used', NEW u \in Task, task'[u].at \in Starting PROVE task'[u].id # x
    <3>1. x \notin used /\ x # s
      BY <1>1, <2>4
    <3> QED BY <1>3, <1>6, <2>1, <2>4, <3>1 DEF Untouched
  <2> QED BY <1>1, <2>2, <2>3, <2>4 DEF Untouched
<1>12. Writers'
  BY <1>0, <1>1, <1>3, <1>6 DEF Core, Writers, Zeroing, Driving
<1>13. Halted'
  BY <1>0, <1>1, <1>6, <1>7, Constants DEF Core, Halted
<1>14. Counted'
  BY <1>0, <1>1, <1>6, <1>7, Constants DEF Core, Counted
<1>15. Told'
  <2>1. \A u \in Task : task'[u].at \in Zeroing \cup {"zero"} => task'[u] = task[u]
    BY <1>3, <1>6 DEF Zeroing
  <2>2. \A u \in Task : task[u].at \in Zeroing => task'[u] = task[u]
    BY <1>6, <1>7 DEF Zeroing
  <2> QED BY <1>0, <1>1, <2>1, <2>2 DEF Core, Told
<1> QED BY <1>8, <1>9, <1>10, <1>11, <1>12, <1>13, <1>14, <1>15 DEF Core

LEMMA PolicyIs == IInv => _resolve_policy \in Policies
<1> SUFFICES ASSUME IInv PROVE _resolve_policy \in Policies
  OBVIOUS
<1>1. raw \in RawPolicy
  BY DEF IInv, OtherTypes
<1> QED BY <1>1 DEF _resolve_policy, resolve_policy, parse_policy, Policies

LEMMA StartLookupKeeps == ASSUME IInv, NEW c \in Client, StartLookup(c) PROVE Core'
<1> DEFINE s == task[c].id
           q == [task[c] EXCEPT !.at = "s_audit", !.session = conn]
           p == [NoOwner EXCEPT !.client = c, !.conn = conn, !.base = base, !.phase = "pending",
                                !.policy = _resolve_policy]
<1>0. Core /\ c \in Task /\ c # "timer"
  BY Constants DEF IInv, Gateway
<1>1. /\ task[c].at = "s_lookup"
      /\ \/ /\ prepare(c) /\ owners' = s /\ owner' = [owner EXCEPT ![s] = p]
            /\ task' = [task EXCEPT ![c] = q]
         \/ task' = [task EXCEPT ![c] = Idle] /\ owner' = owner /\ owners' = owners
      /\ applied' = applied /\ active' = active /\ used' = used /\ robot' = robot
  BY DEF StartLookup, entryVars
<1>2. /\ task \in [Task -> Tasks] /\ owner \in [Start -> Owner] /\ owners \in Start \cup {None}
      /\ \A u \in Task : TaskFits(u, task[u])
  BY CoreIs
<1>3. CASE task' = [task EXCEPT ![c] = Idle] /\ owner' = owner /\ owners' = owners
  BY <1>0, <1>1, <1>3, SameOwner, EndKeeps DEF Tied, Zeroing
<1>4. CASE /\ prepare(c) /\ owners' = s /\ owner' = [owner EXCEPT ![s] = p]
           /\ task' = [task EXCEPT ![c] = q]
  <2>1. s \in Start /\ From[s] = c /\ task[c].locked /\ s \in Command /\ task[c].own = None /\ s # None
    BY <1>0, <1>1, <1>2, Constants DEF TaskFits, Starting, Zeroing, Driving
  <2>2. owners = None /\ active = {}
    BY <1>4 DEF prepare
  <2>3. /\ s \in used /\ applied[s].kind = "none" /\ \A u \in Task : task[u].own # s
    BY <1>0, <1>1, <2>1 DEF Core, Untouched, Starting
  <2>4. \A x \in Start : owner[x].phase \notin Open /\ robot[x] \notin {"sent", "accepted"}
    BY <1>0, <2>2, Constants DEF Core, OpenIsOwned, AtRobot
  <2>5. conn \in Nat /\ base \in Nat /\ _resolve_policy \in Policies
    BY PolicyIs, Constants DEF IInv, OtherTypes
  <2>6. /\ p \in Owner /\ p.client = c /\ p.seq = 0 /\ ~p.start_terminal /\ p.stop_ids = {}
        /\ p.phase = "pending" /\ ~p.stop_issued
    BY <2>5 DEF NoOwner, Owner, Phase, Open
  <2>7. /\ q \in Tasks /\ q.at = "s_audit" /\ q.own = None /\ q.id = s /\ q.stack = task[c].stack /\ q.locked
    <3>1. task[c] \in Tasks
      BY <1>0, <1>2
    <3>2. /\ q \in Tasks /\ q.at = "s_audit" /\ q.own = task[c].own /\ q.id = s /\ q.stack = task[c].stack
          /\ (q.locked <=> task[c].locked)
      BY <2>5, <3>1 DEF Tasks, At
    <3> QED BY <2>1, <3>2
  <2> HIDE DEF p, q
  <2>8. TaskFits(c, q)
    <3>1. Depth(q) = 0 /\ Depth(task[c]) = 0
      BY <1>1, <2>7 DEF Depth, Zeroing, Stopping
    <3>2. StackFits(q, Depth(q))
      BY <1>0, <1>2, <2>7, <3>1 DEF TaskFits, StackFits
    <3> QED BY <2>1, <2>7, <3>2 DEF TaskFits, Zeroing, Driving, Starting, Stopping
  <2>9. task' \in [Task -> Tasks] /\ task'[c] = q /\ \A u \in Task \ {c} : task'[u] = task[u]
    BY <1>0, <1>2, <1>4, <2>7
  <2>10. owner' \in [Start -> Owner] /\ owner'[s] = p /\ \A x \in Start \ {s} : owner'[x] = owner[x]
    BY <1>2, <1>4, <2>1, <2>6
  <2>11. \A d \in Client : ~Resets(task'[d])
    <3> SUFFICES ASSUME NEW d \in Client, Resets(task'[d]) PROVE FALSE
      OBVIOUS
    <3>1. d \in Task /\ TaskFits(d, task'[d])
      BY <1>2, <2>8, <2>9, Constants
    <3>2. task'[d].locked
      BY <3>1, ResetsLocked
    <3>3. d = c
      BY <1>0, <2>1, <2>9, <3>1, <3>2 DEF Core, OneLock
    <3>4. Len(q.stack) = 0
      <4>1. StackFits(q, 0)
        BY <2>7, <2>8 DEF TaskFits, Depth, Zeroing, Stopping
      <4> QED BY <4>1 DEF StackFits
    <3> QED BY <2>7, <2>9, <3>3, <3>4 DEF Resets
  <2>12. TaskTypes' /\ OwnerTypes'
    BY <1>2, <1>4, <2>1, <2>8, <2>9, <2>10 DEF TaskTypes, OwnerTypes
  <2>13. OneLock' /\ TimerFits'
    BY <1>0, <1>1, <2>1, <2>7, <2>9, Constants DEF Core, OneLock, TimerFits, Gateway
  <2>14. OpenIsOwned'
    BY <1>4, <2>4, <2>6, <2>10, <2>11 DEF OpenIsOwned
  <2>15. AtRobot'
    BY <1>1, <2>4 DEF AtRobot
  <2>16. Untouched'
    <3>1. Untouched
      BY <1>0 DEF Core
    <3>2. \A u \in Task : task[u].id = s /\ task[u].at \in Starting => u = c
      BY <1>2, <2>1 DEF TaskFits
    <3>3. ASSUME NEW x \in Start,
                 x \notin used \/ \E u \in Task : task'[u].at \in {"waiting", "s_lookup"} /\ task'[u].id = x
          PROVE  applied[x].kind = "none" /\ owners' # x /\ \A u \in Task : task'[u].own # x
      <4>1. x # s
        BY <2>3, <2>7, <2>9, <3>2, <3>3 DEF Starting
      <4>2. x \notin used \/ \E u \in Task : task[u].at \in {"waiting", "s_lookup"} /\ task[u].id = x
        BY <2>7, <2>9, <3>3
      <4> QED BY <1>4, <2>7, <2>9, <3>1, <4>1, <4>2, Constants DEF Untouched
    <3>4. ASSUME NEW x \in Start,
                 x \notin used \/ \E u \in Task : task'[u].at \in {"waiting", "s_lookup", "s_audit"} /\ task'[u].id = x
          PROVE  x \notin active /\ robot[x] = "none"
      <4>1. x \notin used \/ \E u \in Task : task[u].at \in {"waiting", "s_lookup", "s_audit"} /\ task[u].id = x
        BY <1>1, <2>7, <2>9, <3>4
      <4> QED BY <3>1, <4>1 DEF Untouched
    <3>5. ASSUME NEW x \in Start, x \notin used, NEW u \in Task, task'[u].at \in Starting PROVE task'[u].id # x
      BY <2>3, <2>7, <2>9, <3>1, <3>5 DEF Untouched
    <3> QED BY <1>1, <3>3, <3>4, <3>5 DEF Untouched
  <2>17. Writers'
    <3>1. \A u \in Task : task[u].at \in Zeroing \cup Driving => task[u].own \in Start \ {s}
      BY <2>3, WriterIs
    <3> QED BY <1>0, <2>7, <2>9, <2>10, <3>1 DEF Core, Writers, Zeroing, Driving
  <2>18. Halted'
    BY <1>1, <2>3, <2>4, <2>10 DEF Halted
  <2>19. Counted'
    BY <1>1, <1>4, <2>2, <2>6, <2>7, <2>9, <2>10 DEF Counted
  <2>20. Told'
    BY <1>1, <1>4, <2>3, <2>6, <2>10 DEF Told
  <2> QED BY <2>12, <2>13, <2>14, <2>15, <2>16, <2>17, <2>18, <2>19, <2>20 DEF Core
<1> QED BY <1>1, <1>3, <1>4

\* The start is published: the robot has it.
LEMMA PublishKeeps ==
  ASSUME IInv, NEW c \in Client, NEW q \in Tasks, NEW s \in Start, s = task[c].id,
         task[c].at = "s_audit", StillAuthorized(c),
         active' = active \cup {s}, robot' = [robot EXCEPT ![s] = "sent"],
         q = [task[c] EXCEPT !.at = "s_send"], task' = [task EXCEPT ![c] = q],
         owner' = owner, owners' = owners, applied' = applied, used' = used
  PROVE  Core'
<1>0. Core /\ c \in Task /\ c # "timer"
  BY Constants DEF IInv, Gateway
<1>2. /\ task \in [Task -> Tasks] /\ owner \in [Start -> Owner] /\ owners \in Start \cup {None}
      /\ \A u \in Task : TaskFits(u, task[u])
  BY CoreIs
<1>3. From[s] = c /\ task[c].locked /\ s \in Command /\ task[c].own = None /\ s # None
  BY <1>0, <1>2, Constants DEF TaskFits, Starting, Zeroing, Driving
<1>4. owners = s /\ owner[s].phase = "pending" /\ ~owner[s].start_terminal
  BY <1>0 DEF StillAuthorized, Core, OpenIsOwned, Open
<1>5. /\ q.at = "s_send" /\ q.own = None /\ q.id = s /\ q.stack = task[c].stack /\ q.locked
  BY <1>0, <1>2, <1>3 DEF Tasks
<1>6. TaskFits(c, q)
  <2>1. Depth(q) = 0 /\ Depth(task[c]) = 0
    BY <1>5 DEF Depth, Zeroing, Stopping
  <2>2. StackFits(q, Depth(q))
    BY <1>0, <1>2, <1>5, <2>1 DEF TaskFits, StackFits
  <2> QED BY <1>3, <1>5, <2>2 DEF TaskFits, Zeroing, Driving, Starting, Stopping
<1>7. task' \in [Task -> Tasks] /\ task'[c] = q /\ \A u \in Task \ {c} : task'[u] = task[u]
  BY <1>0, <1>2
<1>8. Resets(q) => Resets(task[c])
  BY <1>5 DEF Resets
<1>9. TaskTypes' /\ OwnerTypes'
  BY <1>2, <1>6, <1>7 DEF TaskTypes, OwnerTypes
<1>10. OneLock' /\ TimerFits'
  BY <1>0, <1>3, <1>5, <1>7, Constants DEF Core, OneLock, TimerFits, Gateway
<1>11. OpenIsOwned'
  BY <1>0, <1>7, <1>8, Constants DEF Core, OpenIsOwned
<1>12. \A x \in Start \ {s} : robot'[x] = robot[x]
  BY Constants DEF IInv, OtherTypes
<1>13. AtRobot'
  BY <1>0, <1>4, <1>12 DEF Core, AtRobot
<1>14. Untouched'
  <2>1. Untouched
    BY <1>0 DEF Core
  <2>2. s \in used
    BY <1>0, <2>1 DEF Untouched, Starting
  <2>3. \A u \in Task : task[u].id = s /\ task[u].at \in Starting => u = c
    BY <1>2, <1>3 DEF TaskFits
  <2>4. \A u \in Task : task'[u].at \in {"waiting", "s_lookup", "s_audit"} => task'[u] = task[u] /\ task'[u].id # s
    BY <1>5, <1>7, <2>3 DEF Starting
  <2>5. ASSUME NEW x \in Start,
               x \notin used \/ \E u \in Task : task'[u].at \in {"waiting", "s_lookup"} /\ task'[u].id = x
        PROVE  applied[x].kind = "none" /\ owners # x /\ \A u \in Task : task'[u].own # x
    <3>1. x # s
      BY <2>2, <2>4, <2>5
    <3>2. x \notin used \/ \E u \in Task : task[u].at \in {"waiting", "s_lookup"} /\ task[u].id = x
      BY <2>4, <2>5
    <3> QED BY <1>5, <1>7, <1>12, <2>1, <3>1, <3>2, Constants DEF Untouched
  <2>6. ASSUME NEW x \in Start,
               x \notin used \/ \E u \in Task : task'[u].at \in {"waiting", "s_lookup", "s_audit"} /\ task'[u].id = x
        PROVE  x \notin active' /\ robot'[x] = "none"
    <3>1. x # s
      BY <2>2, <2>4, <2>6
    <3>2. x \notin used \/ \E u \in Task : task[u].at \in {"waiting", "s_lookup", "s_audit"} /\ task[u].id = x
      BY <2>4, <2>6
    <3> QED BY <2>1, <3>1, <3>2 DEF Untouched
  <2>7. ASSUME NEW x \in Start, x \notin used, NEW u \in Task, task'[u].at \in Starting PROVE task'[u].id # x
    BY <1>5, <1>7, <2>1, <2>2, <2>7 DEF Untouched
  <2> QED BY <2>5, <2>6, <2>7 DEF Untouched
<1>15. Writers'
  BY <1>0, <1>5, <1>7 DEF Core, Writers, Zeroing, Driving
<1>16. Halted'
  BY <1>0, <1>7, Constants DEF Core, Halted
<1>17. Counted'
  BY <1>0, <1>3, <1>4, <1>7 DEF Core, Counted
<1>18. Told'
  BY <1>0, <1>4, <1>5, <1>7 DEF Core, Told
<1> QED BY <1>9, <1>10, <1>11, <1>13, <1>14, <1>15, <1>16, <1>17, <1>18 DEF Core

----------------------------------------------------------------------------
(* The end of a command.                                                   *)

\* A stop is recorded, and due from now on.
LEMMA StopAuditKeeps == ASSUME IInv, NEW t \in Task, StopAudit(t) PROVE Core'
<1> DEFINE i == task[t].id
           q == [task[t] EXCEPT !.at = "t_send"]
           p == [owner[owners] EXCEPT !.stop_ids = @ \cup {i}, !.stop_issued = TRUE]
<1>0. Core
  BY DEF IInv
<1>1. /\ task[t].at = "t_audit" /\ active' = active \cup {i} /\ task' = [task EXCEPT ![t] = q]
      /\ owner' = IF owners = None THEN owner
                  ELSE [owner EXCEPT ![owners].stop_ids = @ \cup {i}, ![owners].stop_issued = TRUE]
      /\ robot' = robot \/ robot' = [robot EXCEPT ![i] = "sent"]
      /\ owners' = owners /\ applied' = applied /\ used' = used
  BY DEF StopAudit, stop_pending
<1>2. /\ task \in [Task -> Tasks] /\ owner \in [Start -> Owner] /\ owners \in Start \cup {None}
      /\ \A u \in Task : TaskFits(u, task[u])
      /\ robot \in [Command -> {"none", "sent", "accepted", "ended", "superseded"}]
  BY CoreIs DEF IInv, OtherTypes
<1>3. i \in StopId /\ i \in Command /\ i \notin Start /\ task[t].own = None
  BY <1>1, <1>2 DEF TaskFits, Stopping, StopId, Zeroing, Driving
<1>4. task[t] \in Tasks
  BY <1>2
<1>5. /\ q \in Tasks /\ q.at = "t_send" /\ q.own = None /\ q.id = i /\ q.stack = task[t].stack
      /\ (q.locked <=> task[t].locked) /\ q.what = task[t].what
  BY <1>3, <1>4 DEF Tasks, At
<1>6. owners # None => /\ owners \in Start /\ p \in Owner /\ p.client = owner[owners].client
                       /\ p.seq = owner[owners].seq /\ p.start_terminal = owner[owners].start_terminal
                       /\ p.stop_ids = owner[owners].stop_ids \cup {i} /\ p.phase = owner[owners].phase /\ p.stop_issued
  BY <1>2, <1>3 DEF Owner
<1>7. owners # None => owner' = [owner EXCEPT ![owners] = p]
  BY <1>1, <1>2
<1> HIDE DEF p, q
<1>8. /\ owner' \in [Start -> Owner]
      /\ \A x \in Start : /\ owner'[x].client = owner[x].client /\ owner'[x].phase = owner[x].phase
                          /\ owner'[x].start_terminal = owner[x].start_terminal
                          /\ owner'[x].seq = owner[x].seq
      /\ owners # None => /\ owner'[owners].stop_ids = owner[owners].stop_ids \cup {i}
                          /\ owner'[owners].stop_issued
  <2>1. CASE owners = None
    BY <1>1, <1>2, <2>1
  <2>2. CASE owners # None
    BY <1>2, <1>6, <1>7, <2>2
  <2> QED BY <2>1, <2>2
<1>9. task' \in [Task -> Tasks] /\ task'[t] = q /\ \A u \in Task \ {t} : task'[u] = task[u]
  BY <1>1, <1>2, <1>5
<1>10. TaskFits(t, q)
  <2>1. Depth(q) = 1 /\ Depth(task[t]) = 1
    BY <1>1, <1>5 DEF Depth, Zeroing, Stopping
  <2>2. StackFits(q, Depth(q))
    BY <1>2, <1>5, <2>1 DEF TaskFits, StackFits
  <2> QED BY <1>2, <1>3, <1>5, <2>2 DEF TaskFits, Zeroing, Driving, Starting, Stopping
<1>11. Resets(q) => Resets(task[t])
  BY <1>5 DEF Resets
<1>12. \A x \in Start : robot'[x] = robot[x]
  BY <1>1, <1>2, <1>3, Constants
<1>13. /\ \A u \in Task : task'[u].at \in Starting \cup {"waiting", "s_lookup", "s_audit"} \cup Zeroing \cup Driving
                            => task'[u] = task[u]
       /\ \A u \in Task : task[u].at \in Starting \cup {"s_audit"} \cup Zeroing \cup Driving => task'[u] = task[u]
  BY <1>1, <1>5, <1>9 DEF Starting, Zeroing, Driving
<1>14. TaskTypes' /\ OwnerTypes'
  BY <1>1, <1>2, <1>8, <1>9, <1>10 DEF TaskTypes, OwnerTypes
<1>15. OneLock' /\ TimerFits'
  BY <1>0, <1>1, <1>5, <1>9, Constants DEF Core, OneLock, TimerFits, Gateway
<1>16. OpenIsOwned' /\ AtRobot'
  BY <1>0, <1>1, <1>8, <1>9, <1>11, <1>12, Constants DEF Core, OpenIsOwned, AtRobot
<1>17. Untouched'
  <2>1. Untouched
    BY <1>0 DEF Core
  <2>2. \A x \in Start : x \in active' <=> x \in active
    BY <1>1, <1>3
  <2>3. \A u \in Task : task'[u].own = task[u].own
    BY <1>3, <1>5, <1>9
  <2> QED BY <1>1, <1>12, <1>13, <2>1, <2>2, <2>3 DEF Untouched
<1>18. Writers'
  <2>1. \A u \in Task : task[u].at \in Zeroing \cup Driving => task[u].own \in Start
    BY WriterIs
  <2> QED BY <1>0, <1>8, <1>13, <2>1 DEF Core, Writers
<1>19. Halted'
  BY <1>0, <1>1, <1>8, <1>13, Constants DEF Core, Halted, Driving
<1>20. Counted'
  <2> SUFFICES ASSUME owners # None
               PROVE  /\ owner'[owners].stop_ids = active' \ {owners}
                      /\ owner'[owners].stop_issued
                      /\ owner'[owners].start_terminal => owners \notin active' /\ owner'[owners].stop_ids # {}
                      /\ ~owner'[owners].start_terminal =>
                           owners \in active' \/ \E c \in Client : task'[c].at = "s_audit" /\ task'[c].id = owners
    BY <1>1 DEF Counted
  <2>1. owners \in Start /\ Counted /\ i # owners
    BY <1>0, <1>3, <1>6 DEF Core
  <2>2. \A c \in Client : task[c].at = "s_audit" => task'[c] = task[c]
    BY <1>13, Constants
  <2> QED BY <1>1, <1>8, <2>1, <2>2 DEF Counted
<1>21. Told'
  BY <1>0, <1>1, <1>2, <1>8, <1>13 DEF Core, Told, Zeroing
<1> QED BY <1>14, <1>15, <1>16, <1>17, <1>18, <1>19, <1>20, <1>21 DEF Core

\* A cancelled timer leaves the send locks, and nothing else of the sessions.
LEMMA UnlockedIs ==
  ASSUME IInv, NEW ids
  PROVE  LET ow == Unlocked(ids) IN
         /\ ow \in [Start -> Owner]
         /\ \A x \in Start : /\ ow[x].client = owner[x].client /\ ow[x].phase = owner[x].phase /\ ow[x].seq = owner[x].seq
                             /\ ow[x].stop_ids = owner[x].stop_ids /\ ow[x].stop_issued = owner[x].stop_issued
                             /\ ow[x].start_terminal = owner[x].start_terminal
<1> DEFINE ow == Unlocked(ids)
<1>1. ASSUME NEW x \in Start
      PROVE  /\ ow[x] \in Owner
             /\ ow[x].client = owner[x].client /\ ow[x].phase = owner[x].phase /\ ow[x].seq = owner[x].seq
             /\ ow[x].stop_ids = owner[x].stop_ids /\ ow[x].stop_issued = owner[x].stop_issued
             /\ ow[x].start_terminal = owner[x].start_terminal
  <2>1. owner[x] \in Owner /\ None \in Task \cup {None}
    BY CoreIs
  <2>2. ow[x] = owner[x] \/ ow[x] = [owner[x] EXCEPT !.send_lock = None]
    BY DEF Unlocked
  <2>3. LET r == [owner[x] EXCEPT !.send_lock = None] IN
          /\ Later(owner[x], r) /\ r.stop_issued = owner[x].stop_issued /\ r.phase = owner[x].phase
    BY <2>1, EditIs
  <2> QED BY <2>1, <2>2, <2>3 DEF Later
<1>2. ow = [x \in Start |-> ow[x]]
  BY DEF Unlocked
<1> QED BY <1>1, <1>2

\* terminal and _finish, as the rest of the invariant sees them.
LEMMA CloseIs ==
  ASSUME IInv, NEW i \in Command, Close(i)
  PROVE  /\ owner' \in [Start -> Owner] /\ active' = active \ {i}
         /\ \A x \in Start : x # owners => owner'[x].client = owner[x].client /\ owner'[x].phase = owner[x].phase
         /\ owners = None => owners' = None
         /\ owners # None =>
              /\ owners' \in {owners, None}
              /\ owner'[owners].phase \in Open => owner[owners].phase \in Open /\ i # owners
              /\ (\E t \in Task : task[t].own = owners) => owner'[owners].client = owner[owners].client
              /\ owners' = owners =>
                   /\ owner'[owners].client = owner[owners].client
                   /\ owner'[owners].seq = owner[owners].seq
                   /\ owner'[owners].stop_ids = owner[owners].stop_ids \ {i}
                   /\ owner'[owners].stop_issued = owner[owners].stop_issued
                   /\ owner'[owners].start_terminal <=> owner[owners].start_terminal \/ i = owners
                   /\ owner'[owners].phase = IF i = owners THEN "closing" ELSE owner[owners].phase
                   /\ owner'[owners].start_terminal => owner'[owners].stop_ids # {}
              /\ owners' = None => (owner[owners].start_terminal \/ i = owners)
                                   /\ owner[owners].stop_ids \ {i} = {}
<1> DEFINE ow == Unlocked({i})
           done == terminal(i, ow)
<1>1. owner' = done.owner /\ owners' = done.owners /\ active' = active \ {i}
  BY DEF Close
<1>2. owner \in [Start -> Owner] /\ owners \in Start \cup {None} /\ None \notin Start
  BY CoreIs, Constants
<1>3. /\ ow \in [Start -> Owner]
      /\ \A x \in Start : /\ ow[x].client = owner[x].client /\ ow[x].phase = owner[x].phase /\ ow[x].seq = owner[x].seq
                          /\ ow[x].stop_ids = owner[x].stop_ids /\ ow[x].stop_issued = owner[x].stop_issued
                          /\ ow[x].start_terminal = owner[x].start_terminal
  BY UnlockedIs
<1> HIDE DEF ow
<1>4. CASE owners = None
  BY <1>1, <1>2, <1>3, <1>4 DEF terminal
<1>5. CASE owners # None
  <2> DEFINE s == owners
             o == ow[s]
             p == [o EXCEPT !.start_terminal = @ \/ i = s,
                            !.phase = IF i = s THEN "closing" ELSE @,
                            !.stop_ids = @ \ {i}]
             free == p.start_terminal /\ p.stop_ids = {}
             held == \E t \in Task : task[t].own = s
  <2>1. s \in Start /\ o \in Owner
    BY <1>2, <1>3, <1>5
  <2>2. /\ owner' = [ow EXCEPT ![s] = IF free /\ ~held THEN NoOwner ELSE p]
        /\ owners' = IF free THEN None ELSE s
    BY <1>1, <1>5 DEF terminal
  <2>3. /\ p \in Owner /\ p.client = o.client /\ p.seq = o.seq /\ p.stop_ids = o.stop_ids \ {i}
        /\ p.stop_issued = o.stop_issued /\ (p.start_terminal <=> o.start_terminal \/ i = s)
        /\ p.phase = IF i = s THEN "closing" ELSE o.phase
    BY <2>1 DEF Owner, Phase
  <2>4. NoOwner \in Owner /\ NoOwner.phase = "closing"
    BY Constants DEF NoOwner, Owner, Phase, Policies
  <2> HIDE DEF p
  <2>5. /\ owner' \in [Start -> Owner] /\ \A x \in Start \ {s} : owner'[x] = ow[x]
        /\ owner'[s] = IF free /\ ~held THEN NoOwner ELSE p
    BY <1>3, <2>1, <2>2, <2>3, <2>4
  <2>6. owner[s].phase \in Open => ~owner[s].start_terminal
    BY <2>1 DEF IInv, Core, OpenIsOwned
  <2>7. "closing" \notin Open
    BY DEF Open
  <2>8. free <=> (owner[s].start_terminal \/ i = s) /\ owner[s].stop_ids \ {i} = {}
    BY <1>3, <2>1, <2>3
  <2>9. CASE free
    BY <1>1, <1>2, <1>3, <1>5, <2>1, <2>2, <2>3, <2>4, <2>5, <2>6, <2>7, <2>8, <2>9
  <2>10. CASE ~free
    BY <1>1, <1>2, <1>3, <1>5, <2>1, <2>2, <2>3, <2>4, <2>5, <2>6, <2>7, <2>8, <2>10
  <2> QED BY <2>9, <2>10
<1> QED BY <1>4, <1>5

\* A command ends: the tasks that end with it are its timer and its start's.
LEMMA ClosedKeeps ==
  ASSUME IInv, NEW i \in Command, Close(i), applied' = applied, used' = used,
         task' \in [Task -> Tasks], \A u \in Task : task'[u] = task[u] \/ task'[u] = Idle,
         \A u \in Task : task'[u] # task[u] => \/ u = "timer" /\ i \in active
                                               \/ u \in Client /\ task[u].at = "s_audit" /\ task[u].id = i,
         task["timer"].what = i => task'["timer"] = Idle,
         \A x \in Start : robot'[x] # robot[x] => x = i /\ i \in active,
         i \in Start => robot'[i] \notin {"sent", "accepted"}
  PROVE  Core'
<1>0. Core /\ None \notin Start /\ None \notin Command /\ Client \subseteq Task /\ "timer" \in Task /\ "timer" \notin Client
  BY Constants DEF IInv, Gateway
<1>1. /\ task \in [Task -> Tasks] /\ owner \in [Start -> Owner] /\ owners \in Start \cup {None}
      /\ \A u \in Task : TaskFits(u, task[u])
  BY CoreIs
<1>2. \A u \in Task : task'[u] = task[u] \/ (task'[u].at = "idle" /\ task'[u].own = None /\ task'[u].what = None /\ ~task'[u].locked /\ ~Resets(task'[u]))
  BY IdleIs
<1>3. /\ owner' \in [Start -> Owner] /\ active' = active \ {i} /\ owners' \in {owners, None}
      /\ \A x \in Start : x # owners => owner'[x].client = owner[x].client /\ owner'[x].phase = owner[x].phase
      /\ owners # None =>
           /\ owner'[owners].phase \in Open => owner[owners].phase \in Open /\ i # owners
           /\ (\E t \in Task : task[t].own = owners) => owner'[owners].client = owner[owners].client
           /\ owners' = None => owner[owners].start_terminal \/ i = owners
      /\ owners' # None =>
           /\ owners' = owners
           /\ owner'[owners].seq = owner[owners].seq
           /\ owner'[owners].stop_ids = owner[owners].stop_ids \ {i}
           /\ owner'[owners].stop_issued = owner[owners].stop_issued
           /\ owner'[owners].start_terminal <=> owner[owners].start_terminal \/ i = owners
           /\ owner'[owners].phase = IF i = owners THEN "closing" ELSE owner[owners].phase
           /\ owner'[owners].start_terminal => owner'[owners].stop_ids # {}
  <2>1. CASE owners = None
    BY <2>1, CloseIs
  <2>2. CASE owners # None
    BY <2>2, CloseIs
  <2> QED BY <2>1, <2>2
<1>4. TaskTypes' /\ OwnerTypes'
  BY <1>1, <1>3, IdleIs DEF TaskTypes, OwnerTypes
<1>5. OneLock'
  BY <1>0, <1>2 DEF Core, OneLock
<1>6. OpenIsOwned'
  <2> SUFFICES ASSUME NEW x \in Start, owner'[x].phase \in Open
               PROVE  owners' = x /\ ~owner'[x].start_terminal /\ \A c \in Client : ~Resets(task'[c])
    BY DEF OpenIsOwned
  <2>1. owner[x].phase \in Open
    BY <1>0, <1>3
  <2>2. owners = x /\ ~owner[x].start_terminal /\ \A c \in Client : ~Resets(task[c])
    BY <1>0, <2>1 DEF Core, OpenIsOwned
  <2>3. i # x /\ owners' # None
    BY <1>0, <1>3, <2>2
  <2> QED BY <1>0, <1>2, <1>3, <2>2, <2>3
<1>7. Untouched'
  <2>1. Untouched
    BY <1>0 DEF Core
  <2>2. ASSUME NEW x \in Start,
               x \notin used \/ \E u \in Task : task'[u].at \in {"waiting", "s_lookup"} /\ task'[u].id = x
        PROVE  applied[x].kind = "none" /\ owners' # x /\ \A u \in Task : task'[u].own # x
    <3>1. x \notin used \/ \E u \in Task : task[u].at \in {"waiting", "s_lookup"} /\ task[u].id = x
      BY <1>2, <2>2
    <3> QED BY <1>0, <1>2, <1>3, <2>1, <3>1 DEF Untouched
  <2>3. ASSUME NEW x \in Start,
               x \notin used \/ \E u \in Task : task'[u].at \in {"waiting", "s_lookup", "s_audit"} /\ task'[u].id = x
        PROVE  x \notin active' /\ robot'[x] = "none"
    <3>1. x \notin used \/ \E u \in Task : task[u].at \in {"waiting", "s_lookup", "s_audit"} /\ task[u].id = x
      BY <1>2, <2>3
    <3> QED BY <1>3, <2>1, <3>1 DEF Untouched
  <2>4. ASSUME NEW x \in Start, x \notin used, NEW u \in Task, task'[u].at \in Starting PROVE task'[u].id # x
    BY <1>2, <2>1, <2>4 DEF Untouched, Starting
  <2> QED BY <2>2, <2>3, <2>4 DEF Untouched
<1>8. AtRobot'
  <2> SUFFICES ASSUME NEW x \in Start, robot'[x] \in {"sent", "accepted"}
               PROVE  owners' = x /\ ~owner'[x].start_terminal
    BY DEF AtRobot
  <2>1. x # i /\ robot'[x] = robot[x]
    OBVIOUS
  <2>2. owners = x /\ ~owner[x].start_terminal
    BY <1>0, <2>1 DEF Core, AtRobot
  <2> QED BY <1>0, <1>3, <2>1, <2>2
<1>9. Writers'
  <2> SUFFICES ASSUME NEW u \in Task
               PROVE  /\ task'[u].at \in Driving => owner'[task'[u].own].client = u
                      /\ task'[u].at \in Zeroing => owner'[task'[u].own].phase \notin Open
    BY DEF Writers
  <2>1. CASE task[u].at \in Zeroing \cup Driving /\ task'[u] = task[u]
    <3> DEFINE s == task[u].own
    <3>1. /\ s \in Start
          /\ task[u].at \in Driving => owner[s].client = u
          /\ task[u].at \in Zeroing => owner[s].phase \notin Open
      BY <2>1, WriterIs
    <3> QED BY <1>0, <1>3, <2>1, <3>1
  <2>2. CASE task'[u].at \notin Zeroing \cup Driving
    BY <2>2
  <2> QED BY <1>2, <2>1, <2>2 DEF Zeroing, Driving
<1>10. Halted'
  <2> SUFFICES ASSUME NEW x \in Start, applied[x].kind = "zero", owner'[x].phase \in Open
               PROVE  \E d \in Client : owner'[x].client = d /\ task'[d].at = "vel" /\ task'[d].own = x /\ task'[d].what = 0
    BY DEF Halted
  <2>1. owner[x].phase \in Open
    BY <1>0, <1>3
  <2>2. PICK d \in Client : owner[x].client = d /\ task[d].at = "vel" /\ task[d].own = x /\ task[d].what = 0
    BY <1>0, <2>1 DEF Core, Halted
  <2>3. task'[d] = task[d]
    BY <1>0, <2>2
  <2> QED BY <1>0, <1>3, <2>2, <2>3
<1>11. Counted'
  <2> SUFFICES ASSUME owners' # None
               PROVE  /\ owner'[owners].stop_ids = active' \ {owners}
                      /\ owner'[owners].stop_ids # {} => owner'[owners].stop_issued
                      /\ owner'[owners].start_terminal => owners \notin active' /\ owner'[owners].stop_ids # {}
                      /\ ~owner'[owners].start_terminal =>
                           owners \in active' \/ \E c \in Client : task'[c].at = "s_audit" /\ task'[c].id = owners
    BY <1>3 DEF Counted
  <2>1. owners # None /\ owners \in Start /\ Counted
    BY <1>0, <1>1, <1>3 DEF Core
  <2>2. ASSUME ~owner'[owners].start_terminal
        PROVE  owners \in active' \/ \E c \in Client : task'[c].at = "s_audit" /\ task'[c].id = owners
    <3>1. ~owner[owners].start_terminal /\ i # owners
      BY <1>3, <2>2
    <3>2. owners \in active \/ \E c \in Client : task[c].at = "s_audit" /\ task[c].id = owners
      BY <2>1, <3>1 DEF Counted
    <3>3. \A c \in Client : task[c].id = owners => task'[c] = task[c]
      BY <1>0, <3>1
    <3> QED BY <1>3, <3>1, <3>2, <3>3
  <2> QED BY <1>3, <2>1, <2>2 DEF Counted
<1>12. Told'
  <2> SUFFICES ASSUME owners' # None
               PROVE  /\ applied[owners].kind = "drive" => applied[owners].seq <= owner'[owners].seq
                      /\ \A u \in Task : task'[u].at = "zero" /\ task'[u].own = owners => applied[owners].kind # "drive"
                      /\ owner'[owners].phase = "closing" /\ ~owner'[owners].start_terminal =>
                           \/ applied[owners].kind # "drive" \/ owner'[owners].stop_issued
                           \/ \E u \in Task : task'[u].at \in Zeroing /\ task'[u].own = owners
    BY <1>3 DEF Told
  <2>1. owners # None /\ Counted /\ Told
    BY <1>0, <1>3 DEF Core
  <2>2. \A u \in Task : task'[u].at = "zero" => task'[u] = task[u]
    BY <1>2
  <2>3. ASSUME owner'[owners].phase = "closing", ~owner'[owners].start_terminal, applied[owners].kind = "drive",
               ~owner[owners].stop_issued
        PROVE  \E u \in Task : task'[u].at \in Zeroing /\ task'[u].own = owners
    <3>1. ~owner[owners].start_terminal /\ i # owners /\ owner[owners].phase = "closing"
      BY <1>3, <2>3
    <3>2. PICK u \in Task : task[u].at \in Zeroing /\ task[u].own = owners
      BY <2>1, <2>3, <3>1 DEF Told
    <3>3. i \notin active
      BY <2>1, <2>3, <3>1 DEF Counted
    <3>4. task'[u] = task[u]
      BY <3>2, <3>3 DEF Zeroing
    <3> QED BY <3>2, <3>4
  <2> QED BY <1>3, <2>1, <2>2, <2>3 DEF Told
<1>13. TimerFits'
  BY <1>0, <1>2, <1>3, IdleIs DEF Core, TimerFits
<1> QED BY <1>4, <1>5, <1>6, <1>7, <1>8, <1>9, <1>10, <1>11, <1>12, <1>13 DEF Core

LEMMA StartAuditKeeps == ASSUME IInv, NEW c \in Client, StartAudit(c) PROVE Core'
<1> DEFINE s == task[c].id
           q == [task[c] EXCEPT !.at = "s_send"]
<1>1. c \in Task /\ task[c].at = "s_audit" /\ applied' = applied /\ used' = used
  BY Constants DEF StartAudit
<1>2. /\ task \in [Task -> Tasks] /\ task[c] \in Tasks /\ s \in Start /\ s \in Command
  BY <1>1, CoreIs, Constants DEF TaskFits, Starting
<1>3. s \notin active /\ robot[s] = "none"
  BY <1>1, <1>2 DEF IInv, Core, Untouched
<1>4. CASE StillAuthorized(c)
  <2>1. /\ active' = active \cup {s} /\ robot' = [robot EXCEPT ![s] = "sent"]
        /\ task' = [task EXCEPT ![c].at = "s_send"] /\ owner' = owner /\ owners' = owners
    BY <1>4 DEF StartAudit
  <2>2. q \in Tasks /\ task' = [task EXCEPT ![c] = q]
    BY <1>2, <2>1 DEF Tasks, At
  <2> QED BY <1>1, <1>2, <1>4, <2>1, <2>2, PublishKeeps
<1>5. CASE ~StillAuthorized(c)
  <2>1. Close(s) /\ robot' = robot /\ task' = [task EXCEPT ![c] = Idle]
    BY <1>5 DEF StartAudit
  <2>2. /\ task' \in [Task -> Tasks] /\ task'[c] = Idle /\ \A u \in Task \ {c} : task'[u] = task[u]
    BY <1>1, <1>2, <2>1, IdleIs
  <2>3. task["timer"].what # s
    BY <1>2, <1>3, Constants DEF IInv, Core, TimerFits
  <2> HIDE DEF s
  <2> QED BY <1>1, <1>2, <1>3, <2>1, <2>2, <2>3, ClosedKeeps DEF s
<1> QED BY <1>4, <1>5

LEMMA TerminalKeeps == ASSUME IInv, NEW i \in Command, Terminal(i) PROVE Core'
<1>1. /\ i \in active /\ robot' = [robot EXCEPT ![i] = "ended"] /\ Close(i) /\ task' = WithoutTimers({i})
      /\ applied' = applied /\ used' = used
  BY DEF Terminal, Replies
<1>2. task \in [Task -> Tasks] /\ "timer" \in Task
  BY CoreIs, Constants DEF Gateway
<1>3. task' = [u \in Task |-> IF u = "timer" /\ task[u].what = i THEN Idle ELSE task[u]]
  BY <1>1, <1>2 DEF WithoutTimers, Cancelled
<1>4. /\ task' \in [Task -> Tasks]
      /\ \A u \in Task : task'[u] = task[u] \/ task'[u] = Idle
      /\ \A u \in Task : task'[u] # task[u] => u = "timer"
      /\ task["timer"].what = i => task'["timer"] = Idle
  BY <1>2, <1>3, IdleIs
<1>5. /\ \A x \in Start : robot'[x] # robot[x] => x = i
      /\ i \in Start => robot'[i] \notin {"sent", "accepted"}
  BY <1>1, Constants DEF IInv, OtherTypes
<1> QED BY <1>1, <1>4, <1>5, ClosedKeeps

\* The reset drops the owner; its own revocation, and the admission lock it
\* holds since, left no session open.
LEMMA ResetRetireKeeps == ASSUME IInv, NEW c \in Client, ResetRetire(c) PROVE Core'
<1>0. Core /\ None \notin Start /\ Client \subseteq Task /\ "timer" \in Task /\ "timer" \notin Client
  BY Constants DEF IInv, Gateway
<1>1. /\ task[c].at = "r_audit" /\ owners' = None /\ owner' = Unlocked(active) /\ active' = {}
      /\ task' = [WithoutTimers(active) EXCEPT ![c] = Idle]
      /\ robot' = [i \in Command |-> IF robot[i] \in {"sent", "accepted"} THEN "superseded" ELSE robot[i]]
      /\ used' = used /\ applied' = applied
  BY DEF ResetRetire
<1>2. /\ task \in [Task -> Tasks] /\ \A u \in Task : TaskFits(u, task[u])
      /\ owner \in [Start -> Owner]
  BY CoreIs
<1>3. /\ owner' \in [Start -> Owner]
      /\ \A x \in Start : owner'[x].client = owner[x].client /\ owner'[x].phase = owner[x].phase
  BY <1>1, UnlockedIs
<1>4. task' = [u \in Task |-> IF u = c \/ (u = "timer" /\ task[u].what \in active) THEN Idle ELSE task[u]]
  BY <1>0, <1>1, <1>2 DEF WithoutTimers, Cancelled
<1>5. /\ task' \in [Task -> Tasks]
      /\ \A u \in Task : task'[u] = task[u] \/ task'[u] = Idle
      /\ task["timer"].what \in active => task'["timer"] = Idle
  BY <1>0, <1>2, <1>4, IdleIs
<1>6. \A u \in Task : task'[u] = task[u] \/ (task'[u].at = "idle" /\ task'[u].own = None /\ ~task'[u].locked)
  BY <1>5, IdleIs
<1>7. \A x \in Start : owner'[x].phase \notin Open
  <2>1. Resets(task[c])
    BY <1>1 DEF Resets
  <2> QED BY <1>0, <1>3, <2>1 DEF Core, OpenIsOwned
<1>8. \A x \in Start : robot'[x] \notin {"sent", "accepted"} /\ (robot[x] = "none" => robot'[x] = "none")
  BY <1>1, Constants
<1>9. TaskTypes' /\ OwnerTypes'
  BY <1>1, <1>2, <1>3, <1>5, IdleIs DEF TaskTypes, OwnerTypes
<1>10. OneLock'
  BY <1>0, <1>6 DEF Core, OneLock
<1>11. OpenIsOwned' /\ AtRobot' /\ Halted'
  BY <1>7, <1>8 DEF OpenIsOwned, AtRobot, Halted
<1>12. Untouched'
  BY <1>0, <1>1, <1>6, <1>8 DEF Core, Untouched, Starting
<1>13. Writers'
  <2>1. \A u \in Task : task[u].at \in Zeroing \cup Driving => task[u].own \in Start
    BY WriterIs
  <2> QED BY <1>0, <1>3, <1>6, <2>1 DEF Core, Writers, Zeroing, Driving
<1>14. Counted' /\ Told'
  BY <1>1 DEF Counted, Told
<1>15. TimerFits'
  BY <1>0, <1>1, <1>5, IdleIs DEF Core, TimerFits
<1> QED BY <1>9, <1>10, <1>11, <1>12, <1>13, <1>14, <1>15 DEF Core

----------------------------------------------------------------------------
(* The rest of the state.                                                  *)

\* revoke withdraws every captured revision; a return withdraws none.
LEMMA RevisionsAre ==
  ASSUME rev_ok \subseteq Client, NEW t, NEW r
  PROVE  /\ \A ow, issue, sent : revoke(t, r, ow, issue, sent) => rev_ok' \subseteq Client
         /\ \A s, ow : IssueStop(t, r, s, ow, rev_ok) => rev_ok' \subseteq Client
         /\ changed(t, r) => rev_ok' \subseteq Client
<1>1. \A q, s, ow, revs : IssueStop(t, q, s, ow, revs) => rev_ok' \in {revs, {}}
  BY DEF IssueStop
<1>2. ASSUME NEW ow, NEW issue, NEW sent, revoke(t, r, ow, issue, sent)
      PROVE  rev_ok' = {}
  <2> DEFINE m == [r EXCEPT !.issue = issue, !.id = None, !.session = 0]
  <2>1. rev_ok' = {} \/ IssueStop(t, m, owners, Closing(ow, owners), {})
    BY <1>2 DEF revoke
  <2> HIDE DEF m
  <2> QED BY <1>1, <2>1
<1> QED BY <1>1, <1>2 DEF changed

\* What a bound leaves.
LEMMA SpendIs == ASSUME budget \in [Event -> Nat], NEW e \in Event, Spend(e) PROVE budget' \in [Event -> Nat]
<1> DEFINE n == budget[e] - 1
<1>1. n \in Nat
  BY DEF Spend
<1> HIDE DEF n
<1>2. budget' = [budget EXCEPT ![e] = n]
  BY DEF Spend, n
<1> QED BY <1>1, <1>2

\* What a frame leaves at the robot.
LEMMA WriteIs ==
  ASSUME applied \in [Start -> Applied], NEW s, NEW kind \in {"drive", "zero"}, NEW seq \in Nat, NEW speed \in Nat,
         Write(s, kind, seq, speed)
  PROVE  applied' \in [Start -> Applied]
<1> DEFINE a == [kind |-> kind, seq |-> seq, speed |-> speed]
<1>1. a \in Applied
  BY DEF Applied
<1>2. applied' = applied \/ applied' = [applied EXCEPT ![s] = a]
  BY DEF Write
<1> HIDE DEF a
<1> QED BY <1>1, <1>2

LEMMA NewEntryIs ==
  ASSUME OtherTypes, NEW k \in Nat
  PROVE  /\ [NewEntry EXCEPT !.conn = k] \in [acked : BOOLEAN, uncertain : BOOLEAN, conn : Nat]
         /\ NewEntry \in [acked : BOOLEAN, uncertain : BOOLEAN, conn : Nat]
         /\ NoEntry \in [acked : BOOLEAN, uncertain : BOOLEAN, conn : Nat]
BY DEF NewEntry, NoEntry, OtherTypes

\* A step of a task that is waiting.
LEMMA TasksKeepOthers ==
  ASSUME IInv, NEW t \in Task, TaskStep(t)
  PROVE  OtherTypes'
<1>0. OtherTypes /\ TaskFits(t, task[t]) /\ task[t] \in Tasks
  BY CoreIs DEF IInv, TaskFits
<1>1. CASE ZeroWrite(t)
  <2> DEFINE s == task[t].own
             n == owner[s].seq + 1
  <2>1. s \in Start /\ owner[s] \in Owner
    BY <1>1, WriterIs, CoreIs DEF ZeroWrite, Zeroing
  <2>2. n \in Nat /\ 0 \in Nat /\ "zero" \in {"drive", "zero"}
    BY <2>1 DEF Owner
  <2>3. Write(s, "zero", n, 0)
    BY <1>1 DEF ZeroWrite
  <2>4. applied \in [Start -> Applied]
    BY <1>0 DEF OtherTypes
  <2> HIDE DEF n, s
  <2>5. applied' \in [Start -> Applied]
    BY <2>2, <2>3, <2>4, WriteIs
  <2>6. UNCHANGED <<rev_ok, used, clientVars, linkVars, entryVars, resetVars, robot>>
    BY <1>1 DEF ZeroWrite
  <2> QED BY <1>0, <2>5, <2>6 DEF OtherTypes, clientVars, linkVars, entryVars, resetVars
<1>2. CASE ZeroEnd(t)
  <2>1. rev_ok' \subseteq Client
    BY <1>0, <1>2, RevisionsAre DEF ZeroEnd, OtherTypes
  <2>2. UNCHANGED <<used, clientVars, linkVars, entryVars, resetVars, robot, applied>>
    BY <1>2 DEF ZeroEnd
  <2> QED BY <1>0, <2>1, <2>2 DEF OtherTypes, clientVars, linkVars, entryVars, resetVars
<1>3. CASE Uncertain(t)
  <2>1. UNCHANGED <<rev_ok, used, clientVars, linkVars, active, resetVars, robot, applied>>
    BY <1>3 DEF Uncertain
  <2> DEFINE i == task[t].id
             e == [entry[i] EXCEPT !.uncertain = TRUE]
  <2>2. entry' = entry \/ entry' = [entry EXCEPT ![i] = e]
    BY <1>3 DEF Uncertain
  <2>3. entry' \in [Command -> [acked : BOOLEAN, uncertain : BOOLEAN, conn : Nat]]
    <3>1. i \in Command
      BY <1>0, <1>3 DEF Uncertain, TaskFits
    <3>2. entry \in [Command -> [acked : BOOLEAN, uncertain : BOOLEAN, conn : Nat]]
      BY <1>0 DEF OtherTypes
    <3>3. e \in [acked : BOOLEAN, uncertain : BOOLEAN, conn : Nat]
      BY <3>1, <3>2
    <3> HIDE DEF e, i
    <3> QED BY <2>2, <3>2, <3>3
  <2> QED BY <1>0, <2>1, <2>3 DEF OtherTypes, clientVars, linkVars, resetVars
<1>4. CASE Changed(t)
  <2>1. rev_ok' \subseteq Client
    BY <1>0, <1>4, RevisionsAre DEF Changed, OtherTypes
  <2>2. UNCHANGED <<used, clientVars, linkVars, entryVars, resetVars, robot, applied>>
    BY <1>4 DEF Changed
  <2> QED BY <1>0, <2>1, <2>2 DEF OtherTypes, clientVars, linkVars, entryVars, resetVars
<1>5. CASE StopLookup(t)
  BY <1>0, <1>5 DEF StopLookup, OtherTypes, clientVars, linkVars, entryVars, resetVars
<1>6. CASE StopAudit(t)
  <2> DEFINE i == task[t].id
             e == [NewEntry EXCEPT !.conn = task[t].session]
  <2>1. /\ active' = active \cup {i} /\ entry' = [entry EXCEPT ![i] = e]
        /\ robot' = robot \/ robot' = [robot EXCEPT ![i] = "sent"]
        /\ UNCHANGED <<rev_ok, used, clientVars, linkVars, resetVars, applied>>
    BY <1>6 DEF StopAudit
  <2>2. i \in Command /\ task[t].session \in Nat
    BY <1>0, <1>6, Constants DEF StopAudit, TaskFits, Stopping, Tasks
  <2>3. e \in [acked : BOOLEAN, uncertain : BOOLEAN, conn : Nat]
    BY <1>0, <2>2, NewEntryIs
  <2> HIDE DEF e, i
  <2>4. active' \subseteq Command /\ entry' \in [Command -> [acked : BOOLEAN, uncertain : BOOLEAN, conn : Nat]]
    BY <1>0, <2>1, <2>2, <2>3 DEF OtherTypes
  <2>5. robot' \in [Command -> {"none", "sent", "accepted", "ended", "superseded"}]
    BY <1>0, <2>1 DEF OtherTypes
  <2> QED BY <1>0, <2>1, <2>4, <2>5 DEF OtherTypes, clientVars, linkVars, resetVars
<1>7. CASE StopSend(t)
  <2>1. rev_ok' \subseteq Client
    <3>1. rev_ok' = rev_ok
          \/ revoke(t, [task[t] EXCEPT !.stack = Frame("uncertain", task[t].id) \o @], owner, FALSE, FALSE)
      BY <1>7 DEF StopSend
    <3> QED BY <1>0, <3>1, RevisionsAre DEF OtherTypes
  <2>2. UNCHANGED <<used, clientVars, linkVars, entryVars, resetVars, robot, applied>>
    BY <1>7 DEF StopSend
  <2> QED BY <1>0, <2>1, <2>2 DEF OtherTypes, clientVars, linkVars, entryVars, resetVars
<1> QED BY <1>1, <1>2, <1>3, <1>4, <1>5, <1>6, <1>7 DEF TaskStep

\* The end of a command in the server.
LEMMA CloseKeepsOthers ==
  ASSUME OtherTypes, NEW i \in Command, Close(i)
  PROVE  /\ rev_ok' \subseteq Client /\ active' \subseteq Command
         /\ entry' \in [Command -> [acked : BOOLEAN, uncertain : BOOLEAN, conn : Nat]]
<1>1. rev_ok' \in {{}, rev_ok} /\ active' = active \ {i} /\ entry' = [entry EXCEPT ![i] = NoEntry]
  BY DEF Close
<1>2. NoEntry \in [acked : BOOLEAN, uncertain : BOOLEAN, conn : Nat]
  BY DEF NoEntry
<1> QED BY <1>1, <1>2 DEF OtherTypes

LEMMA ClientsKeepOthers ==
  ASSUME IInv, NEW c \in Client, ClientStep(c)
  PROVE  OtherTypes'
<1>0. OtherTypes /\ c \in Task /\ TaskFits(c, task[c]) /\ task[c] \in Tasks
  BY CoreIs, Constants DEF IInv, TaskFits
<1>1. CASE VelocityWrite(c)
  <2> DEFINE s == task[c].own
             v == task[c].what
             k == IF v = 0 THEN "zero" ELSE "drive"
             n == owner[s].seq
  <2>1. s \in Start /\ owner[s] \in Owner /\ v \in Nat
    BY <1>0, <1>1, WriterIs, CoreIs DEF VelocityWrite, Driving
  <2>2. n \in Nat /\ k \in {"drive", "zero"}
    BY <2>1 DEF Owner
  <2>3. Write(s, k, n, v)
    BY <1>1 DEF VelocityWrite
  <2>4. applied \in [Start -> Applied]
    BY <1>0 DEF OtherTypes
  <2> HIDE DEF n, s, v, k
  <2>5. applied' \in [Start -> Applied]
    BY <2>1, <2>2, <2>3, <2>4, WriteIs
  <2>6. UNCHANGED <<rev_ok, used, clientVars, linkVars, entryVars, resetVars, robot>>
    BY <1>1 DEF VelocityWrite
  <2> QED BY <1>0, <2>5, <2>6 DEF OtherTypes, clientVars, linkVars, entryVars, resetVars
<1>2. CASE VelocityEnd(c)
  <2>1. rev_ok' \subseteq Client
    BY <1>0, <1>2, RevisionsAre DEF VelocityEnd, OtherTypes
  <2>2. UNCHANGED <<used, clientVars, linkVars, entryVars, resetVars, robot, applied>>
    BY <1>2 DEF VelocityEnd
  <2> QED BY <1>0, <2>1, <2>2 DEF OtherTypes, clientVars, linkVars, entryVars, resetVars
<1>3. CASE StartAdmit(c)
  <2>1. rev_ok' \subseteq Client
    BY <1>0, <1>3, RevisionsAre DEF StartAdmit, OtherTypes
  <2>2. /\ holder' \in {holder, c}
        /\ UNCHANGED <<used, connected, departed, linkVars, entryVars, resetVars, robot, applied>>
    BY <1>3 DEF StartAdmit
  <2> QED BY <1>0, <2>1, <2>2 DEF OtherTypes, linkVars, entryVars, resetVars
<1>4. CASE StartLookup(c)
  <2>1. UNCHANGED <<rev_ok, used, clientVars, linkVars, entryVars, resetVars, robot, applied>>
    BY <1>4 DEF StartLookup
  <2> QED BY <1>0, <2>1 DEF OtherTypes, clientVars, linkVars, entryVars, resetVars
<1>5. CASE StartAudit(c)
  <2> DEFINE s == task[c].id
  <2>1. s \in Start /\ s \in Command
    BY <1>0, <1>5, Constants DEF StartAudit, TaskFits, Starting
  <2>2. UNCHANGED <<used, clientVars, linkVars, resetVars, applied>>
    BY <1>5 DEF StartAudit
  <2>3. CASE StillAuthorized(c)
    <3>1. /\ active' = active \cup {s} /\ entry' = [entry EXCEPT ![s] = NewEntry]
          /\ robot' = [robot EXCEPT ![s] = "sent"] /\ rev_ok' = rev_ok
      BY <1>5, <2>3 DEF StartAudit
    <3>2. NewEntry \in [acked : BOOLEAN, uncertain : BOOLEAN, conn : Nat]
      BY <1>0, NewEntryIs DEF OtherTypes
    <3> HIDE DEF s
    <3> QED BY <1>0, <2>1, <2>2, <3>1, <3>2 DEF OtherTypes, clientVars, linkVars, resetVars
  <2>4. CASE ~StillAuthorized(c)
    <3>1. Close(s) /\ robot' = robot
      BY <1>5, <2>4 DEF StartAudit
    <3>2. /\ rev_ok' \subseteq Client /\ active' \subseteq Command
          /\ entry' \in [Command -> [acked : BOOLEAN, uncertain : BOOLEAN, conn : Nat]]
      BY <1>0, <2>1, <3>1, CloseKeepsOthers
    <3> QED BY <1>0, <2>2, <3>1, <3>2 DEF OtherTypes, clientVars, linkVars, resetVars
  <2> QED BY <2>3, <2>4
<1>6. CASE StartSend(c)
  <2>1. rev_ok' \subseteq Client
    <3>1. rev_ok' = rev_ok
          \/ revoke(c, [task[c] EXCEPT !.stack = Frame("uncertain", task[c].id)], owner, FALSE, FALSE)
      BY <1>6 DEF StartSend
    <3> QED BY <1>0, <3>1, RevisionsAre DEF OtherTypes
  <2>2. UNCHANGED <<used, clientVars, linkVars, entryVars, resetVars, robot, applied>>
    BY <1>6 DEF StartSend
  <2> QED BY <1>0, <2>1, <2>2 DEF OtherTypes, clientVars, linkVars, entryVars, resetVars
<1>7. CASE ResetLookup(c)
  BY <1>0, <1>7 DEF ResetLookup, OtherTypes, clientVars, linkVars, entryVars, resetVars
<1>8. CASE ResetRetire(c)
  <2>1. /\ UNCHANGED <<rev_ok, used, clientVars, linkVars, budget, applied>>
        /\ active' = {} /\ entry' = [i \in Command |-> NoEntry]
        /\ robot' = [i \in Command |-> IF robot[i] \in {"sent", "accepted"} THEN "superseded" ELSE robot[i]]
    BY <1>8 DEF ResetRetire
  <2>2. NoEntry \in [acked : BOOLEAN, uncertain : BOOLEAN, conn : Nat]
    BY DEF NoEntry
  <2>3. entry' \in [Command -> [acked : BOOLEAN, uncertain : BOOLEAN, conn : Nat]]
    BY <2>1, <2>2
  <2>4. robot' \in [Command -> {"none", "sent", "accepted", "ended", "superseded"}]
    BY <1>0, <2>1 DEF OtherTypes
  <2> QED BY <1>0, <2>1, <2>3, <2>4 DEF OtherTypes, clientVars, linkVars
<1> QED BY <1>1, <1>2, <1>3, <1>4, <1>5, <1>6, <1>7, <1>8 DEF ClientStep

LEMMA BrowsersKeepOthers ==
  ASSUME IInv, NEW c \in Client, Browser(c) \/ cancel_for_client(c)
  PROVE  OtherTypes'
<1>0. OtherTypes /\ c \in Task
  BY Constants DEF IInv
<1>s. \A e \in Event : Spend(e) => budget' \in [Event -> Nat]
  BY <1>0, SpendIs DEF OtherTypes
<1>r. \A r, ow, issue, sent : revoke(c, r, ow, issue, sent) => rev_ok' \subseteq Client
  BY <1>0, RevisionsAre DEF OtherTypes
<1>1. ASSUME NEW s \in Start, NEW takeover \in BOOLEAN, StartRequest(c, s, takeover)
      PROVE  OtherTypes'
  <2>1. /\ used' = used \cup {s} /\ rev_ok' = rev_ok \cup {c} /\ budget' \in [Event -> Nat]
        /\ UNCHANGED <<clientVars, linkVars, entryVars, robot, applied>>
    BY <1>1, <1>s DEF StartRequest, Event
  <2> QED BY <1>0, <2>1, Constants DEF OtherTypes, clientVars, linkVars, entryVars
<1>2. ASSUME NEW i \in Stop, StopRequest(c, i)
      PROVE  OtherTypes'
  <2>1. /\ used' = used \cup {i} /\ rev_ok' \subseteq Client /\ budget' \in [Event -> Nat]
        /\ UNCHANGED <<clientVars, linkVars, entryVars, robot, applied>>
    BY <1>2, <1>r, <1>s DEF StopRequest, Event
  <2> QED BY <1>0, <2>1, Constants DEF OtherTypes, clientVars, linkVars, entryVars
<1>3. ASSUME NEW v \in Speed, NEW deadman \in BOOLEAN, velocity(c, deadman, v)
      PROVE  OtherTypes'
  <2>1. /\ rev_ok' \subseteq Client /\ budget' \in [Event -> Nat]
        /\ UNCHANGED <<used, clientVars, linkVars, entryVars, robot, applied>>
    BY <1>0, <1>3, <1>r, <1>s DEF velocity, Event, OtherTypes
  <2> QED BY <1>0, <2>1 DEF OtherTypes, clientVars, linkVars, entryVars
<1>4. CASE Emergency(c)
  <2>1. /\ rev_ok' \subseteq Client /\ budget' \in [Event -> Nat]
        /\ UNCHANGED <<used, clientVars, linkVars, entryVars, robot, applied>>
    BY <1>4, <1>r, <1>s DEF Emergency, Event
  <2> QED BY <1>0, <2>1 DEF OtherTypes, clientVars, linkVars, entryVars
<1>5. CASE Ordinary(c)
  <2>1. /\ rev_ok' \subseteq Client /\ budget' \in [Event -> Nat] /\ holder' \in {holder, c}
        /\ UNCHANGED <<used, connected, departed, linkVars, entryVars, robot, applied>>
    BY <1>0, <1>5, <1>r, <1>s DEF Ordinary, Event, OtherTypes
  <2> QED BY <1>0, <2>1 DEF OtherTypes, linkVars, entryVars
<1>6. CASE ResetRequest(c)
  <2>1. /\ rev_ok' \subseteq Client /\ budget' \in [Event -> Nat]
        /\ UNCHANGED <<used, clientVars, linkVars, entryVars, robot, applied>>
    BY <1>6, <1>r, <1>s DEF ResetRequest, Event
  <2> QED BY <1>0, <2>1 DEF OtherTypes, clientVars, linkVars, entryVars
<1>7. CASE Disconnect(c)
  <2>1. /\ connected' = connected \ {c} /\ departed' = departed \cup {c} /\ holder' \in {holder, None}
        /\ budget' \in [Event -> Nat]
        /\ UNCHANGED <<rev_ok, used, linkVars, entryVars, robot, applied>>
    BY <1>7, <1>s DEF Disconnect, Event
  <2> QED BY <1>0, <2>1 DEF OtherTypes, linkVars, entryVars
<1>8. CASE cancel_for_client(c)
  <2>1. /\ departed' = departed \ {c} /\ rev_ok' \subseteq Client
        /\ UNCHANGED <<used, holder, connected, linkVars, entryVars, resetVars, robot, applied>>
    BY <1>0, <1>8, RevisionsAre DEF cancel_for_client, OtherTypes
  <2> QED BY <1>0, <2>1 DEF OtherTypes, linkVars, entryVars, resetVars
<1> QED BY <1>1, <1>2, <1>3, <1>4, <1>5, <1>6, <1>7, <1>8 DEF Browser

LEMMA EventsKeepOthers ==
  ASSUME IInv, \/ \E i \in Command, w \in {"ack", "result"} : Timeout(i, w)
               \/ Connected \/ Hello \/ Disconnected \/ _monitor \/ Quiet \/ Expire \/ UNCHANGED vars
  PROVE  OtherTypes'
<1>0. OtherTypes
  BY DEF IInv
<1>s. \A e \in Event : Spend(e) => budget' \in [Event -> Nat]
  BY <1>0, SpendIs DEF OtherTypes
<1>r. \A t, r, ow, issue, sent : revoke(t, r, ow, issue, sent) => rev_ok' \subseteq Client
  BY <1>0, RevisionsAre DEF OtherTypes
<1>1. ASSUME NEW i \in Command, NEW w, Timeout(i, w)
      PROVE  OtherTypes'
  <2>1. /\ rev_ok' \subseteq Client /\ budget' \in [Event -> Nat]
        /\ UNCHANGED <<used, clientVars, linkVars, entryVars, robot, applied>>
    BY <1>1, <1>r, <1>s DEF Timeout, Event
  <2> QED BY <1>0, <2>1 DEF OtherTypes, clientVars, linkVars, entryVars
<1>2. CASE Connected
  <2>1. /\ conn' = conn + 1 /\ up' = TRUE
        /\ UNCHANGED <<rev_ok, used, clientVars, base, raw, entryVars, resetVars, robot, applied>>
    BY <1>2 DEF Connected
  <2> QED BY <1>0, <2>1 DEF OtherTypes, clientVars, entryVars, resetVars
<1>3. CASE Hello
  BY <1>0, <1>3 DEF Hello, OtherTypes, clientVars, entryVars, resetVars
<1>4. CASE Disconnected
  <2>1. /\ up' \in BOOLEAN
        /\ UNCHANGED <<rev_ok, used, clientVars, conn, base, raw, entryVars, resetVars, robot, applied>>
    BY <1>4 DEF Disconnected
  <2> QED BY <1>0, <2>1 DEF OtherTypes, clientVars, entryVars, resetVars
<1>5. CASE _monitor
  <2>1. /\ rev_ok' \subseteq Client
        /\ UNCHANGED <<used, clientVars, linkVars, entryVars, resetVars, robot, applied>>
    BY <1>0, <1>5, <1>r, RevisionsAre DEF _monitor, OtherTypes
  <2> QED BY <1>0, <2>1 DEF OtherTypes, clientVars, linkVars, entryVars, resetVars
<1>6. CASE Quiet
  <2>1. budget' \in [Event -> Nat] /\ UNCHANGED <<rev_ok, used, clientVars, linkVars, entryVars, robot, applied>>
    BY <1>6, <1>s DEF Quiet, Event
  <2> QED BY <1>0, <2>1 DEF OtherTypes, clientVars, linkVars, entryVars
<1>7. CASE Expire
  <2>1. budget' \in [Event -> Nat]
        /\ UNCHANGED <<rev_ok, used, clientVars, conn, up, base, raw, entryVars, robot, applied>>
    BY <1>7, <1>s DEF Expire, Event
  <2> QED BY <1>0, <2>1 DEF OtherTypes, clientVars, entryVars
<1>8. CASE UNCHANGED vars
  BY <1>0, <1>8 DEF vars, OtherTypes, clientVars, linkVars, entryVars, resetVars
<1> QED BY <1>1, <1>2, <1>3, <1>4, <1>5, <1>6, <1>7, <1>8

LEMMA RobotKeepsOthers == ASSUME IInv, Robot PROVE OtherTypes'
<1>0. OtherTypes
  BY DEF IInv
<1>s. \A e \in Event : Spend(e) => budget' \in [Event -> Nat]
  BY <1>0, SpendIs DEF OtherTypes
<1>r. \A t, r, ow, issue, sent : revoke(t, r, ow, issue, sent) => rev_ok' \subseteq Client
  BY <1>0, RevisionsAre DEF OtherTypes
<1>1. ASSUME NEW i \in Command, Accepted(i)
      PROVE  OtherTypes'
  <2> DEFINE e == [entry[i] EXCEPT !.acked = TRUE]
  <2>1. /\ rev_ok' \subseteq Client /\ robot' = [robot EXCEPT ![i] = "accepted"] /\ entry' = [entry EXCEPT ![i] = e]
        /\ UNCHANGED <<used, clientVars, linkVars, active, resetVars, applied>>
    BY <1>0, <1>1, <1>r DEF Accepted, OtherTypes
  <2>2. e \in [acked : BOOLEAN, uncertain : BOOLEAN, conn : Nat]
    BY <1>0 DEF OtherTypes
  <2> HIDE DEF e
  <2>3. entry' \in [Command -> [acked : BOOLEAN, uncertain : BOOLEAN, conn : Nat]]
    BY <1>0, <2>1, <2>2 DEF OtherTypes
  <2> QED BY <1>0, <2>1, <2>3 DEF OtherTypes, clientVars, linkVars, resetVars
<1>2. ASSUME NEW i \in Command, Terminal(i)
      PROVE  OtherTypes'
  <2>1. Close(i) /\ robot' = [robot EXCEPT ![i] = "ended"] /\ UNCHANGED <<used, clientVars, linkVars, resetVars, applied>>
    BY <1>2 DEF Terminal
  <2>2. /\ rev_ok' \subseteq Client /\ active' \subseteq Command
        /\ entry' \in [Command -> [acked : BOOLEAN, uncertain : BOOLEAN, conn : Nat]]
    BY <1>0, <2>1, CloseKeepsOthers
  <2> QED BY <1>0, <2>1, <2>2 DEF OtherTypes, clientVars, linkVars, resetVars
<1>3. ASSUME NEW i \in Command, ResultUnknown(i)
      PROVE  OtherTypes'
  <2>1. /\ rev_ok' \subseteq Client /\ budget' \in [Event -> Nat]
        /\ UNCHANGED <<used, clientVars, linkVars, entryVars, robot, applied>>
    BY <1>3, <1>r, <1>s DEF ResultUnknown, Event
  <2> QED BY <1>0, <2>1 DEF OtherTypes, clientVars, linkVars, entryVars
<1>4. ASSUME NEW b \in Base, NEW ok \in BOOLEAN, NEW p \in RawPolicy, Telemetry(b, ok, p)
      PROVE  OtherTypes'
  <2>1. /\ base' = b /\ raw' = p /\ budget' \in [Event -> Nat]
        /\ UNCHANGED <<rev_ok, used, clientVars, conn, up, entryVars, robot, applied>>
    BY <1>4, <1>s DEF Telemetry, Event
  <2> QED BY <1>0, <2>1 DEF OtherTypes, clientVars, entryVars
<1>5. CASE robot_connected \/ robot_disconnected
  <2>1. /\ rev_ok' \subseteq Client /\ budget' \in [Event -> Nat]
        /\ UNCHANGED <<used, clientVars, linkVars, entryVars, robot, applied>>
    BY <1>5, <1>r, <1>s DEF robot_connected, robot_disconnected, Event
  <2> QED BY <1>0, <2>1 DEF OtherTypes, clientVars, linkVars, entryVars
<1>6. CASE ResetDone
  BY <1>0, <1>6 DEF ResetDone, OtherTypes, clientVars, linkVars, entryVars
<1> QED BY <1>1, <1>2, <1>3, <1>4, <1>5, <1>6 DEF Robot

----------------------------------------------------------------------------
(* The invariant.                                                          *)

LEMMA InitHolds == Init => IInv
<1> SUFFICES ASSUME Init PROVE IInv
  OBVIOUS
<1>1. /\ task = [t \in Task |-> Idle] /\ owner = [s \in Start |-> NoOwner] /\ owners = None
      /\ \A t \in Task : task[t] = Idle
  BY DEF Init
<1>2. /\ NoOwner \in Owner /\ NoOwner.phase \notin Open
      /\ NoEntry \in [acked : BOOLEAN, uncertain : BOOLEAN, conn : Nat]
      /\ [kind |-> "none", seq |-> 0, speed |-> 0] \in Applied
  BY DEF NoOwner, NoEntry, Owner, Phase, Policies, Open, Applied
<1>3. OtherTypes
  BY <1>2, Constants DEF Init, OtherTypes
<1>4. TaskTypes /\ OwnerTypes
  BY <1>1, <1>2, IdleIs DEF TaskTypes, OwnerTypes
<1>5. OneLock /\ OpenIsOwned /\ Halted
  BY <1>1, <1>2, IdleIs, Constants DEF OneLock, OpenIsOwned, Halted
<1>6. Untouched
  BY <1>1, IdleIs, Constants DEF Init, Untouched, Starting
<1>7. AtRobot
  BY Constants DEF Init, AtRobot
<1>8. Writers
  BY <1>1, IdleIs DEF Writers, Zeroing, Driving
<1>9. Counted /\ Told
  BY <1>1 DEF Counted, Told
<1>10. TimerFits
  BY <1>1, IdleIs, Constants DEF TimerFits, Gateway
<1> QED BY <1>3, <1>4, <1>5, <1>6, <1>7, <1>8, <1>9, <1>10 DEF IInv, Core

LEMMA StepKeeps == IInv /\ [Next]_vars => IInv'
<1> SUFFICES ASSUME IInv, [Next]_vars PROVE IInv'
  OBVIOUS
<1>1. CASE \E t \in Task : TaskStep(t)
  <2>1. PICK t \in Task : TaskStep(t)
    BY <1>1
  <2>2. Core'
    BY <2>1, ZeroWriteKeeps, ZeroEndKeeps, UncertainKeeps, ChangedKeeps, StopLookupKeeps, StopAuditKeeps, StopSendKeeps
       DEF TaskStep
  <2> QED BY <2>1, <2>2, TasksKeepOthers DEF IInv
<1>2. CASE \E c \in Client : ClientStep(c)
  <2>1. PICK c \in Client : ClientStep(c)
    BY <1>2
  <2>2. Core'
    BY <2>1, VelocityWriteKeeps, VelocityEndKeeps, StartAdmitKeeps, StartLookupKeeps, StartAuditKeeps, StartSendKeeps,
       ResetLookupKeeps, ResetRetireKeeps DEF ClientStep
  <2> QED BY <2>1, <2>2, ClientsKeepOthers DEF IInv
<1>3. CASE \E c \in Client : Browser(c) \/ cancel_for_client(c)
  <2>1. PICK c \in Client : Browser(c) \/ cancel_for_client(c)
    BY <1>3
  <2>2. Core'
    BY <2>1, StartRequestKeeps, StopRequestKeeps, VelocityKeeps, EmergencyKeeps, OrdinaryKeeps, ResetRequestKeeps,
       EventKeeps, CancelKeeps DEF Browser
  <2> QED BY <2>1, <2>2, BrowsersKeepOthers DEF IInv
<1>4. CASE \/ \E i \in Command, w \in {"ack", "result"} : Timeout(i, w)
           \/ Connected \/ Hello \/ Disconnected \/ _monitor \/ Quiet \/ Expire \/ UNCHANGED vars
  <2>1. Core'
    BY <1>4, TimeoutKeeps, ConnectedKeeps, HelloKeeps, DisconnectedKeeps, MonitorKeeps, EventKeeps
  <2> QED BY <1>4, <2>1, EventsKeepOthers DEF IInv
<1>5. CASE Robot
  <2>1. Core'
    BY <1>5, AcceptedKeeps, TerminalKeeps, UnknownKeeps, TelemetryKeeps, ConnectKeeps, EventKeeps DEF Robot
  <2> QED BY <1>5, <2>1, RobotKeepsOthers DEF IInv
<1> QED BY <1>1, <1>2, <1>3, <1>4, <1>5 DEF Next

\* The inductive invariant of the specification.
LEMMA Invariant == Spec => []IInv
BY InitHolds, StepKeeps, PTL DEF Spec

----------------------------------------------------------------------------
(* What the server promises.                                               *)

\* Every variable keeps its type, and no handler's calls nest deeper than
\* revoke, the stop it issues and one call around them (TeleopController).
THEOREM TypesHold == Spec => []TypeOK
<1>1. IInv => TypeOK
  <2> SUFFICES ASSUME IInv PROVE TypeOK
    OBVIOUS
  <2>1. /\ OtherTypes /\ owner \in [Start -> Owner] /\ owners \in Start \cup {None}
        /\ \A t \in Task : TaskFits(t, task[t])
    BY CoreIs DEF IInv
  <2>2. ASSUME NEW t \in Task
        PROVE  /\ task[t].at \in At /\ task[t].own \in Start \cup {None}
               /\ task[t].id \in Command \cup {None} /\ Len(task[t].stack) <= 3
    <3>1. task[t] \in Tasks /\ StackFits(task[t], Depth(task[t]))
      BY <2>1 DEF TaskFits
    <3>2. Depth(task[t]) \in {0, 1, 2}
      BY DEF Depth
    <3>3. Len(task[t].stack) \in Nat /\ Len(task[t].stack) <= Depth(task[t])
      BY <3>1 DEF StackFits
    <3>4. Len(task[t].stack) <= 3
      BY <3>2, <3>3
    <3> QED BY <3>1, <3>4 DEF Tasks
  <2>3. ASSUME NEW s \in Start
        PROVE  /\ owner[s].phase \in Phase /\ owner[s].seq \in Nat
               /\ owner[s].stop_ids \subseteq Command \ Start
               /\ owner[s].send_lock \in Task \cup {None}
    <3>1. owner[s] \in Owner
      BY <2>1
    <3> QED BY <3>1 DEF Owner, StopId
  <2>4. \A s \in Start : applied[s].kind \in {"none", "drive", "zero"}
    BY <2>1 DEF OtherTypes, Applied
  <2> QED BY <2>1, <2>2, <2>3, <2>4 DEF TypeOK, OtherTypes
<1> QED BY <1>1, Invariant, PTL

\* At most one session is out at the robot: whatever start the robot still
\* has is the owner's, and terminal forgets the owner only when the robot is
\* done with it (TeleopController.prepare, teleop.py:55; terminal,
\* teleop.py:232).
THEOREM OneSession == Spec => []OneSessionAtTheRobot
<1>1. IInv => OneSessionAtTheRobot
  <2> SUFFICES ASSUME IInv PROVE OneSessionAtTheRobot
    OBVIOUS
  <2> DEFINE out == {s \in Start : robot[s] \in {"sent", "accepted"}}
  <2>1. out \subseteq {owners}
    BY DEF IInv, Core, AtRobot
  <2> HIDE DEF out
  <2>2. IsFiniteSet({owners}) /\ Cardinality({owners}) = 1
    BY FS_Singleton
  <2>3. IsFiniteSet(out) /\ Cardinality(out) <= Cardinality({owners})
    BY <2>1, <2>2, FS_Subset
  <2> QED BY <2>2, <2>3 DEF OneSessionAtTheRobot, out
<1> QED BY <1>1, Invariant, PTL

\* A session the server closed was told to halt, and a reply that frees it is
\* still due, once nobody in the server works on it any more
\* (TeleopController.revoke, teleop.py:203; terminal, teleop.py:232).
THEOREM ClosedForGood == Spec => []ClosedIsSound
<1>1. IInv => ClosedIsSound
  <2> SUFFICES ASSUME IInv, NEW s \in Start, owners = s, Settled(s)
               PROVE  /\ owner[s].phase = "closing" /\ ~owner[s].start_terminal =>
                           applied[s].kind # "drive" \/ owner[s].stop_issued
                      /\ ({s} \cup owner[s].stop_ids) \cap active # {}
    BY DEF ClosedIsSound, ClosedIsTold, OwnerCanBeFreed
  <2>1. owners # None /\ Counted /\ Told
    BY Constants DEF IInv, Core
  <2>2. \A t \in Task : task[t].own # s /\ task[t].at # "s_audit"
    BY DEF Settled
  <2>3. Client \subseteq Task
    BY Constants
  <2>4. owner[s].phase = "closing" /\ ~owner[s].start_terminal =>
          applied[s].kind # "drive" \/ owner[s].stop_issued
    BY <2>1, <2>2 DEF Told
  <2>5. ({s} \cup owner[s].stop_ids) \cap active # {}
    <3>1. CASE owner[s].start_terminal
      <4>1. owner[s].stop_ids = active \ {s} /\ owner[s].stop_ids # {}
        BY <2>1, <3>1 DEF Counted
      <4> QED BY <4>1
    <3>2. CASE ~owner[s].start_terminal
      <4>1. s \in active
        BY <2>1, <2>2, <2>3, <3>2 DEF Counted
      <4> QED BY <4>1
    <3> QED BY <3>1, <3>2
  <2> QED BY <2>4, <2>5
<1> QED BY <1>1, Invariant, PTL

\* Only two steps write to the robot.
LEMMA AppliedIs ==
  ASSUME [Next]_vars
  PROVE  \/ applied' = applied
         \/ \E t \in Task : ZeroWrite(t)
         \/ \E c \in Client : VelocityWrite(c)
<1>1. ASSUME NEW t \in Task, TaskStep(t)
      PROVE  applied' = applied \/ ZeroWrite(t)
  BY <1>1 DEF TaskStep, ZeroEnd, Uncertain, Changed, StopLookup, StopAudit, StopSend
<1>2. ASSUME NEW c \in Client, ClientStep(c)
      PROVE  applied' = applied \/ VelocityWrite(c)
  BY <1>2 DEF ClientStep, VelocityEnd, StartAdmit, StartLookup, StartAudit, StartSend, ResetLookup, ResetRetire
<1>3. ASSUME NEW c \in Client, Browser(c) \/ cancel_for_client(c)
      PROVE  applied' = applied
  BY <1>3 DEF Browser, cancel_for_client, StartRequest, StopRequest, velocity, Emergency, Ordinary, ResetRequest,
              Disconnect
<1>4. ASSUME NEW i \in Command, NEW w, Timeout(i, w)
      PROVE  applied' = applied
  BY <1>4 DEF Timeout
<1>5. CASE Robot
  BY <1>5 DEF Robot, Accepted, Terminal, ResultUnknown, Telemetry, robot_connected, robot_disconnected, ResetDone
<1>6. CASE Connected \/ Hello \/ Disconnected \/ _monitor \/ Quiet \/ Expire \/ UNCHANGED vars
  BY <1>6 DEF Connected, Hello, Disconnected, _monitor, Quiet, Expire, vars
<1> QED BY <1>1, <1>2, <1>3, <1>4, <1>5, <1>6 DEF Next

\* No frame moves the robot after a zero of the same session: a zero is
\* written to a session that is closed, or by the client whose release it was
\* and that closes the session before it sends again
\* (TeleopController.send, teleop.py:129).
THEOREM ZeroIsLast == Spec => NoDriveAfterZero
<1>1. IInv /\ [Next]_vars => [\A s \in Start : applied[s].kind = "zero" => applied'[s].kind = "zero"]_vars
  <2> SUFFICES ASSUME IInv, [Next]_vars, NEW s \in Start, applied[s].kind = "zero"
               PROVE  applied'[s].kind = "zero"
    OBVIOUS
  <2>1. applied \in [Start -> Applied]
    BY DEF IInv, OtherTypes
  <2>2. ASSUME NEW t \in Task, ZeroWrite(t)
        PROVE  applied'[s].kind = "zero"
    <3> DEFINE n == owner[task[t].own].seq + 1
    <3>1. Write(task[t].own, "zero", n, 0)
      BY <2>2 DEF ZeroWrite
    <3> HIDE DEF n
    <3> QED BY <2>1, <3>1 DEF Write
  <2>3. ASSUME NEW c \in Client, VelocityWrite(c)
        PROVE  applied'[s].kind = "zero"
    <3> DEFINE x == task[c].own
               v == task[c].what
    <3>1. v # 0 => x # s
      BY <2>3, DriveIs
    <3>2. Write(x, IF v = 0 THEN "zero" ELSE "drive", owner[x].seq, v)
      BY <2>3 DEF VelocityWrite
    <3> HIDE DEF x, v
    <3> QED BY <2>1, <3>1, <3>2 DEF Write
  <2> QED BY <2>2, <2>3, AppliedIs
<1> QED BY <1>1, Invariant, PTL DEF Spec, NoDriveAfterZero

=============================================================================
