---------------------------- MODULE ServerManual ----------------------------
(***************************************************************************)
(* Manual drive on the dashboard server: TeleopController and the          *)
(* teleop_start / teleop_stop paths of CommandBroker, for one robot.       *)
(*                                                                         *)
(* Every handler runs on one asyncio loop and gives way only at an await.  *)
(* A task is a browser's receive loop, the robot's receive loop, a new     *)
(* robot connection, the 50 ms monitor, or a timer (an acknowledgement or  *)
(* result timer, or the cancel_for_client task).  revoke is called from    *)
(* all of them and awaits twice, so its state is kept in the task: at is   *)
(* where it waits and stack what it returns to.  A teleop_stop that revoke *)
(* issues runs inside the same task.                                       *)
(*                                                                         *)
(* send_text hands the frame to the socket before it waits for the write   *)
(* to drain, so a frame is on the wire when its wait begins.  Database     *)
(* awaits are steps; what they store is CommandBroker's.                   *)
(***************************************************************************)
EXTENDS TeleopPolicy, Sequences, FiniteSets

CONSTANTS
  Client,     \* browser connections, each of its own operator
  Start,      \* command_ids of teleop_start requests
  From,       \* the browser each start comes from
  Stop,       \* command_ids of teleop_stop requests from a browser
  AutoStop,   \* the command_id of the teleop_stop revoke issues, per start
  Caps,       \* the capabilities the robot advertises
  RawPolicy,  \* what the policy provider may return
  Speed,      \* speeds a browser asks for
  Base,       \* drive-base session generations
  Budgets,    \* bounds: how often each event outside the server may happen
  MaxBusy,    \* bound: handlers in flight at once
  None

Gateway == {"robot", "gateway", "monitor", "timer"}
Task    == Client \cup Gateway
Command == Start \cup Stop \cup {AutoStop[s] : s \in Start}

Event   == {"start", "stop", "connect", "leave", "frame", "reset", "timeout", "news"}

ASSUME ServerManualAssumption ==
  /\ DOMAIN AutoStop = Start /\ DOMAIN From = Start
  /\ \A s, r \in Start : s # r => AutoStop[s] # AutoStop[r]
  /\ {AutoStop[s] : s \in Start} \cap (Start \cup Stop) = {}
  /\ Start \cap Stop = {} /\ Client \cap Gateway = {}
  /\ None \notin Command \cup Task
  /\ MaxBusy \in Nat
  /\ Budgets \subseteq [Event -> Nat]
  /\ Speed \subseteq 1 .. HardMax /\ Base \subseteq Nat

VARIABLES
  task,      \* what each task is doing
  rev_ok,    \* starts whose captured revision is still teleop.revisions
  owner,     \* the ManualOwner of each start
  owners,    \* teleop.owners: the start that owns the robot's manual input
  holder,    \* the client of the lease holder
  connected, \* clients whose receive loop runs
  departed,  \* clients whose cancel_for_client task has not run
  used,      \* command_ids requested so far
  conn, up,  \* the robot's session in hub.robots, and whether it has a socket
  base,      \* base_state.data.session_generation
  fresh,     \* base_state arrived on this connection
  clear,     \* teleop_reason(session.state) is None
  raw,       \* what the policy provider returns now
  active, entry,  \* self.active: the manual-drive commands
  reset_pending,
  budget,    \* events that may still happen
  robot,     \* external: how far the robot is with each command
  applied    \* external: the last velocity frame the robot took, per session

clientVars == <<holder, connected, departed>>
linkVars   == <<conn, up, base, fresh, clear, raw>>
entryVars  == <<active, entry>>
resetVars  == <<reset_pending, budget>>
vars == <<task, rev_ok, owner, owners, used, clientVars, linkVars, entryVars,
          resetVars, robot, applied>>

----------------------------------------------------------------------------
Open == {"pending", "active"}

Phase == Open \cup {"closing", "unknown"}

NoOwner == [client |-> None, conn |-> 0, base |-> 0, phase |-> "closing", seq |-> 0,
            quiet |-> FALSE, send_lock |-> None, start_terminal |-> FALSE,
            stop_ids |-> {}, stop_issued |-> FALSE, policy |-> Refused]

NoEntry == [acked |-> FALSE, uncertain |-> FALSE, conn |-> 0]

\* at: where the task waits; own: the owner whose socket it writes to; issue:
\* revoke's issue_stop; id: the command it handles; session: the connection it
\* captured; what: the frame or the connection it is about; locked: it holds
\* the admission lock; stack: where it goes when what it is in returns.
Idle == [at |-> "idle", own |-> None, issue |-> FALSE, id |-> None, session |-> 0,
         what |-> None, locked |-> FALSE, stack |-> <<>>]

At == {"idle", "waiting", "s_lookup", "s_audit", "s_send", "zero_q", "zero",
       "t_lookup", "t_audit", "t_send", "vel_q", "vel", "r_waiting", "r_lookup",
       "r_audit", "uncertain", "connect", "disconnect", "changed", "hello"}

TypeOK ==
  /\ \A t \in Task : task[t].at \in At /\ task[t].own \in Start \cup {None}
                     /\ task[t].id \in Command \cup {None} /\ Len(task[t].stack) <= 3
  /\ rev_ok \subseteq Client
  /\ \A s \in Start : /\ owner[s].phase \in Phase /\ owner[s].seq \in Nat
                      /\ owner[s].stop_ids \subseteq Command \ Start
                      /\ owner[s].send_lock \in Task \cup {None}
  /\ owners \in Start \cup {None}
  /\ holder \in Client \cup {None} /\ connected \subseteq Client /\ departed \subseteq Client
  /\ conn \in Nat /\ up \in BOOLEAN /\ base \in Base
  /\ raw \in RawPolicy
  /\ active \subseteq Command /\ used \subseteq Command
  /\ robot \in [Command -> {"none", "sent", "accepted", "ended", "superseded"}]
  /\ \A s \in Start : applied[s].kind \in {"none", "drive", "zero"}

\* The robot has connected and reported once; nobody has driven it yet.
Init ==
  /\ task = [t \in Task |-> Idle] /\ rev_ok = {}
  /\ owner = [s \in Start |-> NoOwner] /\ owners = None
  /\ holder = None /\ connected = Client /\ departed = {} /\ used = {}
  /\ conn = 1 /\ up = TRUE /\ base \in Base /\ fresh = TRUE /\ clear = TRUE
  /\ raw \in RawPolicy
  /\ active = {} /\ entry = [i \in Command |-> NoEntry]
  /\ reset_pending = FALSE /\ budget \in Budgets
  /\ robot = [i \in Command |-> "none"]
  /\ applied = [s \in Start |-> [kind |-> "none", seq |-> 0, speed |-> 0]]

----------------------------------------------------------------------------
(* What the handlers ask. *)

bound(s) == up /\ conn = owner[s].conn /\ base = owner[s].base

owns_lease(s) == holder = owner[s].client /\ owner[s].client \in connected

_resolve_policy == resolve_policy(Caps, raw, base)

_policy_problem(s) == _resolve_policy # owner[s].policy

LockFree == \A c \in Client : ~task[c].locked

\* A handler begins in an idle task, with at most MaxBusy of them in flight.
Begins(t) ==
  /\ task[t] = Idle
  /\ Cardinality({u \in Task : task[u] # Idle}) < MaxBusy

Spend(event) == budget[event] > 0 /\ budget' = [budget EXCEPT ![event] = @ - 1]

Opened(s) == owners = s /\ owner[s].phase \in Open

----------------------------------------------------------------------------
(* revoke.                                                                 *)

Resume(r) ==
  IF r.stack = <<>> THEN Idle
  ELSE [r EXCEPT !.at = Head(r.stack).at, !.id = Head(r.stack).id, !.own = None,
                 !.issue = FALSE, !.session = 0, !.stack = Tail(r.stack)]

Return(t, r) == task' = [task EXCEPT ![t] = Resume(r)]

Frame(at, id) == <<[at |-> at, id |-> id]>>

\* Mutant: the zero frame goes out and the phase stays what it was.
ClosingOnlyZeroes(ow, s) == ow

Closing(ow, s) == [ow EXCEPT ![s].phase = IF @ = "unknown" THEN @ ELSE "closing"]

\* The second half of revoke: teleop_stop, once per owner, through
\* handle_browser_request, which revokes again (with issue_stop false)
\* whoever owns the robot by then.
IssueStop(t, r, s, ow, revs) ==
  IF ~r.issue \/ ow[s].stop_issued
    THEN owner' = ow /\ rev_ok' = revs /\ Return(t, r)
  ELSE IF ~bound(s)
    THEN /\ owner' = [ow EXCEPT ![s].stop_issued = TRUE, ![s].phase = "unknown"]
         /\ rev_ok' = revs /\ Return(t, r)
  ELSE LET issued == [ow EXCEPT ![s].stop_issued = TRUE]
           call   == [r EXCEPT !.stack = Frame("t_lookup", AutoStop[s]) \o @]
       IN /\ rev_ok' = {}
          /\ IF owners # None /\ issued[owners].phase \in Open
               THEN /\ owner' = Closing(issued, owners)
                    /\ task' = [task EXCEPT ![t] = [call EXCEPT !.at = "zero_q",
                                                     !.own = owners, !.issue = FALSE]]
               ELSE owner' = issued /\ Return(t, call)

\* The first half of revoke, up to the zero frame it waits for.
revoke(t, r, ow, issue_stop, zero_sent) ==
  LET q == [r EXCEPT !.issue = issue_stop, !.id = None, !.session = 0]
  IN IF owners = None
       THEN owner' = ow /\ rev_ok' = {} /\ Return(t, q)
     ELSE IF ow[owners].phase \in Open /\ ~zero_sent
       THEN /\ owner' = Closing(ow, owners) /\ rev_ok' = {}
            /\ task' = [task EXCEPT ![t] = [q EXCEPT !.at = "zero_q", !.own = owners]]
       ELSE IssueStop(t, q, owners, Closing(ow, owners), {})

\* The robot takes a frame whose sequence number is new to the session.
Write(s, kind, seq, speed) ==
  applied' = IF seq > applied[s].seq
               THEN [applied EXCEPT ![s] = [kind |-> kind, seq |-> seq, speed |-> speed]]
               ELSE applied

\* send(): the lock is free, the owner is still bound, the frame is written.
ZeroWrite(t) ==
  LET s == task[t].own
  IN /\ task[t].at = "zero_q" /\ owner[s].send_lock = None /\ bound(s)
     /\ Write(s, "zero", owner[s].seq + 1, 0)
     /\ owner' = [owner EXCEPT ![s].send_lock = t]
     /\ task' = [task EXCEPT ![t].at = "zero"]
     /\ UNCHANGED <<rev_ok, owners, used, clientVars, linkVars, entryVars, resetVars, robot>>

\* Mutant: a zero frame that failed is taken for sent.
ZeroEndUnnoticed(t) ==
  LET s  == task[t].own
      ow == [owner EXCEPT ![s].send_lock = IF @ = t THEN None ELSE @]
  IN /\ \/ task[t].at = "zero"
        \/ task[t].at = "zero_q" /\ (~bound(s) \/ owner[s].send_lock # None)
     /\ IssueStop(t, task[t], s, ow, rev_ok)
     /\ UNCHANGED <<owners, used, clientVars, linkVars, entryVars, resetVars, robot, applied>>

\* send() returns to revoke: sent, or unbound, failed or timed out.
ZeroEnd(t) ==
  LET s  == task[t].own
      ow == [owner EXCEPT ![s].send_lock = IF @ = t THEN None ELSE @]
      failed == [ow EXCEPT ![s].phase = "unknown"]
  IN /\ \/ /\ task[t].at = "zero"
           /\ \/ bound(s) /\ IssueStop(t, task[t], s, ow, rev_ok)
              \/ IssueStop(t, task[t], s, failed, rev_ok)
        \/ /\ task[t].at = "zero_q" /\ (~bound(s) \/ owner[s].send_lock # None)
           /\ IssueStop(t, task[t], s, failed, rev_ok)
     /\ UNCHANGED <<owners, used, clientVars, linkVars, entryVars, resetVars, robot, applied>>

----------------------------------------------------------------------------
(* velocity.                                                               *)

\* A deadman frame while the session may move, or a release at any time.
\* Old sequence numbers, stale stamps and frames over the rate are dropped.
velocity(c, deadman, speed) ==
  LET s == owners
      n == owner[s].seq + 1
      call == [Idle EXCEPT !.own = s, !.what = IF deadman THEN speed ELSE 0]
      taken == [owner EXCEPT ![s].seq = n, ![s].quiet = FALSE]
  IN /\ c \in connected /\ Begins(c)
     /\ s # None /\ owner[s].client = c /\ Spend("frame")
     /\ bound(s) /\ owns_lease(s)
     /\ \/ /\ deadman /\ owner[s].phase = "active"
           /\ ~clear \/ _policy_problem(s) \/ over_policy(owner[s].policy, Envelope(speed))
           /\ revoke(c, Idle, owner, TRUE, FALSE)
        \/ /\ deadman => /\ owner[s].phase = "active" /\ clear
                         /\ ~_policy_problem(s)
                         /\ ~over_policy(owner[s].policy, Envelope(speed))
                         /\ owner[s].send_lock = None
           /\ owner' = taken /\ UNCHANGED rev_ok
           /\ task' = [task EXCEPT ![c] = [call EXCEPT !.at = "vel_q"]]
     /\ UNCHANGED <<owners, used, clientVars, linkVars, entryVars, reset_pending, robot, applied>>

\* Under the send lock: bound, and for a deadman frame active and leased.
MayWrite(c) ==
  LET s == task[c].own
  IN bound(s) /\ (task[c].what # 0 => owner[s].phase = "active" /\ owns_lease(s))

VelocityWrite(c) ==
  LET s == task[c].own
      v == task[c].what
  IN /\ task[c].at = "vel_q" /\ owner[s].send_lock = None /\ MayWrite(c)
     /\ Write(s, IF v = 0 THEN "zero" ELSE "drive", owner[s].seq, v)
     /\ owner' = [owner EXCEPT ![s].send_lock = c]
     /\ task' = [task EXCEPT ![c].at = "vel"]
     /\ UNCHANGED <<rev_ok, owners, used, clientVars, linkVars, entryVars, resetVars, robot>>

\* Back in velocity: a failed send revokes, a sent release revokes too.
VelocityEnd(c) ==
  LET s  == task[c].own
      ow == [owner EXCEPT ![s].send_lock = IF @ = c THEN None ELSE @]
  IN /\ \/ /\ task[c].at = "vel" /\ bound(s) /\ task[c].what # 0
           /\ owner' = ow /\ task' = [task EXCEPT ![c] = Idle] /\ UNCHANGED rev_ok
        \/ /\ task[c].at = "vel" /\ bound(s) /\ task[c].what = 0
           /\ revoke(c, Idle, ow, TRUE, TRUE)
        \/ /\ \/ task[c].at = "vel"
              \/ task[c].at = "vel_q" /\ (~MayWrite(c) \/ owner[s].send_lock # None)
           /\ revoke(c, Idle, ow, TRUE, FALSE)
     /\ UNCHANGED <<owners, used, clientVars, linkVars, entryVars, resetVars, robot, applied>>

----------------------------------------------------------------------------
(* terminal and _finish.                                                   *)

\* Mutant: a stop that is answered stays in stop_ids.
TerminalKeepsStops(i, ow) ==
  IF owners = None THEN [owner |-> ow, owners |-> None]
  ELSE LET p == [ow[owners] EXCEPT !.start_terminal = @ \/ i = owners,
                          !.phase = IF i = owners THEN "closing" ELSE @]
       IN [owner  |-> [ow EXCEPT ![owners] = p],
           owners |-> IF p.start_terminal /\ p.stop_ids = {} THEN None ELSE owners]

\* terminal: the owner is freed when its start and all its stops are.  The
\* record of an owner no task refers to is forgotten.
terminal(i, ow) ==
  IF owners = None THEN [owner |-> ow, owners |-> None]
  ELSE LET o == ow[owners]
           p == [o EXCEPT !.start_terminal = @ \/ i = owners,
                          !.phase = IF i = owners THEN "closing" ELSE @,
                          !.stop_ids = @ \ {i}]
           free == p.start_terminal /\ p.stop_ids = {}
           held == \E t \in Task : task[t].own = owners
       IN [owner  |-> [ow EXCEPT ![owners] = IF free /\ ~held THEN NoOwner ELSE p],
           owners |-> IF free THEN None ELSE owners]

\* cancel_timers ends the timer tasks of the entries, wherever they wait; a
\* send lock one of them holds is released.
Cancelled(ids) == {t \in {"timer"} : task[t].what \in ids}

WithoutTimers(ids) == [t \in Task |-> IF t \in Cancelled(ids) THEN Idle ELSE task[t]]

Unlocked(ids) ==
  [s \in Start |-> IF owner[s].send_lock \in Cancelled(ids)
                     THEN [owner[s] EXCEPT !.send_lock = None] ELSE owner[s]]

\* terminal followed by _finish, for a reply or for a start never published.
Close(i) ==
  LET done == terminal(i, Unlocked({i}))
  IN /\ owner' = done.owner /\ owners' = done.owners
     /\ rev_ok' = IF i = owners THEN {} ELSE rev_ok
     /\ active' = active \ {i} /\ entry' = [entry EXCEPT ![i] = NoEntry]

----------------------------------------------------------------------------
(* teleop_start.                                                           *)

\* The revision is captured before the admission lock is waited for.
StartRequest(c, s, takeover) ==
  /\ c = From[s] /\ c \in connected /\ Begins(c) /\ s \notin used /\ Spend("start")
  /\ used' = used \cup {s} /\ rev_ok' = rev_ok \cup {c}
  /\ task' = [task EXCEPT ![c] = [Idle EXCEPT !.at = "waiting", !.id = s, !.what = takeover]]
  /\ UNCHANGED <<owner, owners, clientVars, linkVars, entryVars, reset_pending, robot, applied>>

StartAdmit(c) ==
  LET held == [task[c] EXCEPT !.locked = TRUE, !.what = None]
  IN /\ task[c].at = "waiting" /\ LockFree
     /\ \/ /\ owners # None /\ task[c].what
           /\ revoke(c, held, owner, TRUE, FALSE) /\ UNCHANGED holder
        \/ /\ owners = None /\ ~reset_pending
           /\ holder \in {None, c} \/ task[c].what
           /\ holder' = c /\ UNCHANGED <<owner, rev_ok>>
           /\ task' = [task EXCEPT ![c] = [held EXCEPT !.at = "s_lookup"]]
        \/ \* rejected: owned, reset pending, rate limit, lease, LiDAR barrier
           /\ ~(owners # None /\ task[c].what)
           /\ task' = [task EXCEPT ![c] = Idle] /\ UNCHANGED <<owner, rev_ok, holder>>
     /\ UNCHANGED <<owners, used, connected, departed, linkVars, entryVars, resetVars,
                    robot, applied>>

\* What prepare asks, after the gate and the revision check.
prepare(c) ==
  /\ up /\ clear /\ c \in rev_ok
  /\ owners = None /\ active = {} /\ fresh
  /\ _resolve_policy # Refused

StartLookup(c) ==
  LET s == task[c].id
  IN /\ task[c].at = "s_lookup"
     /\ IF prepare(c)
          THEN /\ owners' = s
               /\ owner' = [owner EXCEPT ![s] = [NoOwner EXCEPT !.client = c, !.conn = conn,
                              !.base = base, !.phase = "pending", !.policy = _resolve_policy]]
               /\ task' = [task EXCEPT ![c].at = "s_audit", ![c].session = conn]
          ELSE task' = [task EXCEPT ![c] = Idle] /\ UNCHANGED <<owner, owners>>
     /\ UNCHANGED <<rev_ok, used, clientVars, linkVars, entryVars, resetVars, robot, applied>>

StillAuthorized(c) ==
  LET s == task[c].id
  IN /\ owners = s /\ owner[s].phase = "pending" /\ c \in rev_ok
     /\ bound(s) /\ owns_lease(s) /\ clear

NewEntry == [acked |-> FALSE, uncertain |-> FALSE, conn |-> conn]

StartAudit(c) ==
  LET s == task[c].id
  IN /\ task[c].at = "s_audit"
     /\ IF StillAuthorized(c)
          THEN /\ active' = active \cup {s} /\ entry' = [entry EXCEPT ![s] = NewEntry]
               /\ robot' = [robot EXCEPT ![s] = "sent"]
               /\ task' = [task EXCEPT ![c].at = "s_send"]
               /\ UNCHANGED <<owner, owners, rev_ok>>
          ELSE /\ Close(s) /\ UNCHANGED robot
               /\ task' = [task EXCEPT ![c] = Idle]
     /\ UNCHANGED <<used, clientVars, linkVars, resetVars, applied>>

\* The bounded send ends: sent on the session it was meant for, or unknown.
StartSend(c) ==
  LET s == task[c].id
  IN /\ task[c].at = "s_send"
     /\ \/ /\ up /\ conn = task[c].session
           /\ task' = [task EXCEPT ![c] = Idle] /\ UNCHANGED <<owner, rev_ok>>
        \/ revoke(c, [task[c] EXCEPT !.stack = Frame("uncertain", s)], owner, FALSE, FALSE)
     /\ UNCHANGED <<owners, used, clientVars, linkVars, entryVars, resetVars, robot, applied>>

\* Mutant: an unknown outcome frees the owner like a known one.
UncertainFrees(t) ==
  LET i == task[t].id
  IN /\ task[t].at = "uncertain" /\ Return(t, task[t])
     /\ owners' = None /\ active' = active \ {i}
     /\ UNCHANGED <<rev_ok, owner, used, clientVars, linkVars, entry, resetVars, robot, applied>>

\* _mark_uncertain.
Uncertain(t) ==
  LET i == task[t].id
  IN /\ task[t].at = "uncertain" /\ Return(t, task[t])
     /\ IF i \in active
          THEN /\ entry' = [entry EXCEPT ![i].uncertain = TRUE]
               /\ owner' = IF owners = None THEN owner
                           ELSE [owner EXCEPT ![owners].phase = "unknown"]
          ELSE UNCHANGED <<entry, owner>>
     /\ UNCHANGED <<rev_ok, owners, used, clientVars, linkVars, active, resetVars, robot, applied>>

----------------------------------------------------------------------------
(* teleop_stop, from a browser or from revoke.                             *)

StopRequest(c, i) ==
  /\ c \in connected /\ Begins(c) /\ i \in Stop \ used /\ Spend("stop")
  /\ used' = used \cup {i}
  /\ revoke(c, [Idle EXCEPT !.stack = Frame("t_lookup", i)], owner, FALSE, FALSE)
  /\ UNCHANGED <<owners, clientVars, linkVars, entryVars, reset_pending, robot, applied>>

\* Rejected when the robot is not connected.
StopLookup(t) ==
  /\ task[t].at = "t_lookup"
  /\ IF up THEN task' = [task EXCEPT ![t].at = "t_audit", ![t].session = conn]
           ELSE Return(t, task[t])
  /\ UNCHANGED <<rev_ok, owner, owners, used, clientVars, linkVars, entryVars, resetVars,
                 robot, applied>>

\* Mutant: the owner waits for its own start as if it were the stop.
StopPendingSwapped(i) ==
  IF owners = None THEN owner
  ELSE [owner EXCEPT ![owners].stop_ids = @ \cup {owners}, ![owners].stop_issued = TRUE]

stop_pending(i) ==
  IF owners = None THEN owner
  ELSE [owner EXCEPT ![owners].stop_ids = @ \cup {i}, ![owners].stop_issued = TRUE]

StopAudit(t) ==
  LET i == task[t].id
  IN /\ task[t].at = "t_audit"
     /\ active' = active \cup {i}
     /\ entry' = [entry EXCEPT ![i] = [NewEntry EXCEPT !.conn = task[t].session]]
     /\ owner' = stop_pending(i)
     /\ robot' = IF up /\ conn = task[t].session THEN [robot EXCEPT ![i] = "sent"] ELSE robot
     /\ task' = [task EXCEPT ![t].at = "t_send"]
     /\ UNCHANGED <<rev_ok, owners, used, clientVars, linkVars, resetVars, applied>>

StopSend(t) ==
  LET i == task[t].id
  IN /\ task[t].at = "t_send"
     /\ \/ /\ up /\ conn = task[t].session
           /\ Return(t, task[t]) /\ UNCHANGED <<owner, rev_ok>>
        \/ revoke(t, [task[t] EXCEPT !.stack = Frame("uncertain", i) \o @], owner, FALSE, FALSE)
     /\ UNCHANGED <<owners, used, clientVars, linkVars, entryVars, resetVars, robot, applied>>

----------------------------------------------------------------------------
(* The other commands, as far as manual drive sees them.                   *)

\* stop and motor_disable, from any browser, before anything is awaited.
Emergency(c) ==
  /\ c \in connected /\ Begins(c) /\ owners # None /\ Spend("stop")
  /\ revoke(c, Idle, owner, TRUE, FALSE)
  /\ UNCHANGED <<owners, used, clientVars, linkVars, entryVars, reset_pending, robot, applied>>

\* Any other command: refused while there is an owner, and otherwise it takes
\* the lease.
Ordinary(c) ==
  /\ c \in connected /\ Begins(c) /\ LockFree /\ ~reset_pending
  /\ Spend("stop")
  /\ IF owners # None
       THEN revoke(c, [Idle EXCEPT !.locked = TRUE], owner, TRUE, FALSE) /\ UNCHANGED holder
       ELSE holder' = c /\ UNCHANGED <<owner, rev_ok, task>>
  /\ UNCHANGED <<owners, used, connected, departed, linkVars, entryVars, reset_pending, robot,
                 applied>>

ResetRequest(c) ==
  /\ c \in connected /\ Begins(c) /\ LockFree /\ ~reset_pending /\ Spend("reset")
  /\ revoke(c, [Idle EXCEPT !.locked = TRUE, !.stack = Frame("r_lookup", None)], owner, TRUE, FALSE)
  /\ UNCHANGED <<owners, used, clientVars, linkVars, entryVars, reset_pending, robot, applied>>

ResetLookup(c) ==
  /\ task[c].at = "r_lookup"
  /\ task' = [task EXCEPT ![c] = IF up THEN [@ EXCEPT !.at = "r_audit"] ELSE Idle]
  /\ UNCHANGED <<rev_ok, owner, owners, used, clientVars, linkVars, entryVars, resetVars,
                 robot, applied>>

\* The owner is dropped and every manual-drive command retired; the robot's
\* supervisor restarts what served them.
ResetRetire(c) ==
  /\ task[c].at = "r_audit"
  /\ owners' = None /\ owner' = Unlocked(active)
  /\ active' = {} /\ entry' = [i \in Command |-> NoEntry]
  /\ task' = [WithoutTimers(active) EXCEPT ![c] = Idle]
  /\ reset_pending' = TRUE
  /\ robot' = [i \in Command |-> IF robot[i] \in {"sent", "accepted"} THEN "superseded" ELSE robot[i]]
  /\ UNCHANGED <<rev_ok, used, clientVars, linkVars, budget, applied>>

ResetDone ==
  /\ reset_pending /\ up /\ reset_pending' = FALSE
  /\ UNCHANGED <<task, rev_ok, owner, owners, used, clientVars, linkVars, entryVars, budget,
                 robot, applied>>

\* browser_disconnected: the lease goes with the client, its task comes later.
Disconnect(c) ==
  /\ c \in connected /\ Begins(c) /\ Spend("leave")
  /\ connected' = connected \ {c} /\ departed' = departed \cup {c}
  /\ holder' = IF holder = c THEN None ELSE holder
  /\ UNCHANGED <<task, rev_ok, owner, owners, used, linkVars, entryVars, reset_pending, robot,
                 applied>>

cancel_for_client(c) ==
  /\ c \in departed /\ Begins("timer")
  /\ departed' = departed \ {c}
  /\ IF owners # None /\ owner[owners].client = c
       THEN revoke("timer", Idle, owner, TRUE, FALSE)
       ELSE UNCHANGED <<task, owner, rev_ok>>
  /\ UNCHANGED <<owners, used, holder, connected, linkVars, entryVars, resetVars, robot, applied>>

----------------------------------------------------------------------------
(* Timers and the monitor.                                                 *)

\* _ack_timeout and _result_timeout.
Timeout(i, which) ==
  /\ Begins("timer") /\ i \in active /\ Spend("timeout")
  /\ which = "ack" => ~entry[i].acked
  /\ revoke("timer", [Idle EXCEPT !.what = i, !.stack = Frame("uncertain", i)], owner, TRUE, FALSE)
  /\ UNCHANGED <<owners, used, clientVars, linkVars, entryVars, reset_pending, robot, applied>>

\* Mutant: only the connection is asked about, not the lease, gate or policy.
LostUnasked(s) == ~bound(s)

\* What changed asks of an open session.
Lost(s) == ~bound(s) \/ ~owns_lease(s) \/ ~clear \/ _policy_problem(s)

\* changed, at the end of every robot message and on every monitor tick.
changed(t, r) ==
  IF owners # None /\ Opened(owners) /\ Lost(owners)
    THEN revoke(t, r, owner, TRUE, FALSE)
    ELSE Return(t, r) /\ UNCHANGED <<owner, rev_ok>>

\* One tick with an open session: the producer's deadline, or changed.
_monitor ==
  /\ Begins("monitor") /\ owners # None /\ Opened(owners)
  /\ owner[owners].quiet \/ Lost(owners)
  /\ IF owner[owners].quiet THEN revoke("monitor", Idle, owner, TRUE, FALSE)
                            ELSE changed("monitor", Idle)
  /\ UNCHANGED <<owners, used, clientVars, linkVars, entryVars, resetVars, robot, applied>>

\* The deadline passes without a frame.
Quiet ==
  /\ owners # None /\ Opened(owners) /\ ~owner[owners].quiet
  /\ Spend("news")
  /\ owner' = [owner EXCEPT ![owners].quiet = TRUE]
  /\ UNCHANGED <<task, rev_ok, owners, used, clientVars, linkVars, entryVars, reset_pending, robot, applied>>

----------------------------------------------------------------------------
(* The robot's connection and its messages.                                *)

robot_connected ==
  /\ Begins("gateway") /\ Spend("connect")
  /\ revoke("gateway", [Idle EXCEPT !.stack = Frame("connect", None)], owner, TRUE, FALSE)
  /\ UNCHANGED <<owners, used, clientVars, linkVars, entryVars, reset_pending, robot, applied>>

\* The new session replaces the old one; its capabilities start empty and the
\* tuning provider has nothing for it yet.
Connected ==
  /\ task["gateway"].at = "connect"
  /\ task' = [task EXCEPT !["gateway"] = [@ EXCEPT !.at = "changed", !.stack = Frame("hello", None)]]
  /\ conn' = conn + 1 /\ up' = TRUE /\ fresh' = FALSE /\ clear' = FALSE
  /\ UNCHANGED <<rev_ok, owner, owners, used, clientVars, base, raw, entryVars, resetVars,
                 robot, applied>>

\* The capabilities of the hello frame: what was measured on the connection
\* before may still be young enough for the gate.
Hello ==
  /\ task["gateway"].at = "hello"
  /\ task' = [task EXCEPT !["gateway"] = Idle] /\ clear' \in BOOLEAN
  /\ UNCHANGED <<rev_ok, owner, owners, used, clientVars, conn, up, base, fresh, raw, entryVars,
                 resetVars, robot, applied>>

robot_disconnected ==
  /\ up /\ Begins("robot") /\ Spend("connect")
  /\ revoke("robot", [Idle EXCEPT !.what = conn, !.stack = Frame("disconnect", None)],
            owner, TRUE, FALSE)
  /\ UNCHANGED <<owners, used, clientVars, linkVars, entryVars, reset_pending, robot, applied>>

\* The socket is cleared on the session that lost it; the state it shares with
\* a session that replaced it during the wait is cleared all the same.
Disconnected ==
  /\ task["robot"].at = "disconnect"
  /\ task' = [task EXCEPT !["robot"].at = "changed"]
  /\ up' = (up /\ conn # task["robot"].what) /\ clear' = FALSE
  /\ UNCHANGED <<rev_ok, owner, owners, used, clientVars, conn, base, fresh, raw, entryVars,
                 resetVars, robot, applied>>

\* base_state, pose, capabilities or a tuning snapshot: the state changes, and
\* changed runs after the events are stored.
Telemetry(b, ok, p) ==
  /\ up /\ Begins("robot") /\ Spend("news")
  /\ base' = b /\ clear' = ok /\ raw' = p /\ fresh' = TRUE
  /\ task' = [task EXCEPT !["robot"] = [Idle EXCEPT !.at = "changed"]]
  /\ UNCHANGED <<rev_ok, owner, owners, used, clientVars, conn, up, entryVars, reset_pending,
                 robot, applied>>

Changed(t) ==
  /\ task[t].at = "changed" /\ changed(t, task[t])
  /\ UNCHANGED <<owners, used, clientVars, linkVars, entryVars, resetVars, robot, applied>>

\* A reading or the policy grows too old with no message to say so.
Expire ==
  /\ clear /\ clear' = FALSE /\ Spend("news")
  /\ UNCHANGED <<task, rev_ok, owner, owners, used, clientVars, conn, up, base, fresh, raw,
                 entryVars, reset_pending, robot, applied>>

\* A reply counts only on the session its command was published to.
Replies(i) == up /\ Begins("robot") /\ i \in active /\ entry[i].conn = conn

\* command.ack, accepted.
Accepted(i) ==
  /\ Replies(i) /\ robot[i] \in {"sent", "accepted"}
  /\ robot' = [robot EXCEPT ![i] = "accepted"]
  /\ entry' = [entry EXCEPT ![i].acked = TRUE]
  /\ IF i \notin Start THEN UNCHANGED <<task, owner, rev_ok>>
     ELSE IF Opened(i) /\ bound(i) /\ owns_lease(i) /\ clear
       THEN /\ owner' = [owner EXCEPT ![i].phase = "active",
                            ![i].quiet = IF owner[i].phase = "pending" THEN FALSE ELSE @]
            /\ UNCHANGED <<task, rev_ok>>
       ELSE revoke("robot", Idle, owner, TRUE, FALSE)
  /\ UNCHANGED <<owners, used, clientVars, linkVars, active, resetVars, applied>>

\* command.ack refusing it, or a command.result other than timeout.
Terminal(i) ==
  /\ Replies(i) /\ robot[i] \in {"sent", "accepted"}
  /\ robot' = [robot EXCEPT ![i] = "ended"]
  /\ Close(i) /\ task' = WithoutTimers({i})
  /\ UNCHANGED <<used, clientVars, linkVars, resetVars, applied>>

\* command.result with outcome timeout: the robot itself does not know.
ResultUnknown(i) ==
  /\ Replies(i) /\ robot[i] \in {"sent", "accepted"} /\ Spend("timeout")
  /\ revoke("robot", [Idle EXCEPT !.stack = Frame("uncertain", i)], owner, FALSE, FALSE)
  /\ UNCHANGED <<owners, used, clientVars, linkVars, entryVars, reset_pending, robot, applied>>

----------------------------------------------------------------------------
TaskStep(t) ==
  \/ ZeroWrite(t) \/ ZeroEnd(t) \/ Uncertain(t) \/ Changed(t)
  \/ StopLookup(t) \/ StopAudit(t) \/ StopSend(t)

ClientStep(c) ==
  \/ VelocityWrite(c) \/ VelocityEnd(c)
  \/ StartAdmit(c) \/ StartLookup(c) \/ StartAudit(c) \/ StartSend(c)
  \/ ResetLookup(c) \/ ResetRetire(c)

Browser(c) ==
  \/ \E s \in Start, takeover \in BOOLEAN : StartRequest(c, s, takeover)
  \/ \E i \in Stop : StopRequest(c, i)
  \/ \E v \in Speed, deadman \in BOOLEAN : velocity(c, deadman, v)
  \/ Emergency(c) \/ Ordinary(c) \/ ResetRequest(c) \/ Disconnect(c)

Robot ==
  \/ \E i \in Command : Accepted(i) \/ Terminal(i) \/ ResultUnknown(i)
  \/ \E b \in Base, ok \in BOOLEAN, p \in RawPolicy : Telemetry(b, ok, p)
  \/ robot_connected \/ robot_disconnected \/ ResetDone

Next ==
  \/ \E t \in Task : TaskStep(t)
  \/ \E c \in Client : ClientStep(c) \/ Browser(c) \/ cancel_for_client(c)
  \/ \E i \in Command, w \in {"ack", "result"} : Timeout(i, w)
  \/ Robot \/ Connected \/ Hello \/ Disconnected \/ _monitor \/ Quiet \/ Expire

Spec == Init /\ [][Next]_vars

\* The loop resumes every task whose await is over, and the monitor sleeps
\* 50 ms at a time.  Nothing is assumed of browsers, robot, timers or messages.
FairSpec ==
  /\ Spec
  /\ \A t \in Task : WF_vars(TaskStep(t))
  /\ \A c \in Client : WF_vars(ClientStep(c))
  /\ WF_vars(Connected) /\ WF_vars(Hello) /\ WF_vars(Disconnected) /\ WF_vars(_monitor)

----------------------------------------------------------------------------
(* Properties.                                                             *)

\* Once a zero velocity has reached the robot for a session, whoever ended
\* it, no deadman frame of that session is applied any more: revoke changes
\* the phase before it waits, and send reads the phase again under the lock
\* (TeleopController.send, teleop.py:129).
NoDriveAfterZero ==
  [][\A s \in Start : applied[s].kind = "zero" => applied'[s].kind = "zero"]_vars

\* At most one teleop_start is outstanding at the robot, whatever timed out,
\* disconnected or was taken over: the owner is kept until its start and its
\* stops are terminal or a software reset supersedes them
\* (TeleopController.terminal, teleop.py:232; prepare, teleop.py:55).
OneSessionAtTheRobot ==
  Cardinality({s \in Start : robot[s] \in {"sent", "accepted"}}) <= 1

\* Nobody in the server is working on the session s any more.
Settled(s) ==
  \A t \in Task : /\ task[t].own # s
                  /\ task[t].at \in {"idle", "waiting", "changed", "hello"}

\* A session the server closed and knows the outcome of was told to halt: the
\* last frame it sent is a zero, or a teleop_stop was issued for it, even when
\* the revocation was cut short or meant for another session
\* (TeleopController.revoke, teleop.py:203).
ClosedIsTold ==
  \A s \in Start :
    (owners = s /\ owner[s].phase = "closing" /\ ~owner[s].start_terminal /\ Settled(s))
      => applied[s].kind # "drive" \/ owner[s].stop_issued

\* Whenever the robot is owned and nobody in the server is working on it,
\* some command is outstanding whose reply would free the owner: the start, or
\* one of the stops terminal still waits for.  Otherwise only a software reset
\* could ever bring manual drive back (TeleopController.terminal,
\* teleop.py:232; CommandBroker._finish, broker.py:546).
OwnerCanBeFreed ==
  \A s \in Start :
    (owners = s /\ Settled(s)) => ({s} \cup owner[s].stop_ids) \cap active # {}

\* A closed session is closed for good on both sides: the robot was told to
\* halt, and some reply is still due that frees the owner (revoke, terminal).
ClosedIsSound == ClosedIsTold /\ OwnerCanBeFreed

\* A session may not stay open once its connection, lease, hardware gate or
\* policy is gone, or its producer silent, even if no message ever arrives
\* (TeleopController._monitor, teleop.py:255).
LostAuthorityEnds ==
  \A s \in Start :
    LET stray == /\ Opened(s)
                 /\ \/ ~up \/ conn # owner[s].conn \/ base # owner[s].base
                    \/ holder # owner[s].client \/ ~clear \/ owner[s].quiet
                    \/ resolve_policy(Caps, raw, base) # owner[s].policy
    IN stray ~> ~stray
=============================================================================
