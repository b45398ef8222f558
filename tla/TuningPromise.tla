--------------------------- MODULE TuningPromise ---------------------------
(***************************************************************************)
(* What a dashboard user may rely on when changing a robot's settings: a   *)
(* change is carried out at most once, "ok" is said only of a change that  *)
(* was carried out, and a change that was refused is never carried out     *)
(* afterwards.  Only "unknown" leaves it open.                             *)
(***************************************************************************)
CONSTANT Change   \* requests for a change, each sent once by a browser

VARIABLES
  answer,    \* what the user was told of each
  performed  \* the changes the robot has carried out

vars == <<answer, performed>>

Init == answer = [c \in Change |-> "open"] /\ performed = {}

Perform(c) ==
  /\ c \notin performed /\ answer[c] \in {"open", "unknown"}
  /\ performed' = performed \cup {c}
  /\ UNCHANGED answer

Tell(c, what) ==
  /\ answer[c] = "open"
  /\ what = "ok" => c \in performed
  /\ what = "no" => c \notin performed
  /\ answer' = [answer EXCEPT ![c] = what]
  /\ UNCHANGED performed

Next == \E c \in Change : Perform(c) \/ \E what \in {"ok", "no", "unknown"} : Tell(c, what)

Spec == Init /\ [][Next]_vars
=============================================================================
