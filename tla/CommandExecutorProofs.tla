----------------------- MODULE CommandExecutorProofs -----------------------
(***************************************************************************)
(* Proofs about the robot bridge's CommandExecutor, for any set of command *)
(* ids, any navigation contexts and any choice of commands sent.           *)
(***************************************************************************)
EXTENDS CommandExecutor, TLAPS

\* The parts of TypeOK that most actions write together.
RepliesOK ==
  /\ ack \in [Command -> {"none", "accepted", "refused"}]
  /\ result \in [Command -> Outcomes \cup {"none"}]
  /\ doubled \subseteq Command
CancelsOK ==
  /\ cancels \subseteq Cancel
  /\ asked \in [Command -> SUBSET {"stop", "navigation", "unheard"}]

----------------------------------------------------------------------------
(* Lemmas about the operators the actions are built from.                  *)

\* Ask keeps the cancel requests and their history well typed.
LEMMA AskType ==
  ASSUME TypeOK, NEW requests \in SUBSET Cancel, Ask(requests)
  PROVE  CancelsOK'
<1>1. cancels' \subseteq Cancel
  BY DEF Ask, TypeOK
<1>2. \A h : How(h) \in {"stop", "navigation", "unheard"}
  BY DEF How
<1>3. asked' \in [Command -> SUBSET {"stop", "navigation", "unheard"}]
  BY <1>2 DEF Ask, TypeOK
<1> QED BY <1>1, <1>3 DEF CancelsOK

\* What one command may be told.
LEMMA TellOneType ==
  ASSUME TypeOK, NEW c \in Command, NEW a \in {"accepted", "refused"}, NEW r \in Outcomes
  PROVE  /\ Tell(To({c}, a), Nobody) => RepliesOK'
         /\ Tell(Nobody, To({c}, r)) => RepliesOK'
         /\ Tell(To({c}, a), To({c}, r)) => RepliesOK'
<1>1. Tell(To({c}, a), Nobody) => RepliesOK'
  BY DEF TypeOK, RepliesOK, To, Nobody, Tell
<1>2. Tell(Nobody, To({c}, r)) => RepliesOK'
  BY DEF TypeOK, RepliesOK, To, Nobody, Tell
<1>3. Tell(To({c}, a), To({c}, r)) => RepliesOK'
  BY DEF TypeOK, RepliesOK, To, Nobody, Tell
<1> QED BY <1>1, <1>2, <1>3

\* A cancel request for a command, heard by a stop or by one of the two
\* callbacks, is well typed.
LEMMA RequestType ==
  \A g \in Command : \A h \in Command \cup {"navigation", "unheard"} :
    Request(g, h) \in Cancel
BY DEF Request, Cancel

\* Asking for the cancel of one goal at most.
LEMMA AskOneType ==
  ASSUME TypeOK, NEW g \in Command, NEW h \in Command \cup {"navigation", "unheard"},
         NEW requests, requests \subseteq {Request(g, h)}, Ask(requests)
  PROVE  CancelsOK'
<1>1. requests \in SUBSET Cancel
  BY RequestType
<1> QED BY <1>1, AskType

\* The map transaction's cancel request.
LEMMA MapCancelRequestsType ==
  ASSUME TypeOK
  PROVE  MapCancelRequests \in SUBSET Cancel /\ CancelledMap \in Map
<1>1. CASE map_active.id # None /\ ~map_active.cancel /\ map_active.handle
  <2>1. map_active.id \in Command
    BY <1>1 DEF TypeOK, Map, Id
  <2>2. MapCancelRequests = {Request(map_active.id, "unheard")}
    BY <1>1 DEF MapCancelRequests
  <2>3. MapCancelRequests \in SUBSET Cancel
    BY <2>1, <2>2, RequestType
  <2> QED BY <2>3 DEF CancelledMap, TypeOK, Map
<1>2. CASE ~(map_active.id # None /\ ~map_active.cancel /\ map_active.handle)
  BY <1>2 DEF MapCancelRequests, CancelledMap, TypeOK, Map
<1> QED BY <1>1, <1>2

----------------------------------------------------------------------------
(* Types.  TypeOK is not inductive by itself: a callback of an undock      *)
(* writes through _undock_active, so it needs to find its own command      *)
(* there, and a cancel request needs a command to name.                    *)

\* A command the bridge has not received has no future.
Fresh == \A c \in Command : kind[c] = "unsent" => wait[c] = "none"

\* An undock whose future is outstanding owns _undock_active.
UndockOwner ==
  \A c \in Command : kind[c] = "undock" /\ wait[c] \in {"response", "result"}
    => undock_active.id = c

\* Only an owned slot has a handle or waiting stops, and the first stop leads.
UndockSlot ==
  /\ undock_active.handle => undock_active.id # None
  /\ undock_active.stops # {} => undock_active.id # None /\ undock_active.lead # None

OwnerInv == Fresh /\ UndockOwner /\ UndockSlot
TypeInv == TypeOK /\ OwnerInv

\* The bridge starts with nothing received and nothing owned.
LEMMA InitTypeInv == Init => TypeInv
BY ConstantsAssumption DEF Init, TypeInv, OwnerInv, TypeOK, Fresh, UndockOwner,
  UndockSlot, Nav, Undock, Map, NoNav, NoUndock, NoMap, NoPending, Id, Outcomes,
  GoalState, AllKinds

\* handle(): the requests that find the executor idle, and the services.
LEMMA RequestsTypeInv ==
  ASSUME TypeInv, NEW c \in Command,
         \/ \E k \in Kinds : Refuse(c, k) \/ CallDockService(c, k)
         \/ Navigate(c) \/ UndockRequest(c) \/ SetInitialPose(c) \/ SetLidarPower(c)
  PROVE  TypeInv'
<1> USE ConstantsAssumption DEF TypeInv, Receive
<1>1. ASSUME NEW k \in Kinds, Refuse(c, k) PROVE TypeInv'
  <2>1. TypeOK'
    BY <1>1 DEF Refuse, TypeOK, To, Nobody, Tell, execVars, genVars, pathVars,
      serverVars, cancelVars, histVars
  <2>2. OwnerInv'
    BY <1>1 DEF Refuse, OwnerInv, Fresh, UndockOwner, UndockSlot, TypeOK, To,
      Nobody, Tell, execVars, serverVars, AllKinds, ActionKinds, ServiceKinds, MotionKinds
  <2> QED BY <2>1, <2>2
<1>2. ASSUME NEW k \in Kinds, CallDockService(c, k) PROVE TypeInv'
  <2>1. TypeOK'
    BY <1>2 DEF CallDockService, TypeOK, execVars, replyVars, genVars, pathVars,
      cancelVars, histVars
  <2>2. k \notin {"unsent", "undock"}
    BY <1>2 DEF CallDockService, ServiceAdmitted
  <2>3. OwnerInv'
    BY <1>2, <2>2 DEF CallDockService, OwnerInv, Fresh, UndockOwner, UndockSlot,
      TypeOK, execVars, replyVars
  <2> QED BY <2>1, <2>3
<1>3. CASE Navigate(c)
  <2>1. active' \in Nav
    BY <1>3 DEF Navigate, TypeOK, Nav
  <2>2. TypeOK'
    BY <1>3, <2>1 DEF Navigate, TypeOK, ClearedPath, Id, GoalState, replyVars,
      cancelVars, histVars
  <2>3. OwnerInv'
    BY <1>3 DEF Navigate, OwnerInv, Fresh, UndockOwner, UndockSlot, TypeOK, replyVars
  <2> QED BY <2>2, <2>3
<1>4. CASE UndockRequest(c)
  <2>1. undock_active' \in Undock /\ undock_active'.id = c
        /\ undock_active'.stops = {} /\ ~undock_active'.handle
    BY <1>4 DEF UndockRequest, UndockFree, NoUndock, Undock, Id
  <2>2. captured' \in [Command -> [motor: Nat, nav: Nat, context: Contexts \cup {None}]]
    BY <1>4 DEF UndockRequest, UndockFree, TypeOK
  <2>3. TypeOK'
    BY <1>4, <2>1, <2>2 DEF UndockRequest, UndockFree, TypeOK, GoalState, replyVars,
      pathVars, cancelVars, histVars
  <2>4. OwnerInv'
    BY <1>4, <2>1 DEF UndockRequest, UndockFree, OwnerInv, Fresh, UndockOwner, UndockSlot,
      TypeOK, replyVars
  <2> QED BY <2>3, <2>4
<1>5. CASE SetInitialPose(c)
  <2>1. map_active' \in Map
    BY <1>5 DEF SetInitialPose, NoMap, Map, Id
  <2>2. TypeOK'
    BY <1>5, <2>1 DEF SetInitialPose, TypeOK, GoalState, genVars, replyVars,
      pathVars, cancelVars, histVars
  <2>3. OwnerInv'
    BY <1>5 DEF SetInitialPose, OwnerInv, Fresh, UndockOwner, UndockSlot, TypeOK, replyVars
  <2> QED BY <2>2, <2>3
<1>6. CASE SetLidarPower(c)
  <2>1. lidar' \in [pending: Id, recovery: BOOLEAN, stale: BOOLEAN]
    BY <1>6 DEF SetLidarPower, TypeOK, Id
  <2>2. wait' \in [Command -> {"none", "response", "result", "service", "lidar"}]
    BY <1>6, SMTT(30) DEF SetLidarPower, TypeOK
  <2>3. RepliesOK'
    BY <1>6 DEF SetLidarPower, TypeOK, RepliesOK, replyVars, To, Nobody, Tell, Outcomes
  <2>4. TypeOK'
    BY <1>6, <2>1, <2>2, <2>3 DEF SetLidarPower, TypeOK, RepliesOK, genVars,
      pathVars, cancelVars, histVars
  <2>5. OwnerInv'
    BY <1>6 DEF SetLidarPower, OwnerInv, Fresh, UndockOwner, UndockSlot, TypeOK,
      replyVars, To, Nobody, Tell
  <2> QED BY <2>4, <2>5
<1> QED BY <1>1, <1>2, <1>3, <1>4, <1>5, <1>6

\* handle(): stop and motor_disable, which find whatever is running.
LEMMA StopsTypeInv ==
  ASSUME TypeInv, NEW c \in Command, Stop(c) \/ MapStop(c) \/ MotorDisable(c)
  PROVE  TypeInv'
<1> USE ConstantsAssumption DEF TypeInv, Receive
<1>0. GoalsSent \in SUBSET Command
  BY DEF GoalsSent
<1>1. CASE Stop(c)
  <2>1. /\ earlier' \in [Command -> SUBSET Command]
        /\ target' \in [Command -> Id]
        /\ kind' \in [Command -> AllKinds \cup {"unsent"}]
    BY <1>0, <1>1 DEF Stop, TypeOK, Id, Nav, Undock
  <2>2. CASE StopNothing(c)
    <3>1. RepliesOK'
      BY <2>2 DEF StopNothing, TypeOK, RepliesOK, To, Tell, Outcomes
    <3>2. TypeOK'
      BY <1>1, <2>1, <2>2, <3>1 DEF Stop, StopNothing, TypeOK, RepliesOK, genVars, cancelVars
    <3>3. OwnerInv'
      BY <1>1, <2>2 DEF Stop, StopNothing, OwnerInv, Fresh, UndockOwner,
        UndockSlot, TypeOK, To, Tell
    <3> QED BY <3>2, <3>3
  <2>3. CASE StopUndock(c)
    <3>1. undock_active.id \in Command
      BY <2>3 DEF StopUndock, TypeOK, Undock, Id
    <3>2. CancelsOK'
      <4> DEFINE requests == IF undock_active.handle /\ undock_active.stops = {}
                             THEN {Request(undock_active.id, c)} ELSE {}
      <4>1. Ask(requests) /\ requests \subseteq {Request(undock_active.id, c)}
        BY <2>3 DEF StopUndock
      <4> HIDE DEF requests
      <4> QED BY <4>1, <3>1, AskOneType
    <3>3. undock_active' \in Undock
      BY <2>3 DEF StopUndock, TypeOK, Undock, Id
    <3>4. RepliesOK'
      BY <2>3 DEF StopUndock, TypeOK, RepliesOK, To, Nobody, Tell
    <3>5. TypeOK'
      BY <1>1, <2>1, <2>3, <3>2, <3>3, <3>4 DEF Stop, StopUndock, TypeOK,
        RepliesOK, CancelsOK, genVars
    <3>6. UndockSlot' /\ undock_active'.id = undock_active.id
      BY <2>3, <3>1 DEF StopUndock, OwnerInv, UndockSlot, TypeOK, Undock
    <3>7. OwnerInv'
      BY <1>1, <2>3, <3>6 DEF Stop, StopUndock, OwnerInv, Fresh, UndockOwner,
        TypeOK, To, Nobody, Tell
    <3> QED BY <3>5, <3>7
  <2>4. CASE StopNavigation(c)
    <3>1. active.id \in Command
      BY <2>4 DEF StopNavigation, TypeOK, Nav, Id
    <3>2. CancelsOK'
      <4> DEFINE requests == IF active.stops = {} /\ ~active.cancel_pending
                             THEN {Request(active.id, c)} ELSE {}
      <4>1. Ask(requests) /\ requests \subseteq {Request(active.id, c)}
        BY <2>4 DEF StopNavigation
      <4> HIDE DEF requests
      <4> QED BY <4>1, <3>1, AskOneType
    <3>3. active' \in Nav
      BY <2>4 DEF StopNavigation, TypeOK, Nav
    <3>4. RepliesOK'
      BY <2>4 DEF StopNavigation, TypeOK, RepliesOK, To, Nobody, Tell
    <3>5. TypeOK'
      BY <1>1, <2>1, <2>4, <3>2, <3>3, <3>4 DEF Stop, StopNavigation, TypeOK,
        RepliesOK, CancelsOK, genVars, ClearedPath, Id
    <3>6. OwnerInv'
      BY <1>1, <2>4 DEF Stop, StopNavigation, OwnerInv, Fresh, UndockOwner,
        UndockSlot, TypeOK, To, Nobody, Tell
    <3> QED BY <3>5, <3>6
  <2> QED BY <1>1, <2>2, <2>3, <2>4 DEF Stop
<1>2. CASE MapStop(c)
  <2>1. CancelsOK' /\ map_active' \in Map
    BY <1>2, AskType, MapCancelRequestsType DEF MapStop
  <2>2. RepliesOK'
    BY <1>2 DEF MapStop, TypeOK, RepliesOK, To, Tell, Outcomes
  <2>3. TypeOK'
    BY <1>0, <1>2, <2>1, <2>2 DEF MapStop, TypeOK, RepliesOK, CancelsOK, genVars, pathVars
  <2>4. OwnerInv'
    BY <1>2 DEF MapStop, OwnerInv, Fresh, UndockOwner, UndockSlot, TypeOK, To, Tell
  <2> QED BY <2>3, <2>4
<1>3. CASE MotorDisable(c)
  <2>1. CancelsOK' /\ map_active' \in Map
    <3>1. {Request(g, "unheard") : g \in GoalsHeld} \in SUBSET Cancel
      BY DEF GoalsHeld, Request, Cancel
    <3>2. MapCancelRequests \cup {Request(g, "unheard") : g \in GoalsHeld} \in SUBSET Cancel
      BY <3>1, MapCancelRequestsType
    <3> QED BY <1>3, <3>2, AskType, MapCancelRequestsType DEF MotorDisable
  <2>2. active' \in Nav
    BY <1>3 DEF MotorDisable, TypeOK, Nav
  <2>3. /\ undock_active' \in Undock
        /\ undock_active'.id = undock_active.id
        /\ undock_active'.stops = undock_active.stops
        /\ undock_active'.lead = undock_active.lead
        /\ undock_active'.handle = undock_active.handle
    BY <1>3 DEF MotorDisable, TypeOK, Undock
  <2>4. RepliesOK'
    BY <1>3 DEF MotorDisable, TypeOK, RepliesOK, replyVars, To, Nobody, Tell
  <2>5. wait' \in [Command -> {"none", "response", "result", "service", "lidar"}]
    BY <1>3 DEF MotorDisable, TypeOK
  <2>6. /\ earlier' \in [Command -> SUBSET Command]
        /\ path' \in Id
        /\ motor_disable_generation' \in Nat
        /\ kind' \in [Command -> AllKinds \cup {"unsent"}]
    BY <1>0, <1>3 DEF MotorDisable, TypeOK, ClearedPath, Id
  <2>7. TypeOK'
    BY <1>3, <2>1, <2>2, <2>3, <2>4, <2>5, <2>6 DEF MotorDisable, TypeOK, RepliesOK, CancelsOK
  <2>8. OwnerInv'
    BY <1>3, <2>3 DEF MotorDisable, OwnerInv, Fresh, UndockOwner, UndockSlot,
      TypeOK, replyVars, To, Nobody, Tell
  <2> QED BY <2>7, <2>8
<1> QED BY <1>1, <1>2, <1>3

\* The server's command.cancel frame.
LEMMA CancelFrameTypeInv ==
  ASSUME TypeInv, NEW c \in Command, CancelFrame(c)
  PROVE  TypeInv'
<1> USE ConstantsAssumption DEF TypeInv
<1>1. CASE CancelMap(c)
  <2>1. CancelsOK' /\ map_active' \in Map
    BY <1>1, AskType, MapCancelRequestsType DEF CancelMap
  <2>2. TypeOK'
    BY <1>1, <2>1 DEF CancelMap, TypeOK, CancelsOK, replyVars, genVars, pathVars, histVars
  <2>3. OwnerInv'
    BY <1>1 DEF CancelMap, OwnerInv, Fresh, UndockOwner, UndockSlot, replyVars
  <2> QED BY <2>2, <2>3
<1>2. CASE CancelPending(c)
  <2>1. nav_pending' \in [id: Id, cancel: BOOLEAN]
    BY <1>2 DEF CancelPending, TypeOK
  <2>2. TypeOK'
    BY <1>2, <2>1 DEF CancelPending, TypeOK, replyVars, genVars, pathVars,
      serverVars, cancelVars, histVars
  <2>3. OwnerInv'
    BY <1>2 DEF CancelPending, OwnerInv, Fresh, UndockOwner, UndockSlot, replyVars, serverVars
  <2> QED BY <2>2, <2>3
<1>3. CASE CancelNavigation(c)
  <2>1. CancelsOK'
    BY <1>3, AskOneType DEF CancelNavigation
  <2>2. active' \in Nav
    BY <1>3 DEF CancelNavigation, TypeOK, Nav
  <2>3. TypeOK'
    BY <1>3, <2>1, <2>2 DEF CancelNavigation, TypeOK, CancelsOK, replyVars,
      genVars, histVars, ClearedPath, Id
  <2>4. OwnerInv'
    BY <1>3 DEF CancelNavigation, OwnerInv, Fresh, UndockOwner, UndockSlot, replyVars
  <2> QED BY <2>3, <2>4
<1>4. CASE CancelUndock(c)
  <2>1. UndockCancelRequests \subseteq {Request(c, "unheard")}
    BY <1>4 DEF CancelUndock, UndockCancelRequests
  <2>2. CancelsOK'
    BY <1>4, <2>1, AskOneType DEF CancelUndock
  <2>3. /\ undock_active' \in Undock
        /\ undock_active'.id = undock_active.id
        /\ undock_active'.stops = undock_active.stops
        /\ undock_active'.lead = undock_active.lead
        /\ undock_active'.handle = undock_active.handle
    BY <1>4 DEF CancelUndock, TypeOK, Undock
  <2>4. TypeOK'
    BY <1>4, <2>2, <2>3 DEF CancelUndock, TypeOK, CancelsOK, replyVars, genVars,
      pathVars, histVars
  <2>5. OwnerInv'
    BY <1>4, <2>3 DEF CancelUndock, OwnerInv, Fresh, UndockOwner, UndockSlot, replyVars
  <2> QED BY <2>4, <2>5
<1> QED BY <1>1, <1>2, <1>3, <1>4 DEF CancelFrame

\* The navigation callbacks: replies go to commands, the slot stays a Nav record.
LEMMA NavigationTypeInv ==
  ASSUME TypeInv, NEW c \in Command,
         \/ GoalResponseError(c) \/ GoalDeclined(c) \/ GoalSuperseded(c)
         \/ GoalAccepted(c) \/ OnResult(c)
  PROVE  TypeInv'
<1> USE ConstantsAssumption DEF TypeInv
<1>1. CASE GoalResponseError(c)
  <2>1. TypeOK'
    BY <1>1 DEF GoalResponseError, TypeOK, To, Nobody, Tell, execVars, genVars,
      pathVars, cancelVars, histVars
  <2>2. OwnerInv'
    BY <1>1 DEF GoalResponseError, OwnerInv, Fresh, UndockOwner, UndockSlot, TypeOK,
      To, Nobody, Tell, execVars
  <2> QED BY <2>1, <2>2
<1>2. CASE GoalDeclined(c)
  <2>1. nav_pending' \in [id: Id, cancel: BOOLEAN]
    BY <1>2 DEF GoalDeclined, NoPending, TypeOK, Id
  <2>2. TypeOK'
    BY <1>2, <2>1 DEF GoalDeclined, TypeOK, To, Nobody, Tell, genVars, pathVars,
      cancelVars, histVars
  <2>3. OwnerInv'
    BY <1>2 DEF GoalDeclined, OwnerInv, Fresh, UndockOwner, UndockSlot, TypeOK,
      To, Nobody, Tell
  <2> QED BY <2>2, <2>3
<1>3. CASE GoalSuperseded(c)
  <2>1. CancelsOK'
    BY <1>3, AskOneType DEF GoalSuperseded
  <2>2. TypeOK'
    BY <1>3, <2>1 DEF GoalSuperseded, TypeOK, CancelsOK, To, Nobody, Tell,
      execVars, genVars, pathVars, histVars
  <2>3. OwnerInv'
    BY <1>3 DEF GoalSuperseded, OwnerInv, Fresh, UndockOwner, UndockSlot, TypeOK,
      To, Nobody, Tell, execVars
  <2> QED BY <2>2, <2>3
<1>4. CASE GoalAccepted(c)
  <2>1. CancelsOK'
    <3> DEFINE requests == IF nav_pending.id = c /\ nav_pending.cancel
                           THEN {Request(c, "navigation")} ELSE {}
    <3>1. Ask(requests) /\ requests \subseteq {Request(c, "navigation")}
      BY <1>4 DEF GoalAccepted
    <3> HIDE DEF requests
    <3> QED BY <3>1, AskOneType
  <2>2. active' \in Nav
    BY <1>4, ZenonT(30) DEF GoalAccepted, NoNav, Nav, Id, TypeOK
  <2>3. nav_pending' \in [id: Id, cancel: BOOLEAN]
    BY <1>4 DEF GoalAccepted, NoPending, TypeOK, Id
  <2>4. RepliesOK'
    BY <1>4 DEF GoalAccepted, TypeOK, RepliesOK, To, Tell, Outcomes, Nav, Id
  <2>5. TypeOK'
    BY <1>4, <2>1, <2>2, <2>3, <2>4 DEF GoalAccepted, TypeOK, CancelsOK, RepliesOK,
      genVars, histVars, Id
  <2>6. OwnerInv'
    BY <1>4 DEF GoalAccepted, OwnerInv, Fresh, UndockOwner, UndockSlot, TypeOK
  <2> QED BY <2>5, <2>6
<1>5. CASE OnResult(c)
  <2>1. active' \in Nav /\ path' \in Id
    BY <1>5 DEF OnResult, NoNav, Nav, Id, TypeOK, ClearedPath
  <2>2. PICK outcome \in GoalOutcomes(c) :
          Tell(Nobody, [d \in IF active.id = c THEN {c} \cup active.stops ELSE {} |->
                          IF d = c THEN outcome ELSE stop_result(outcome)])
    BY <1>5 DEF OnResult
  <2>3. outcome \in Outcomes /\ stop_result(outcome) \in Outcomes
    BY DEF GoalOutcomes, Outcomes, stop_result
  <2>4. RepliesOK'
    BY <2>2, <2>3 DEF TypeOK, RepliesOK, To, Nobody, Tell, Nav
  <2>5. TypeOK'
    BY <1>5, <2>1, <2>4 DEF OnResult, TypeOK, RepliesOK, genVars, cancelVars, histVars
  <2>6. OwnerInv'
    BY <1>5 DEF OnResult, OwnerInv, Fresh, UndockOwner, UndockSlot, TypeOK
  <2> QED BY <2>5, <2>6
<1> QED BY <1>1, <1>2, <1>3, <1>4, <1>5

\* The undock's callbacks and its watchdog.
LEMMA UndockTypeInv ==
  ASSUME TypeInv, NEW c \in Command,
         \/ UndockReplyError(c) \/ UndockDeclined(c) \/ UndockAccepted(c)
         \/ OnUndockResult(c) \/ CheckUndockHealth
  PROVE  TypeInv'
<1> USE ConstantsAssumption DEF TypeInv
<1>1. ASSUME undock_active.id \in Command, FailUndock
      PROVE  /\ CancelsOK'
             /\ undock_active' \in Undock
             /\ undock_active'.id = undock_active.id
             /\ undock_active'.stops = undock_active.stops
             /\ undock_active'.lead = undock_active.lead
             /\ undock_active'.handle = undock_active.handle
  <2>1. UndockCancelRequests \subseteq {Request(undock_active.id, "unheard")}
    BY DEF UndockCancelRequests
  <2>2. CancelsOK'
    BY <1>1, <2>1, AskOneType DEF FailUndock
  <2> QED BY <1>1, <2>2 DEF FailUndock, TypeOK, Undock
<1>2. CASE CheckUndockHealth
  <2>1. undock_active.id \in Command
    BY <1>2 DEF CheckUndockHealth, TypeOK, Undock, Id
  <2>2. TypeOK'
    BY <1>1, <1>2, <2>1 DEF CheckUndockHealth, TypeOK, CancelsOK, replyVars,
      genVars, pathVars, histVars
  <2>3. OwnerInv'
    BY <1>1, <1>2, <2>1 DEF CheckUndockHealth, OwnerInv, Fresh, UndockOwner, UndockSlot
  <2> QED BY <2>2, <2>3
<1>3. CASE UndockReplyError(c)
  <2>1. undock_active.id = c
    BY <1>3 DEF UndockReplyError, OwnerInv, UndockOwner
  <2>2. /\ CancelsOK'
        /\ undock_active' \in Undock
        /\ undock_active'.id = undock_active.id
        /\ undock_active'.stops = undock_active.stops
        /\ undock_active'.lead = undock_active.lead
        /\ undock_active'.handle = undock_active.handle
    BY <1>1, <1>3, <2>1 DEF UndockReplyError, CancelsOK, TypeOK, cancelVars
  <2>3. TypeOK'
    BY <1>3, <2>2 DEF UndockReplyError, TypeOK, CancelsOK, replyVars, genVars,
      pathVars, histVars
  <2>4. OwnerInv'
    BY <1>3, <2>2 DEF UndockReplyError, OwnerInv, Fresh, UndockOwner, UndockSlot, TypeOK
  <2> QED BY <2>3, <2>4
<1>4. CASE UndockDeclined(c)
  <2>1. undock_active.id = c
    BY <1>4 DEF UndockDeclined, OwnerInv, UndockOwner
  <2>2. undock_active' \in Undock
    BY <1>4 DEF UndockDeclined, NoUndock, Undock, Id
  <2>3. RepliesOK'
    BY <1>4 DEF UndockDeclined, TypeOK, RepliesOK, To, Tell, Outcomes, Undock
  <2>4. TypeOK'
    BY <1>4, <2>2, <2>3 DEF UndockDeclined, TypeOK, RepliesOK, genVars, pathVars,
      cancelVars, histVars
  <2>5. OwnerInv'
    BY <1>4, <2>1 DEF UndockDeclined, NoUndock, OwnerInv, Fresh, UndockOwner, UndockSlot, TypeOK
  <2> QED BY <2>4, <2>5
<1>5. CASE UndockAccepted(c)
  <2> DEFINE cr == undock_active.cancel_requested \/ captured[c].motor # motor_disable_generation
             u == [undock_active EXCEPT !.handle = TRUE, !.cancel_requested = cr]
             heard == IF undock_active.stops = {} THEN "unheard" ELSE undock_active.lead
             requests == IF cr THEN {Request(c, heard)} ELSE {}
  <2>1. undock_active.id = c
    BY <1>5 DEF UndockAccepted, OwnerInv, UndockOwner
  <2>2. /\ u \in Undock /\ [u EXCEPT !.stops = {}] \in Undock
        /\ u.id = c /\ u.stops = undock_active.stops /\ u.lead = undock_active.lead
        /\ u.cancel_requested = cr
    BY <2>1 DEF TypeOK, Undock
  <2>3. heard \in Command \cup {"navigation", "unheard"}
    BY DEF TypeOK, OwnerInv, UndockSlot, Undock, Id
  <2>4. \/ undock_active' = u /\ Tell(To({c}, "accepted"), Nobody) /\ Ask(requests)
        \/ /\ undock_active' = [u EXCEPT !.stops = {}]
           /\ Tell(To({c}, "accepted"), To(undock_active.stops, "failed"))
           /\ asked' = [asked EXCEPT ![c] = @ \cup {How(heard)}]
           /\ UNCHANGED cancels
    BY <1>5, <2>2 DEF UndockAccepted
  <2>5. CancelsOK'
    <3>1. requests \subseteq {Request(c, heard)}
      OBVIOUS
    <3>2. How(heard) \in {"stop", "navigation", "unheard"}
      BY DEF How
    <3> HIDE DEF requests, heard, u
    <3>3. CASE Ask(requests)
      BY <2>3, <3>1, <3>3, AskOneType
    <3>4. CASE asked' = [asked EXCEPT ![c] = @ \cup {How(heard)}] /\ UNCHANGED cancels
      BY <3>2, <3>4 DEF TypeOK, CancelsOK
    <3> QED BY <2>4, <3>3, <3>4
  <2>6. /\ undock_active' \in Undock
        /\ undock_active'.id = c
        /\ undock_active'.lead = undock_active.lead
        /\ undock_active'.stops \subseteq undock_active.stops
    BY <2>2, <2>4, ZenonT(30) DEF TypeOK, Undock
  <2> HIDE DEF requests, heard, u
  <2>7. RepliesOK'
    BY <2>4 DEF TypeOK, RepliesOK, To, Nobody, Tell, Outcomes, Undock
  <2>8. TypeOK'
    BY <1>5, <2>5, <2>6, <2>7 DEF UndockAccepted, TypeOK, CancelsOK, RepliesOK,
      genVars, pathVars, histVars
  <2>9. OwnerInv'
    BY <1>5, <2>1, <2>6 DEF UndockAccepted, OwnerInv, Fresh, UndockOwner, UndockSlot, TypeOK
  <2> QED BY <2>8, <2>9
<1>6. CASE OnUndockResult(c)
  <2>1. undock_active.id = c
    BY <1>6 DEF OnUndockResult, OwnerInv, UndockOwner
  <2>2. undock_active' \in Undock
    BY <1>6 DEF OnUndockResult, NoUndock, Undock, Id
  <2>3. PICK outcome \in Outcomes :
          Tell(Nobody, [d \in {c} \cup undock_active.stops |->
                          IF d = c THEN outcome ELSE stop_result(outcome)])
    BY <1>6 DEF OnUndockResult
  <2>4. stop_result(outcome) \in Outcomes
    BY DEF Outcomes, stop_result
  <2>5. RepliesOK'
    BY <2>3, <2>4 DEF TypeOK, RepliesOK, To, Nobody, Tell, Undock
  <2>6. TypeOK'
    BY <1>6, <2>2, <2>5 DEF OnUndockResult, TypeOK, RepliesOK, genVars, pathVars,
      cancelVars, histVars
  <2>7. OwnerInv'
    BY <1>6, <2>1 DEF OnUndockResult, NoUndock, OwnerInv, Fresh, UndockOwner, UndockSlot, TypeOK
  <2> QED BY <2>6, <2>7
<1> QED BY <1>2, <1>3, <1>4, <1>5, <1>6

\* Map localization, its connection timer, and the service callbacks.
LEMMA ServicesTypeInv ==
  ASSUME TypeInv, NEW c \in Command,
         \/ MapResponse(c) \/ MapResult(c) \/ CheckMapConnection
         \/ OnDockServiceResult(c) \/ OnLidarResult(c)
  PROVE  TypeInv'
<1> USE ConstantsAssumption DEF TypeInv
<1>1. CASE MapResponse(c)
  <2> DEFINE requests == IF map_active.cancel THEN {Request(c, "unheard")} ELSE {}
  <2>1. \/ UNCHANGED cancelVars
        \/ Ask(requests)
    BY <1>1 DEF MapResponse
  <2>2. requests \subseteq {Request(c, "unheard")}
    OBVIOUS
  <2> HIDE DEF requests
  <2>3. CancelsOK'
    BY <2>1, <2>2, AskOneType DEF CancelsOK, TypeOK, cancelVars
  <2>4. \/ Tell(To({c}, "refused"), Nobody)
        \/ Tell(To({c}, "accepted"), Nobody)
        \/ Tell(Nobody, To({c}, "failed"))
    BY <1>1 DEF MapResponse
  <2>5. RepliesOK'
    BY <2>4, TellOneType DEF Outcomes
  <2>6. /\ map_active' \in Map
        /\ wait' \in [Command -> {"none", "response", "result", "service", "lidar"}]
    <3>1. NoMap \in Map /\ [map_active EXCEPT !.handle = TRUE] \in Map
      BY DEF NoMap, TypeOK, Map, Id
    <3>2. /\ map_active' = NoMap \/ map_active' = [map_active EXCEPT !.handle = TRUE]
          /\ \/ wait' = [wait EXCEPT ![c] = "none"]
             \/ wait' = [wait EXCEPT ![c] = "result"]
      BY <1>1 DEF MapResponse
    <3>3. wait' \in [Command -> {"none", "response", "result", "service", "lidar"}]
      BY <3>2, SMTT(30) DEF TypeOK
    <3> QED BY <3>1, <3>2, <3>3
  <2>7. TypeOK'
    BY <1>1, <2>3, <2>5, <2>6 DEF MapResponse, TypeOK, CancelsOK, RepliesOK,
      genVars, pathVars, histVars
  <2>8. OwnerInv'
    BY <1>1 DEF MapResponse, OwnerInv, Fresh, UndockOwner, UndockSlot, TypeOK
  <2> QED BY <2>7, <2>8
<1>2. CASE MapResult(c)
  <2>1. map_active' \in Map
    BY <1>2 DEF MapResult, NoMap, Map, Id
  <2>2. RepliesOK'
    BY <1>2 DEF MapResult, GoalOutcomes, TypeOK, RepliesOK, To, Nobody, Tell, Outcomes
  <2>3. TypeOK'
    BY <1>2, <2>1, <2>2 DEF MapResult, TypeOK, RepliesOK, genVars, pathVars,
      cancelVars, histVars
  <2>4. OwnerInv'
    BY <1>2 DEF MapResult, OwnerInv, Fresh, UndockOwner, UndockSlot, TypeOK
  <2> QED BY <2>3, <2>4
<1>3. CASE CheckMapConnection
  <2>1. CancelsOK' /\ map_active' \in Map
    BY <1>3, AskType, MapCancelRequestsType DEF CheckMapConnection
  <2>2. TypeOK'
    BY <1>3, <2>1 DEF CheckMapConnection, TypeOK, CancelsOK, replyVars, genVars,
      pathVars, histVars
  <2>3. OwnerInv'
    BY <1>3 DEF CheckMapConnection, OwnerInv, Fresh, UndockOwner, UndockSlot
  <2> QED BY <2>2, <2>3
<1>4. CASE OnDockServiceResult(c)
  <2>1. RepliesOK'
    <3>1. \/ Tell(To({c}, "refused"), Nobody)
          \/ \E r \in {"succeeded", "failed"} : Tell(To({c}, "accepted"), To({c}, r))
      BY <1>4 DEF OnDockServiceResult
    <3> QED BY <3>1, TellOneType DEF Outcomes
  <2>2. TypeOK'
    BY <1>4, <2>1 DEF OnDockServiceResult, TypeOK, RepliesOK, execVars, genVars,
      pathVars, cancelVars, histVars
  <2>3. OwnerInv'
    BY <1>4 DEF OnDockServiceResult, OwnerInv, Fresh, UndockOwner, UndockSlot,
      TypeOK, execVars
  <2> QED BY <2>2, <2>3
<1>5. CASE OnLidarResult(c)
  <2>1. RepliesOK'
    <3>1. \/ Tell(Nobody, To({c}, "timeout"))
          \/ Tell(To({c}, "refused"), Nobody)
          \/ Tell(To({c}, "accepted"), To({c}, "succeeded"))
          \/ Tell(To({c}, "accepted"), To({c}, "failed"))
      BY <1>5 DEF OnLidarResult
    <3> QED BY <3>1, TellOneType DEF Outcomes
  <2>2. lidar' \in [pending: Id, recovery: BOOLEAN, stale: BOOLEAN]
    <3>1. \/ lidar' = lidar
          \/ lidar' = [lidar EXCEPT !.pending = None, !.stale = TRUE]
          \/ \E success \in BOOLEAN :
               lidar' = [pending |-> None, recovery |-> ~success, stale |-> TRUE]
      BY <1>5 DEF OnLidarResult
    <3>2. [lidar EXCEPT !.pending = None, !.stale = TRUE]
            \in [pending: Id, recovery: BOOLEAN, stale: BOOLEAN]
      BY DEF TypeOK, Id
    <3>3. \A success \in BOOLEAN : [pending |-> None, recovery |-> ~success, stale |-> TRUE]
            \in [pending: Id, recovery: BOOLEAN, stale: BOOLEAN]
      BY DEF Id
    <3> QED BY <3>1, <3>2, <3>3 DEF TypeOK
  <2>3. TypeOK'
    BY <1>5, <2>1, <2>2 DEF OnLidarResult, TypeOK, RepliesOK, genVars, pathVars,
      cancelVars, histVars
  <2>4. OwnerInv'
    BY <1>5 DEF OnLidarResult, OwnerInv, Fresh, UndockOwner, UndockSlot, TypeOK
  <2> QED BY <2>3, <2>4
<1> QED BY <1>1, <1>2, <1>3, <1>4, <1>5

\* Cancel requests: the action server's verdict and the callbacks that hear it.
LEMMA CancelStepTypeInv ==
  ASSUME TypeInv, NEW x \in cancels, CancelStep(x)
  PROVE  TypeInv'
<1> USE ConstantsAssumption DEF TypeInv
<1>0. x \in Cancel
  BY DEF TypeOK
<1>1. CASE AnswerCancel(x)
  <2>1. [x EXCEPT !.verdict = "canceling"] \in Cancel
        /\ [x EXCEPT !.verdict = "refused"] \in Cancel
        /\ [x EXCEPT !.verdict = "finished"] \in Cancel
    BY <1>0 DEF Cancel
  <2>2. cancels' \subseteq Cancel /\ UNCHANGED serverOnly
    <3>1. PICK v \in {"canceling", "refused", "finished"} :
            cancels' = (cancels \ {x}) \cup
              IF x.heard = "unheard" THEN {} ELSE {[x EXCEPT !.verdict = v]}
      BY <1>1 DEF AnswerCancel
    <3>2. UNCHANGED serverOnly
      BY <1>1 DEF AnswerCancel
    <3>3. [x EXCEPT !.verdict = v] \in Cancel
      BY <2>1
    <3> QED BY <3>1, <3>2, <3>3, SMTT(30) DEF TypeOK
  <2>3. goal' \in [Command -> GoalState]
    <3>1. goal' = goal \/ goal' = [goal EXCEPT ![x.goal] = "canceling"]
      BY <1>1 DEF AnswerCancel
    <3> QED BY <3>1 DEF TypeOK, GoalState, Moving
  <2>4. TypeOK'
    BY <2>2, <2>3 DEF TypeOK, serverOnly, replyVars, execVars, genVars, pathVars, histVars
  <2>5. OwnerInv'
    BY <2>2 DEF OwnerInv, Fresh, UndockOwner, UndockSlot, serverOnly, execVars
  <2> QED BY <2>4, <2>5
<1>2. CASE CancelReply(x)
  <2> DEFINE verdict == IF x.verdict = "none" THEN "error" ELSE x.verdict
  <2>1. /\ OnCancelResponse(x, verdict) \/ OnNavigationCancelResponse(x, verdict)
        /\ cancels' \subseteq Cancel
        /\ UNCHANGED <<kind, nav_pending, map_active, lidar, genVars, pathVars,
             goal, wait, asked, histVars>>
    BY <1>2 DEF CancelReply, TypeOK
  <2> HIDE DEF verdict
  <2> DEFINE SlotsOK ==
        /\ RepliesOK'
        /\ active' \in Nav
        /\ undock_active' \in Undock
        /\ undock_active'.id = undock_active.id
        /\ undock_active'.handle = undock_active.handle
        /\ undock_active'.lead = undock_active.lead
        /\ undock_active'.stops \subseteq undock_active.stops
  <2>2. ASSUME UNCHANGED <<replyVars, active, undock_active>> PROVE SlotsOK
    BY <2>2 DEF TypeOK, RepliesOK, replyVars
  <2>3. ASSUME x.heard \in Command, NEW r \in Outcomes,
               Claim(x.heard), Tell(Nobody, To({x.heard}, r))
        PROVE  SlotsOK
    <3>1. RepliesOK'
      BY <2>3, TellOneType
    <3> QED BY <2>3, <3>1 DEF Claim, TypeOK, Nav, Undock
  <2>4. ASSUME OnNavigationCancelResponse(x, verdict) PROVE SlotsOK
    BY <2>4 DEF OnNavigationCancelResponse, TypeOK, RepliesOK, replyVars, Nav
  <2>5. SlotsOK
    BY <2>1, <2>2, <2>3, <2>4 DEF OnCancelResponse, Outcomes
  <2>6. TypeOK'
    BY <2>1, <2>5 DEF TypeOK, RepliesOK, genVars, pathVars, histVars
  <2>7. OwnerInv'
    BY <2>1, <2>5 DEF OwnerInv, Fresh, UndockOwner, UndockSlot
  <2> QED BY <2>6, <2>7
<1> QED BY <1>1, <1>2 DEF CancelStep

\* The action servers take, decline and end goals.
LEMMA ServerTypeInv ==
  ASSUME TypeInv, NEW c \in Command, Server(c)
  PROVE  TypeInv'
<1> USE DEF TypeInv
<1>1. goal' \in [Command -> GoalState]
  BY DEF Server, Accept, Decline, GoalEnds, TypeOK, GoalState, Moving
<1>2. UNCHANGED <<serverOnly, cancels>>
  BY DEF Server, Accept, Decline, GoalEnds
<1>3. TypeOK'
  BY <1>1, <1>2 DEF TypeOK, serverOnly, replyVars, execVars, genVars, pathVars, histVars
<1>4. OwnerInv'
  BY <1>2 DEF OwnerInv, Fresh, UndockOwner, UndockSlot, serverOnly, execVars
<1> QED BY <1>3, <1>4

\* base_state updates and the path poll.
LEMMA PathTypeInv ==
  ASSUME TypeInv,
         \/ \E context \in Contexts : BaseState(context)
         \/ \E ready \in {PathService, FALSE} : PollPath(ready)
         \/ OnNavigationPath
  PROVE  TypeInv'
<1> USE ConstantsAssumption DEF TypeInv
<1>1. ASSUME NEW context \in Contexts, BaseState(context) PROVE TypeInv'
  <2>1. active' \in Nav /\ path' \in Id
    BY <1>1 DEF BaseState, ClearedPath, TypeOK, Nav, Id
  <2>2. lidar' \in [pending: Id, recovery: BOOLEAN, stale: BOOLEAN]
    BY <1>1 DEF BaseState, TypeOK
  <2>3. TypeOK'
    BY <1>1, <2>1, <2>2 DEF BaseState, TypeOK, replyVars, serverVars, cancelVars, histVars
  <2>4. OwnerInv'
    BY <1>1 DEF BaseState, OwnerInv, Fresh, UndockOwner, UndockSlot, serverVars
  <2> QED BY <2>3, <2>4
<1>2. ASSUME NEW ready, PollPath(ready) PROVE TypeInv'
  <2>1. active' \in Nav
    BY <1>2 DEF PollPath, TypeOK, Nav
  <2>2. path' \in Id /\ path_query' \in Id
    BY <1>2 DEF PollPath, ClearedPath, TypeOK, Nav, Id
  <2>3. TypeOK'
    BY <1>2, <2>1, <2>2 DEF PollPath, TypeOK, genVars, replyVars, serverVars,
      cancelVars, histVars
  <2>4. OwnerInv'
    BY <1>2 DEF PollPath, OwnerInv, Fresh, UndockOwner, UndockSlot, serverVars
  <2> QED BY <2>3, <2>4
<1>3. CASE OnNavigationPath
  <2>1. active' \in Nav /\ path' \in Id /\ path_query' \in Id
    <3>1. \/ UNCHANGED <<active, path>>
          \/ /\ active' = [active EXCEPT !.path_valid = FALSE]
             /\ path' \in {path, None}
          \/ /\ active' = [active EXCEPT !.path_valid = TRUE]
             /\ path' = active.id
      BY <1>3 DEF OnNavigationPath, ClearedPath
    <3>2. path_query' \in Id
      BY <1>3 DEF OnNavigationPath, Id
    <3>3. /\ [active EXCEPT !.path_valid = TRUE] \in Nav
          /\ [active EXCEPT !.path_valid = FALSE] \in Nav
          /\ active.id \in Id
      BY DEF TypeOK, Nav
    <3>4. active' \in Nav
      BY <3>1, <3>3, ZenonT(30) DEF TypeOK
    <3>5. path' \in Id
      BY <3>1, <3>3 DEF TypeOK, Id
    <3> QED BY <3>2, <3>4, <3>5
  <2>2. TypeOK'
    BY <1>3, <2>1 DEF OnNavigationPath, TypeOK, genVars, replyVars, serverVars,
      cancelVars, histVars
  <2>3. OwnerInv'
    BY <1>3 DEF OnNavigationPath, OwnerInv, Fresh, UndockOwner, UndockSlot, serverVars
  <2> QED BY <2>2, <2>3
<1> QED BY <1>1, <1>2, <1>3

\* Every step keeps the types and the ownership facts they rest on.
LEMMA NextTypeInv == TypeInv /\ [Next]_vars => TypeInv'
<1> SUFFICES ASSUME TypeInv, [Next]_vars PROVE TypeInv'
  OBVIOUS
<1>1. ASSUME NEW c \in Command, Handle(c) PROVE TypeInv'
  BY <1>1, RequestsTypeInv, StopsTypeInv DEF Handle
<1>2. ASSUME NEW c \in Command, CancelFrame(c) PROVE TypeInv'
  BY <1>2, CancelFrameTypeInv
<1>3. ASSUME NEW c \in Command, Callback(c) PROVE TypeInv'
  BY <1>3, NavigationTypeInv, UndockTypeInv, ServicesTypeInv DEF Callback
<1>4. ASSUME NEW c \in Command, Server(c) PROVE TypeInv'
  BY <1>4, ServerTypeInv
<1>5. ASSUME NEW x \in cancels, CancelStep(x) PROVE TypeInv'
  BY <1>5, CancelStepTypeInv
<1>6. CASE Timers
  <2>1. CASE CheckUndockHealth
    <3>1. undock_active.id \in Command
      BY <2>1 DEF CheckUndockHealth, TypeInv, TypeOK, Undock, Id
    <3> QED BY <2>1, <3>1, UndockTypeInv
  <2>2. CASE CheckMapConnection
    <3>1. map_active.id \in Command
      BY <2>2 DEF CheckMapConnection, TypeInv, TypeOK, Map, Id
    <3> QED BY <2>2, <3>1, ServicesTypeInv
  <2> QED BY <1>6, <2>1, <2>2, PathTypeInv DEF Timers
<1>7. CASE UNCHANGED vars
  BY <1>7 DEF TypeInv, TypeOK, OwnerInv, Fresh, UndockOwner, UndockSlot, vars,
    replyVars, execVars, genVars, pathVars, serverVars, cancelVars, histVars
<1> QED BY <1>1, <1>2, <1>3, <1>4, <1>5, <1>6, <1>7 DEF Next

\* The executor's state is well typed in every reachable state.
THEOREM TypeCorrect == Spec => []TypeOK
<1>1. TypeInv => TypeOK
  BY DEF TypeInv
<1> QED BY <1>1, InitTypeInv, NextTypeInv, PTL DEF Spec

----------------------------------------------------------------------------
(* One motion owner.  _navigate and _undock look at different slots while  *)
(* a goal response is on its way; what keeps them apart is that only the   *)
(* newest destination can still be accepted, and that it is _nav_pending.  *)

MotionInv ==
  /\ OneMotionOwner
  /\ undock_active.id # None => nav_pending.id = None
  /\ \A c \in Command : captured[c].nav <= navigation_generation
  /\ \A c \in Command :
       /\ kind[c] = "navigate_to_pose" /\ wait[c] = "response"
       /\ captured[c].nav = navigation_generation
       => nav_pending.id = c

\* Nothing moves and nothing is on its way at start.
LEMMA InitMotionInv == Init => MotionInv
BY DEF Init, MotionInv, OneMotionOwner, NoNav, NoUndock

\* Steps that send no goal and touch neither _nav_pending nor a generation.
LEMMA MotionKept ==
  ASSUME MotionInv,
         active'.id \in {active.id, None},
         undock_active'.id \in {undock_active.id, None},
         UNCHANGED <<nav_pending, captured, navigation_generation>>,
         \A d \in Command : kind'[d] = "navigate_to_pose" /\ wait'[d] = "response"
           => kind[d] = "navigate_to_pose" /\ wait[d] = "response"
  PROVE  MotionInv'
BY DEF MotionInv, OneMotionOwner

\* handle() keeps the two kinds of motion apart.
LEMMA HandleMotionInv ==
  ASSUME TypeInv, MotionInv, NEW c \in Command, Handle(c)
  PROVE  MotionInv'
<1> USE ConstantsAssumption DEF TypeInv, Receive
<1>0. kind[c] = "unsent" /\ wait[c] = "none"
  BY DEF Handle, Refuse, CallDockService, Navigate, UndockRequest, UndockFree, SetInitialPose,
    Stop, MapStop, MotorDisable, SetLidarPower, OwnerInv, Fresh
<1>1. ASSUME NEW k \in Kinds, Refuse(c, k) PROVE MotionInv'
  BY <1>0, <1>1, MotionKept DEF Refuse, execVars, genVars, serverVars, TypeOK
<1>2. ASSUME NEW k \in Kinds, CallDockService(c, k) PROVE MotionInv'
  BY <1>0, <1>2, MotionKept DEF CallDockService, ServiceAdmitted, execVars, genVars, TypeOK
<1>3. CASE Navigate(c)
  <2>1. active'.id = active.id /\ undock_active' = undock_active /\ undock_active.id = None
    BY <1>3 DEF Navigate, TypeOK, Nav
  <2>2. /\ nav_pending'.id = c
        /\ navigation_generation' = navigation_generation + 1
        /\ captured'[c].nav = navigation_generation + 1
        /\ \A d \in Command \ {c} : captured'[d] = captured[d]
    BY <1>3 DEF Navigate, TypeOK
  <2>3. \A d \in Command : captured[d].nav \in Nat /\ navigation_generation \in Nat
    BY DEF TypeOK
  <2> QED BY <2>1, <2>2, <2>3 DEF MotionInv, OneMotionOwner
<1>4. CASE UndockRequest(c)
  <2>1. /\ active' = active /\ active.id = None
        /\ nav_pending' = nav_pending /\ nav_pending.id = None
        /\ navigation_generation' = navigation_generation
        /\ captured'[c].nav = 0
        /\ \A d \in Command \ {c} : captured'[d] = captured[d]
        /\ kind'[c] = "undock"
        /\ \A d \in Command \ {c} : kind'[d] = kind[d] /\ wait'[d] = wait[d]
    BY <1>4 DEF UndockRequest, UndockFree, TypeOK
  <2>2. navigation_generation \in Nat
    BY DEF TypeOK
  <2> QED BY <2>1, <2>2 DEF MotionInv, OneMotionOwner
<1>5. CASE SetInitialPose(c)
  BY <1>0, <1>5, MotionKept DEF SetInitialPose, genVars, TypeOK
<1>6. CASE Stop(c)
  <2>1. active'.id = active.id /\ undock_active'.id = undock_active.id
    <3>1. CASE StopNothing(c)
      BY <3>1 DEF StopNothing
    <3>2. CASE StopUndock(c)
      BY <3>2 DEF StopUndock, TypeOK, Undock
    <3>3. CASE StopNavigation(c)
      BY <3>3 DEF StopNavigation, TypeOK, Nav
    <3> QED BY <1>6, <3>1, <3>2, <3>3 DEF Stop
  <2> QED BY <1>0, <1>6, <2>1, MotionKept DEF Stop, genVars, TypeOK
<1>7. CASE MapStop(c)
  BY <1>0, <1>7, MotionKept DEF MapStop, genVars, TypeOK
<1>8. CASE MotorDisable(c)
  <2>1. active'.id = active.id /\ undock_active'.id = undock_active.id
    BY <1>8 DEF MotorDisable, TypeOK, Nav, Undock
  <2>2. \A d \in Command : kind'[d] = "navigate_to_pose" /\ wait'[d] = "response"
           => kind[d] = "navigate_to_pose" /\ wait[d] = "response"
    BY <1>0, <1>8 DEF MotorDisable, TypeOK
  <2> QED BY <1>8, <2>1, <2>2, MotionKept DEF MotorDisable
<1>9. CASE SetLidarPower(c)
  <2>1. \A d \in Command : kind'[d] = "navigate_to_pose" /\ wait'[d] = "response"
           => kind[d] = "navigate_to_pose" /\ wait[d] = "response"
    BY <1>0, <1>9 DEF SetLidarPower, TypeOK
  <2> QED BY <1>9, <2>1, MotionKept DEF SetLidarPower, genVars
<1> QED
  BY <1>1, <1>2, <1>3, <1>4, <1>5, <1>6, <1>7, <1>8, <1>9 DEF Handle

\* An accepted destination becomes the owner only if it is the newest one.
LEMMA CallbackMotionInv ==
  ASSUME TypeInv, MotionInv, NEW c \in Command, Callback(c)
  PROVE  MotionInv'
<1> USE ConstantsAssumption DEF TypeInv
<1> DEFINE Closed == \E w \in {"none", "result"} : wait' = [wait EXCEPT ![c] = w]
<1>0. Closed /\ kind' = kind
  BY DEF Callback, GoalResponseError, GoalDeclined, GoalSuperseded, GoalAccepted,
    OnResult, UndockReplyError, UndockDeclined, UndockAccepted, OnUndockResult,
    MapResponse, MapResult, OnDockServiceResult, OnLidarResult
<1>w. /\ \A d \in Command : wait'[d] = "response" => wait[d] = "response" /\ d # c
      /\ \A d \in Command : kind'[d] = kind[d]
  BY <1>0 DEF TypeOK
<1> HIDE DEF Closed
<1>1. CASE GoalResponseError(c)
  BY <1>1, <1>w, MotionKept DEF GoalResponseError, execVars, genVars
<1>2. CASE GoalDeclined(c)
  <2>1. \/ nav_pending' = nav_pending
        \/ nav_pending.id = c /\ nav_pending'.id = None
    BY <1>2 DEF GoalDeclined, NoPending
  <2>2. UNCHANGED <<active, undock_active, captured, navigation_generation>>
    BY <1>2 DEF GoalDeclined, genVars
  <2> QED BY <1>w, <2>1, <2>2 DEF MotionInv, OneMotionOwner
<1>3. CASE GoalSuperseded(c)
  BY <1>3, <1>w, MotionKept DEF GoalSuperseded, execVars, genVars
<1>4. CASE GoalAccepted(c)
  <2>1. nav_pending.id = c
    BY <1>4 DEF GoalAccepted, Superseded, MotionInv
  <2>2. undock_active'.id = None
    BY <1>4, <2>1 DEF GoalAccepted, MotionInv
  <2>3. UNCHANGED <<captured, navigation_generation>>
    BY <1>4 DEF GoalAccepted, genVars
  <2>4. \A d \in Command \ {c} : ~(/\ kind[d] = "navigate_to_pose" /\ wait[d] = "response"
                                   /\ captured[d].nav = navigation_generation)
    BY <2>1 DEF MotionInv
  <2> QED BY <1>w, <2>2, <2>3, <2>4 DEF MotionInv, OneMotionOwner
<1>5. CASE OnResult(c)
  <2>1. active'.id \in {active.id, None}
    BY <1>5 DEF OnResult, NoNav
  <2> QED BY <1>5, <1>w, <2>1, MotionKept DEF OnResult, genVars
<1>6. CASE UndockReplyError(c)
  <2>1. undock_active'.id = undock_active.id
    BY <1>6 DEF UndockReplyError, FailUndock, TypeOK, Undock
  <2> QED BY <1>6, <1>w, <2>1, MotionKept DEF UndockReplyError, genVars
<1>7. CASE UndockDeclined(c)
  BY <1>7, <1>w, MotionKept DEF UndockDeclined, NoUndock, genVars
<1>8. CASE UndockAccepted(c)
  <2>1. undock_active'.id = undock_active.id
    BY <1>8, ZenonT(30) DEF UndockAccepted, TypeOK, Undock
  <2> QED BY <1>8, <1>w, <2>1, MotionKept DEF UndockAccepted, genVars
<1>9. CASE OnUndockResult(c)
  BY <1>9, <1>w, MotionKept DEF OnUndockResult, NoUndock, genVars
<1>10. CASE MapResponse(c)
  BY <1>10, <1>w, MotionKept DEF MapResponse, genVars
<1>11. CASE MapResult(c)
  BY <1>11, <1>w, MotionKept DEF MapResult, genVars
<1>12. CASE OnDockServiceResult(c)
  BY <1>12, <1>w, MotionKept DEF OnDockServiceResult, execVars, genVars
<1>13. CASE OnLidarResult(c)
  BY <1>13, <1>w, MotionKept DEF OnLidarResult, genVars
<1> QED
  BY <1>1, <1>2, <1>3, <1>4, <1>5, <1>6, <1>7, <1>8, <1>9, <1>10, <1>11, <1>12, <1>13 DEF Callback

\* Cancel frames, cancel replies, timers and the action servers change no owner.
LEMMA NextMotionInv == TypeInv /\ MotionInv /\ [Next]_vars => MotionInv'
<1> SUFFICES ASSUME TypeInv, MotionInv, [Next]_vars PROVE MotionInv'
  OBVIOUS
<1> USE DEF TypeInv
<1>1. ASSUME NEW c \in Command, Handle(c) PROVE MotionInv'
  BY <1>1, HandleMotionInv
<1>2. ASSUME NEW c \in Command, CancelFrame(c) PROVE MotionInv'
  <2>1. CASE CancelMap(c)
    BY <2>1, MotionKept DEF CancelMap, genVars
  <2>2. CASE CancelPending(c)
    <3>1. nav_pending'.id = nav_pending.id
      BY <2>2 DEF CancelPending, TypeOK
    <3> QED BY <2>2, <3>1 DEF CancelPending, MotionInv, OneMotionOwner, genVars, serverVars
  <2>3. CASE CancelNavigation(c)
    <3>1. active'.id = active.id
      BY <2>3 DEF CancelNavigation, TypeOK, Nav
    <3> QED BY <2>3, <3>1, MotionKept DEF CancelNavigation, genVars
  <2>4. CASE CancelUndock(c)
    <3>1. undock_active'.id = undock_active.id
      BY <2>4 DEF CancelUndock, TypeOK, Undock
    <3> QED BY <2>4, <3>1, MotionKept DEF CancelUndock, genVars
  <2> QED BY <1>2, <2>1, <2>2, <2>3, <2>4 DEF CancelFrame
<1>3. ASSUME NEW c \in Command, Callback(c) PROVE MotionInv'
  BY <1>3, CallbackMotionInv
<1>4. ASSUME NEW c \in Command, Server(c) PROVE MotionInv'
  BY <1>4, MotionKept DEF Server, Accept, Decline, GoalEnds, serverOnly, execVars, genVars
<1>5. ASSUME NEW x \in cancels, CancelStep(x) PROVE MotionInv'
  <2>1. CASE AnswerCancel(x)
    BY <2>1, MotionKept DEF AnswerCancel, serverOnly, execVars, genVars
  <2>2. CASE CancelReply(x)
    <3>1. active'.id = active.id /\ undock_active'.id = undock_active.id
      BY <2>2 DEF CancelReply, OnCancelResponse, OnNavigationCancelResponse, Claim,
        TypeOK, Nav, Undock
    <3> QED BY <2>2, <3>1, MotionKept DEF CancelReply, genVars
  <2> QED BY <1>5, <2>1, <2>2 DEF CancelStep
<1>6. CASE Timers
  <2>1. ASSUME NEW context \in Contexts, BaseState(context) PROVE MotionInv'
    <3>1. active'.id = active.id
      BY <2>1 DEF BaseState, TypeOK, Nav
    <3> QED BY <2>1, <3>1, MotionKept DEF BaseState, serverVars
  <2>2. ASSUME NEW ready, PollPath(ready) PROVE MotionInv'
    <3>1. active'.id = active.id
      BY <2>2 DEF PollPath, TypeOK, Nav
    <3> QED BY <2>2, <3>1, MotionKept DEF PollPath, genVars, serverVars
  <2>3. CASE OnNavigationPath
    <3>1. active'.id = active.id
      BY <2>3 DEF OnNavigationPath, TypeOK, Nav
    <3> QED BY <2>3, <3>1, MotionKept DEF OnNavigationPath, genVars, serverVars
  <2>4. CASE CheckUndockHealth
    <3>1. undock_active'.id = undock_active.id
      BY <2>4 DEF CheckUndockHealth, FailUndock, TypeOK, Undock
    <3> QED BY <2>4, <3>1, MotionKept DEF CheckUndockHealth, genVars
  <2>5. CASE CheckMapConnection
    BY <2>5, MotionKept DEF CheckMapConnection, genVars
  <2> QED BY <1>6, <2>1, <2>2, <2>3, <2>4, <2>5 DEF Timers
<1>7. CASE UNCHANGED vars
  BY <1>7, MotionKept DEF vars, execVars, genVars, serverVars
<1> QED BY <1>1, <1>2, <1>3, <1>4, <1>5, <1>6, <1>7 DEF Next

\* The executor never owns a navigation goal and an undock at once, whatever
\* order goal responses, refusals, newer destinations and motor disables come in.
THEOREM MotionOwnerCorrect == Spec => []OneMotionOwner
<1>1. MotionInv => OneMotionOwner
  BY DEF MotionInv
<1> QED
  BY <1>1, InitTypeInv, NextTypeInv, InitMotionInv, NextMotionInv, PTL DEF Spec

----------------------------------------------------------------------------
(* Replies.  Three things can answer a stop: its cancel reply, the end of  *)
(* its goal and a newer goal.  The bookkeeping that makes each command     *)
(* answered once is in active.stops and undock_active.stops.               *)

Unreplied(c) == ack[c] = "none" /\ result[c] = "none"

\* A stop that waits on a goal was acknowledged and has no result.
StopsWaiting ==
  \A c \in active.stops \cup undock_active.stops :
    kind[c] = "stop" /\ ack[c] = "accepted" /\ result[c] = "none"

\* An owned navigation goal waits for its result.
ActiveWaits ==
  /\ active.id # None => /\ kind[active.id] = "navigate_to_pose"
                         /\ wait[active.id] = "result"
                         /\ result[active.id] = "none"
  /\ active.stops # {} => active.id # None

\* What an outstanding future says about the replies sent so far.
Futures ==
  \A c \in Command :
    /\ kind[c] = "unsent" \/ wait[c] \in {"response", "service", "lidar"} => Unreplied(c)
    /\ wait[c] = "result" => ack[c] = "accepted"
    /\ wait[c] = "result" /\ kind[c] # "navigate_to_pose" => result[c] = "none"
    /\ kind[c] = "stop" => wait[c] = "none"

ReplyInv == AnsweredOnce /\ Futures /\ ActiveWaits /\ StopsWaiting /\ NoStopForgotten

\* Nothing has been asked or answered at start.
LEMMA InitReplyInv == Init => ReplyInv
BY DEF Init, ReplyInv, AnsweredOnce, Futures, Unreplied, ActiveWaits, StopsWaiting,
  NoStopForgotten, NoNav, NoUndock

\* Steps that send no reply and keep the slots' owners and waiting stops.
LEMMA ReplyKept ==
  ASSUME TypeOK, ReplyInv, kind' = kind, ack' = ack, result' = result, doubled' = doubled,
         active'.id = active.id, active'.stops = active.stops,
         undock_active'.id = undock_active.id, undock_active'.stops = undock_active.stops,
         \A d \in Command : wait'[d] # wait[d] =>
           wait'[d] = "none" /\ kind[d] # "navigate_to_pose"
  PROVE  ReplyInv'
<1>1. AnsweredOnce' /\ Futures'
  BY DEF ReplyInv, AnsweredOnce, Futures, Unreplied
<1>2. ActiveWaits'
  BY DEF ReplyInv, ActiveWaits, TypeOK, Nav, Id
<1>3. StopsWaiting' /\ NoStopForgotten'
  BY DEF ReplyInv, StopsWaiting, NoStopForgotten, Answered
<1> QED BY <1>1, <1>2, <1>3 DEF ReplyInv

\* A request other than stop: it starts waiting, or it is answered at once.
LEMMA ReceivedReply ==
  ASSUME TypeInv, ReplyInv, NEW c \in Command, NEW k, k \notin {"stop", "unsent"},
         kind[c] = "unsent", kind' = [kind EXCEPT ![c] = k],
         active'.id = active.id, active'.stops = active.stops,
         undock_active'.stops = undock_active.stops,
         undock_active.id # None => undock_active'.id # None,
         \/ /\ UNCHANGED replyVars
            /\ \E w \in {"response", "service", "lidar"} : wait' = [wait EXCEPT ![c] = w]
         \/ UNCHANGED wait /\ Tell(To({c}, "refused"), Nobody)
         \/ UNCHANGED wait /\ Tell(Nobody, To({c}, "timeout"))
  PROVE  ReplyInv'
<1> USE ConstantsAssumption DEF TypeInv
<1>1. Unreplied(c) /\ wait[c] = "none" /\ c \notin active.stops \cup undock_active.stops
      /\ c # active.id
  BY DEF ReplyInv, Futures, OwnerInv, Fresh, StopsWaiting, ActiveWaits
<1>2. /\ \A d \in Command \ {c} : /\ kind'[d] = kind[d] /\ wait'[d] = wait[d]
                                  /\ ack'[d] = ack[d] /\ result'[d] = result[d]
      /\ kind'[c] = k
      /\ wait'[c] \in {"none", "response", "service", "lidar"}
      /\ wait'[c] # "none" => ack'[c] = "none" /\ result'[c] = "none"
      /\ doubled' = doubled
  <2>1. CASE UNCHANGED replyVars /\ \E w \in {"response", "service", "lidar"} :
                                      wait' = [wait EXCEPT ![c] = w]
    BY <1>1, <2>1 DEF TypeOK, replyVars, Unreplied
  <2>2. CASE UNCHANGED wait /\ Tell(To({c}, "refused"), Nobody)
    BY <1>1, <2>2 DEF TypeOK, Tell, To, Nobody, Unreplied
  <2>3. CASE UNCHANGED wait /\ Tell(Nobody, To({c}, "timeout"))
    BY <1>1, <2>3 DEF TypeOK, Tell, To, Nobody, Unreplied
  <2> QED BY <2>1, <2>2, <2>3
<1>3. AnsweredOnce' /\ Futures'
  BY <1>2 DEF ReplyInv, AnsweredOnce, Futures, Unreplied
<1>4. ActiveWaits'
  BY <1>1, <1>2 DEF ReplyInv, ActiveWaits, TypeOK, Nav, Id
<1>5. StopsWaiting'
  BY <1>1, <1>2 DEF ReplyInv, StopsWaiting, TypeOK, Nav, Undock
<1>6. NoStopForgotten'
  BY <1>2 DEF ReplyInv, NoStopForgotten, Answered
<1> QED BY <1>3, <1>4, <1>5, <1>6 DEF ReplyInv

\* A callback that answers its own command only.
LEMMA ClosedReply ==
  ASSUME TypeInv, ReplyInv, NEW c \in Command, UNCHANGED kind,
         wait[c] # "none", wait[c] = "result" => kind[c] # "navigate_to_pose",
         active'.id = active.id, active'.stops = active.stops,
         undock_active'.id = undock_active.id, undock_active'.stops = undock_active.stops,
         NEW r \in Outcomes, NEW w \in {"none", "result"},
         wait' = [wait EXCEPT ![c] = w],
         \/ w = "none" /\ wait[c] # "result" /\ Tell(To({c}, "refused"), Nobody)
         \/ w = "none" /\ wait[c] # "result" /\ Tell(To({c}, "accepted"), To({c}, r))
         \/ w = "none" /\ Tell(Nobody, To({c}, r))
         \/ w = "result" /\ wait[c] # "result" /\ Tell(To({c}, "accepted"), Nobody)
  PROVE  ReplyInv'
<1> USE ConstantsAssumption DEF TypeInv
<1>1. /\ c \notin active.stops \cup undock_active.stops /\ c # active.id
      /\ result[c] = "none" /\ ack[c] # "refused" /\ kind[c] \notin {"stop", "unsent"}
      /\ wait[c] # "result" => ack[c] = "none"
  BY DEF ReplyInv, Futures, Unreplied, OwnerInv, Fresh, StopsWaiting, ActiveWaits, TypeOK, Nav, Undock
<1>2. /\ \A d \in Command \ {c} : /\ wait'[d] = wait[d]
                                  /\ ack'[d] = ack[d] /\ result'[d] = result[d]
      /\ wait'[c] = w
      /\ w = "result" => ack'[c] = "accepted" /\ result'[c] = "none"
      /\ doubled' = doubled
  <2>1. CASE w = "none" /\ wait[c] # "result" /\ Tell(To({c}, "refused"), Nobody)
    BY <1>1, <2>1 DEF TypeOK, Tell, To, Nobody
  <2>2. CASE w = "none" /\ wait[c] # "result" /\ Tell(To({c}, "accepted"), To({c}, r))
    BY <1>1, <2>2 DEF TypeOK, Tell, To
  <2>3. CASE w = "none" /\ Tell(Nobody, To({c}, r))
    BY <1>1, <2>3 DEF TypeOK, Tell, To, Nobody
  <2>4. CASE w = "result" /\ wait[c] # "result" /\ Tell(To({c}, "accepted"), Nobody)
    BY <1>1, <2>4 DEF TypeOK, Tell, To, Nobody
  <2> QED BY <2>1, <2>2, <2>3, <2>4
<1>3. AnsweredOnce' /\ Futures'
  BY <1>1, <1>2 DEF ReplyInv, AnsweredOnce, Futures, Unreplied
<1>4. ActiveWaits'
  BY <1>1, <1>2 DEF ReplyInv, ActiveWaits, TypeOK, Nav, Id
<1>5. StopsWaiting'
  BY <1>1, <1>2 DEF ReplyInv, StopsWaiting, TypeOK, Nav, Undock
<1>6. NoStopForgotten'
  BY <1>1, <1>2 DEF ReplyInv, NoStopForgotten, Answered
<1> QED BY <1>3, <1>4, <1>5, <1>6 DEF ReplyInv

\* handle(): a request is refused once, answered at once or left to a callback;
\* a stop is answered at once or joins the stops of the goal it found.
LEMMA HandleReplyInv ==
  ASSUME TypeInv, MotionInv, ReplyInv, NEW c \in Command, Handle(c)
  PROVE  ReplyInv'
<1> USE ConstantsAssumption DEF TypeInv
<1>1. ASSUME NEW k \in Kinds, Refuse(c, k) PROVE ReplyInv'
  <2>1. k \notin {"stop", "unsent"}
    BY <1>1 DEF Refuse, AllKinds, ActionKinds, ServiceKinds, MotionKinds
  <2> QED BY <1>1, <2>1, ReceivedReply DEF Refuse, Receive, execVars, serverVars
<1>2. ASSUME NEW k \in Kinds, CallDockService(c, k) PROVE ReplyInv'
  <2>1. k \notin {"stop", "unsent"}
    BY <1>2 DEF CallDockService, ServiceAdmitted
  <2> QED BY <1>2, <2>1, ReceivedReply DEF CallDockService, Receive, execVars
<1>3. CASE Navigate(c)
  <2>1. active'.id = active.id /\ active'.stops = active.stops
    BY <1>3 DEF Navigate, TypeOK, Nav
  <2> QED BY <1>3, <2>1, ReceivedReply DEF Navigate, Receive
<1>4. CASE UndockRequest(c)
  <2>1. undock_active'.id # None /\ undock_active'.stops = undock_active.stops
    BY <1>4 DEF UndockRequest, UndockFree, NoUndock, OwnerInv, UndockSlot
  <2> QED BY <1>4, <2>1, ReceivedReply DEF UndockRequest, UndockFree, Receive
<1>5. CASE SetInitialPose(c)
  BY <1>5, ReceivedReply DEF SetInitialPose, Receive
<1>6. CASE SetLidarPower(c)
  BY <1>6, ReceivedReply DEF SetLidarPower, Receive
<1>7. CASE MotorDisable(c)
  <2>1. /\ active'.id = active.id /\ active'.stops = active.stops
        /\ undock_active'.id = undock_active.id /\ undock_active'.stops = undock_active.stops
    BY <1>7 DEF MotorDisable, TypeOK, Nav, Undock
  <2> QED BY <1>7, <2>1, ReceivedReply DEF MotorDisable, Receive
<1>8. CASE Stop(c) \/ MapStop(c)
  <2>1. /\ kind[c] = "unsent" /\ kind' = [kind EXCEPT ![c] = "stop"]
        /\ wait' = wait
        /\ Unreplied(c) /\ wait[c] = "none" /\ c # active.id
        /\ c \notin active.stops \cup undock_active.stops
    BY <1>8 DEF Stop, MapStop, Receive, ReplyInv, Futures, OwnerInv, Fresh, StopsWaiting, ActiveWaits
  <2>2. \A d \in Command \ {c} : kind'[d] = kind[d]
    BY <2>1 DEF TypeOK
  <2>3. kind'[c] = "stop"
    BY <2>1 DEF TypeOK
  <2>4. ASSUME Tell(To({c}, "accepted"), To({c}, "succeeded")),
               UNCHANGED <<active, undock_active>>
        PROVE  ReplyInv'
    <3>1. /\ \A d \in Command \ {c} : ack'[d] = ack[d] /\ result'[d] = result[d]
          /\ result'[c] # "none" /\ doubled' = doubled
      BY <2>1, <2>4 DEF TypeOK, Tell, To, Unreplied
    <3>2. AnsweredOnce' /\ Futures'
      BY <2>1, <2>2, <2>3, <3>1 DEF ReplyInv, AnsweredOnce, Futures, Unreplied
    <3>3. ActiveWaits'
      BY <2>1, <2>2, <2>4, <3>1 DEF ReplyInv, ActiveWaits, TypeOK, Nav, Id
    <3>4. StopsWaiting' /\ NoStopForgotten'
      BY <2>1, <2>2, <2>4, <3>1 DEF ReplyInv, StopsWaiting, NoStopForgotten, Answered,
        TypeOK, Nav, Undock
    <3> QED BY <3>2, <3>3, <3>4 DEF ReplyInv
  <2>5. ASSUME Tell(To({c}, "accepted"), Nobody),
               active'.id = active.id, undock_active'.id = undock_active.id,
               \/ /\ undock_active.id # None /\ active'.stops = active.stops
                  /\ undock_active'.stops = undock_active.stops \cup {c}
               \/ /\ active.id # None /\ undock_active'.stops = undock_active.stops
                  /\ active'.stops = active.stops \cup {c}
        PROVE  ReplyInv'
    <3>1. /\ \A d \in Command \ {c} : ack'[d] = ack[d] /\ result'[d] = result[d]
          /\ ack'[c] = "accepted" /\ result'[c] = "none" /\ doubled' = doubled
      BY <2>1, <2>5 DEF TypeOK, Tell, To, Nobody, Unreplied
    <3>2. AnsweredOnce' /\ Futures'
      BY <2>1, <2>2, <2>3, <3>1 DEF ReplyInv, AnsweredOnce, Futures, Unreplied
    <3>3. ActiveWaits'
      BY <2>1, <2>2, <2>5, <3>1 DEF ReplyInv, ActiveWaits, TypeOK, Nav, Id
    <3>4. StopsWaiting'
      BY <2>1, <2>2, <2>3, <2>5, <3>1 DEF ReplyInv, StopsWaiting, TypeOK, Nav, Undock
    <3>5. NoStopForgotten'
      BY <2>1, <2>2, <2>5, <3>1 DEF ReplyInv, NoStopForgotten, Answered
    <3> QED BY <3>2, <3>3, <3>4, <3>5 DEF ReplyInv
  <2>6. CASE MapStop(c)
    BY <2>4, <2>6 DEF MapStop
  <2>7. CASE StopNothing(c)
    BY <2>4, <2>7 DEF StopNothing
  <2>8. CASE StopUndock(c)
    <3>1. /\ undock_active'.id = undock_active.id
          /\ undock_active'.stops = undock_active.stops \cup {c}
      BY <2>8 DEF StopUndock, TypeOK, Undock
    <3> QED BY <2>5, <2>8, <3>1 DEF StopUndock
  <2>9. CASE StopNavigation(c)
    <3>1. active'.id = active.id /\ active'.stops = active.stops \cup {c}
      BY <2>9 DEF StopNavigation, TypeOK, Nav
    <3> QED BY <2>5, <2>9, <3>1 DEF StopNavigation
  <2> QED BY <1>8, <2>6, <2>7, <2>8, <2>9 DEF Stop
<1> QED
  BY <1>1, <1>2, <1>3, <1>4, <1>5, <1>6, <1>7, <1>8 DEF Handle

\* Answering commands that have no result yet, with or without an ack.
LEMMA EndedReply ==
  ASSUME TypeOK, NEW c \in Command, NEW S \in SUBSET Command, NEW results,
         DOMAIN results = S, \A d \in S : results[d] \in Outcomes,
         \A d \in S : result[d] = "none" /\ ack[d] # "refused",
         \/ Tell(Nobody, results) /\ ack[c] = "accepted"
         \/ Tell(To({c}, "accepted"), results) /\ ack[c] = "none"
         \/ Tell(To({c}, "refused"), results) /\ ack[c] = "none"
  PROVE  /\ doubled' = doubled
         /\ \A d \in Command \ {c} : ack'[d] = ack[d]
         /\ \A d \in S : result'[d] # "none"
         /\ \A d \in Command \ S : result'[d] = result[d]
<1>1. PICK acks : Tell(acks, results) /\ DOMAIN acks \subseteq {c}
                  /\ \A d \in DOMAIN acks : ack[d] = "none"
  <2>1. DOMAIN Nobody = {} /\ \A a : DOMAIN To({c}, a) = {c}
    BY DEF Nobody, To
  <2> QED BY <2>1
<1>2. doubled' = doubled
  <2>1. {d \in DOMAIN acks : ack[d] # "none"} = {}
    BY <1>1
  <2>2. {d \in DOMAIN results : result[d] # "none" \/ ack[d] = "refused"} = {}
    OBVIOUS
  <2> QED BY <1>1, <2>1, <2>2 DEF Tell
<1>3. \A d \in Command \ {c} : ack'[d] = ack[d]
  BY <1>1 DEF Tell
<1>4. \A d \in Command : result'[d] = IF d \in S THEN results[d] ELSE result[d]
  BY <1>1 DEF Tell
<1> QED BY <1>2, <1>3, <1>4 DEF Outcomes

\* The goal response and result callbacks answer the command and its stops once.
LEMMA CallbackReplyInv ==
  ASSUME TypeInv, MotionInv, ReplyInv, NEW c \in Command, Callback(c)
  PROVE  ReplyInv'
<1> USE ConstantsAssumption DEF TypeInv
<1>1. CASE GoalResponseError(c)
  BY <1>1, ClosedReply DEF GoalResponseError, execVars, Outcomes
<1>2. CASE GoalDeclined(c)
  BY <1>2, ClosedReply DEF GoalDeclined, Outcomes
<1>3. CASE GoalSuperseded(c)
  BY <1>3, ClosedReply DEF GoalSuperseded, execVars, Outcomes
<1>4. CASE GoalAccepted(c)
  <2> DEFINE S == ({active.id} \ {None}) \cup active.stops
             results == [d \in S |-> IF d = active.id THEN "canceled" ELSE "failed"]
  <2>1. /\ Tell(To({c}, "accepted"), results)
        /\ wait[c] = "response" /\ kind[c] = "navigate_to_pose"
        /\ wait' = [wait EXCEPT ![c] = "result"]
        /\ UNCHANGED <<kind, undock_active>>
    BY <1>4 DEF GoalAccepted
  <2>2. active'.id = c /\ active'.stops = {}
    BY <1>4 DEF GoalAccepted, NoNav
  <2>3. /\ S \in SUBSET Command /\ DOMAIN results = S
        /\ \A d \in S : results[d] \in Outcomes
        /\ \A d \in S : result[d] = "none" /\ ack[d] # "refused"
    BY DEF TypeOK, Nav, Id, ReplyInv, ActiveWaits, StopsWaiting, Futures, Outcomes
  <2>4. ack[c] = "none" /\ result[c] = "none" /\ c \notin S
    BY <2>1 DEF ReplyInv, Futures, Unreplied, ActiveWaits, StopsWaiting
  <2>5. undock_active.id = None /\ undock_active.stops = {}
    BY <1>4 DEF GoalAccepted, Superseded, MotionInv, OwnerInv, UndockSlot
  <2>s. \A d \in Command \ S : d # active.id /\ d \notin active.stops
    BY DEF TypeOK, Nav, Id
  <2>k. \A d \in S : kind[d] # "unsent" /\ wait[d] \in {"none", "result"}
                     /\ (kind[d] = "navigate_to_pose" \/ wait[d] = "none")
    BY DEF ReplyInv, ActiveWaits, StopsWaiting, Futures, TypeOK, Nav, Id
  <2> HIDE DEF S, results
  <2>6. /\ doubled' = doubled
        /\ \A d \in Command \ {c} : ack'[d] = ack[d]
        /\ \A d \in S : result'[d] # "none"
        /\ \A d \in Command \ S : result'[d] = result[d]
    BY <2>1, <2>3, <2>4, EndedReply
  <2>7. ack'[c] = "accepted"
    BY <2>1 DEF Tell, To
  <2>8. wait'[c] = "result" /\ \A d \in Command \ {c} : wait'[d] = wait[d]
    BY <2>1 DEF TypeOK
  <2>9. AnsweredOnce' /\ Futures'
    BY <2>1, <2>4, <2>6, <2>7, <2>8, <2>k DEF ReplyInv, AnsweredOnce, Futures, Unreplied
  <2>10. ActiveWaits' /\ StopsWaiting'
    BY <2>1, <2>2, <2>4, <2>5, <2>6, <2>7, <2>8 DEF ActiveWaits, StopsWaiting
  <2>11. NoStopForgotten'
    BY <2>1, <2>5, <2>6, <2>s DEF ReplyInv, NoStopForgotten, Answered
  <2> QED BY <2>9, <2>10, <2>11 DEF ReplyInv
<1>5. CASE OnResult(c)
  <2> DEFINE S == IF active.id = c THEN {c} \cup active.stops ELSE {}
  <2>1. PICK outcome \in GoalOutcomes(c) :
          Tell(Nobody, [d \in S |-> IF d = c THEN outcome ELSE stop_result(outcome)])
    BY <1>5 DEF OnResult
  <2> DEFINE results == [d \in S |-> IF d = c THEN outcome ELSE stop_result(outcome)]
  <2>2. outcome \in Outcomes /\ stop_result(outcome) \in Outcomes
    BY DEF GoalOutcomes, Outcomes, stop_result
  <2>3. /\ wait[c] = "result" /\ kind[c] = "navigate_to_pose"
        /\ UNCHANGED <<kind, undock_active>>
        /\ active' = IF active.id = c THEN NoNav ELSE active
    BY <1>5 DEF OnResult
  <2>4. wait'[c] = "none" /\ \A d \in Command \ {c} : wait'[d] = wait[d]
    BY <1>5 DEF OnResult, TypeOK
  <2>5. /\ S \in SUBSET Command /\ DOMAIN results = S
        /\ \A d \in S : results[d] \in Outcomes
        /\ \A d \in S : result[d] = "none" /\ ack[d] # "refused"
    BY <2>2 DEF TypeOK, Nav, Id, ReplyInv, ActiveWaits, StopsWaiting, Futures, Outcomes
  <2>6. ack[c] = "accepted"
    BY <2>3 DEF ReplyInv, Futures
  <2>7. /\ \A d \in S : kind[d] \in {"stop", "navigate_to_pose"} /\ ack[d] = "accepted"
        /\ \A d \in Command \ S : active.id = c => d \notin active.stops
    BY <2>3, <2>6 DEF ReplyInv, StopsWaiting
  <2>8. active.id = c => undock_active.id = None /\ undock_active.stops = {}
    BY DEF MotionInv, OneMotionOwner, OwnerInv, UndockSlot
  <2>9. active.id # c => S = {}
    OBVIOUS
  <2>10. Tell(Nobody, results)
    BY <2>1
  <2> HIDE DEF S, results
  <2>11. /\ doubled' = doubled
         /\ \A d \in Command \ {c} : ack'[d] = ack[d]
         /\ \A d \in S : result'[d] # "none"
         /\ \A d \in Command \ S : result'[d] = result[d]
    BY <2>5, <2>6, <2>10, EndedReply, ZenonT(30)
  <2>12. ack'[c] = ack[c]
    BY <2>10 DEF Tell, To, Nobody, TypeOK
  <2>13. AnsweredOnce' /\ Futures'
    BY <2>3, <2>4, <2>6, <2>7, <2>11, <2>12 DEF ReplyInv, AnsweredOnce, Futures, Unreplied
  <2>14. CASE active.id = c
    <3>1. active'.id = None /\ active'.stops = {}
      BY <2>3, <2>14 DEF NoNav
    <3>2. ActiveWaits' /\ StopsWaiting'
      BY <2>3, <2>8, <2>14, <3>1 DEF ActiveWaits, StopsWaiting
    <3>3. NoStopForgotten'
      BY <2>3, <2>7, <2>8, <2>11, <2>14 DEF ReplyInv, NoStopForgotten, Answered
    <3> QED BY <2>13, <3>2, <3>3 DEF ReplyInv
  <2>15. CASE active.id # c
    <3>1. active' = active /\ \A d \in Command : result'[d] = result[d] /\ ack'[d] = ack[d]
      BY <2>3, <2>9, <2>11, <2>12, <2>15
    <3>2. ActiveWaits'
      BY <2>3, <2>4, <2>15, <3>1 DEF ReplyInv, ActiveWaits, TypeOK, Nav, Id
    <3>3. StopsWaiting' /\ NoStopForgotten'
      BY <2>3, <3>1 DEF ReplyInv, StopsWaiting, NoStopForgotten, Answered, TypeOK, Nav, Undock
    <3> QED BY <2>13, <3>2, <3>3 DEF ReplyInv
  <2> QED BY <2>14, <2>15
<1>6. CASE UndockReplyError(c)
  <2>1. /\ undock_active'.id = undock_active.id
        /\ undock_active'.stops = undock_active.stops
    BY <1>6, ZenonT(30) DEF UndockReplyError, FailUndock, TypeOK, Undock
  <2>2. \A d \in Command : wait'[d] # wait[d] =>
           wait'[d] = "none" /\ kind[d] # "navigate_to_pose"
    <3>1. kind[c] = "undock" /\ wait' = [wait EXCEPT ![c] = "none"]
      BY <1>6 DEF UndockReplyError
    <3> QED BY <3>1 DEF TypeOK
  <2> QED BY <1>6, <2>1, <2>2, ReplyKept DEF replyVars, UndockReplyError
<1>8. CASE UndockAccepted(c)
  <2>1. /\ kind[c] = "undock" /\ wait[c] = "response"
        /\ wait' = [wait EXCEPT ![c] = "result"]
        /\ UNCHANGED <<kind, active>>
    BY <1>8 DEF UndockAccepted
  <2>2. undock_active'.id = undock_active.id /\ undock_active.id = c
    <3>1. undock_active'.id = undock_active.id
      BY <1>8, ZenonT(30) DEF UndockAccepted, TypeOK, Undock
    <3> QED BY <2>1, <3>1 DEF OwnerInv, UndockOwner
  <2>3. \/ undock_active'.stops = undock_active.stops /\ Tell(To({c}, "accepted"), Nobody)
        \/ /\ undock_active'.stops = {}
           /\ Tell(To({c}, "accepted"), To(undock_active.stops, "failed"))
    BY <1>8, ZenonT(30) DEF UndockAccepted, TypeOK, Undock
  <2>4. CASE undock_active'.stops = undock_active.stops /\ Tell(To({c}, "accepted"), Nobody)
    BY <2>1, <2>2, <2>4, ClosedReply DEF Outcomes
  <2>5. CASE /\ undock_active'.stops = {}
             /\ Tell(To({c}, "accepted"), To(undock_active.stops, "failed"))
    <3> DEFINE S == undock_active.stops
               results == To(S, "failed")
    <3>1. active.id = None /\ active.stops = {}
      BY <2>2 DEF MotionInv, OneMotionOwner, ReplyInv, ActiveWaits
    <3>2. /\ S \in SUBSET Command /\ DOMAIN results = S
          /\ \A d \in S : results[d] \in Outcomes
          /\ \A d \in S : result[d] = "none" /\ ack[d] # "refused" /\ kind[d] = "stop"
      BY DEF TypeOK, Undock, ReplyInv, StopsWaiting, Outcomes, To
    <3>3. ack[c] = "none" /\ result[c] = "none" /\ c \notin S
      BY <2>1, <3>2 DEF ReplyInv, Futures, Unreplied
    <3>s. \A d \in Command \ S : d \notin undock_active.stops
      OBVIOUS
    <3>4. Tell(To({c}, "accepted"), results)
      BY <2>5
    <3> HIDE DEF S, results
    <3>5. /\ doubled' = doubled
          /\ \A d \in Command \ {c} : ack'[d] = ack[d]
          /\ \A d \in S : result'[d] # "none"
          /\ \A d \in Command \ S : result'[d] = result[d]
      BY <3>2, <3>3, <3>4, EndedReply
    <3>6. ack'[c] = "accepted"
      BY <3>4 DEF Tell, To
    <3>7. wait'[c] = "result" /\ \A d \in Command \ {c} : wait'[d] = wait[d]
      BY <2>1 DEF TypeOK
    <3>8. AnsweredOnce' /\ Futures'
      BY <2>1, <3>2, <3>3, <3>5, <3>6, <3>7 DEF ReplyInv, AnsweredOnce, Futures, Unreplied
    <3>9. ActiveWaits' /\ StopsWaiting'
      BY <2>1, <2>5, <3>1 DEF ActiveWaits, StopsWaiting
    <3>10. NoStopForgotten'
      BY <2>1, <3>1, <3>5, <3>s DEF ReplyInv, NoStopForgotten, Answered
    <3> QED BY <3>8, <3>9, <3>10 DEF ReplyInv
  <2> QED BY <2>3, <2>4, <2>5
<1>7. ASSUME NEW S, S = {c} \cup undock_active.stops \/ S = undock_active.stops,
             NEW results, DOMAIN results = S, \A d \in S : results[d] \in Outcomes,
             kind[c] = "undock", wait[c] \in {"response", "result"},
             wait' = [wait EXCEPT ![c] = "none"],
             undock_active'.stops = {},
             UNCHANGED <<kind, active>>,
             \/ Tell(Nobody, results) /\ wait[c] = "result"
             \/ Tell(To({c}, "refused"), results) /\ wait[c] = "response"
      PROVE  ReplyInv'
  <2>1. active.id = None /\ active.stops = {}
    BY <1>7 DEF MotionInv, OneMotionOwner, ReplyInv, ActiveWaits, OwnerInv, UndockOwner
  <2>2. result[c] = "none" /\ (wait[c] = "result" => ack[c] = "accepted")
        /\ (wait[c] = "response" => ack[c] = "none")
    BY <1>7 DEF ReplyInv, Futures, Unreplied
  <2>3. /\ S \in SUBSET Command
        /\ \A d \in S : result[d] = "none" /\ ack[d] # "refused" /\ kind[d] # "unsent"
                        /\ (d # c => wait[d] = "none")
    BY <1>7, <2>2 DEF TypeOK, Undock, ReplyInv, StopsWaiting, Futures
  <2>4. /\ doubled' = doubled
        /\ \A d \in Command \ {c} : ack'[d] = ack[d]
        /\ \A d \in S : result'[d] # "none"
        /\ \A d \in Command \ S : result'[d] = result[d]
    <3>1. \/ Tell(Nobody, results) /\ ack[c] = "accepted"
          \/ Tell(To({c}, "refused"), results) /\ ack[c] = "none"
      BY <1>7, <2>2
    <3>2. /\ DOMAIN results = S /\ \A d \in S : results[d] \in Outcomes
          /\ \A d \in S : result[d] = "none" /\ ack[d] # "refused"
      BY <1>7, <2>3
    <3> QED BY <2>3, <3>1, <3>2, EndedReply, ZenonT(30)
  <2>5. wait'[c] = "none" /\ \A d \in Command \ {c} : wait'[d] = wait[d]
    BY <1>7 DEF TypeOK
  <2>6. AnsweredOnce' /\ Futures'
    BY <1>7, <2>3, <2>4, <2>5 DEF ReplyInv, AnsweredOnce, Futures, Unreplied
  <2>7. ActiveWaits' /\ StopsWaiting'
    BY <1>7, <2>1 DEF ActiveWaits, StopsWaiting
  <2>8. NoStopForgotten'
    BY <1>7, <2>1, <2>4 DEF ReplyInv, NoStopForgotten, Answered
  <2> QED BY <2>6, <2>7, <2>8 DEF ReplyInv
<1>9. CASE UndockDeclined(c)
  <2>1. DOMAIN To(undock_active.stops, "succeeded") = undock_active.stops
        /\ \A d \in undock_active.stops : To(undock_active.stops, "succeeded")[d] \in Outcomes
    BY DEF To, Outcomes
  <2>2. undock_active'.stops = {}
    BY <1>9 DEF UndockDeclined, NoUndock
  <2> QED BY <1>7, <1>9, <2>1, <2>2 DEF UndockDeclined
<1>14. CASE OnUndockResult(c)
  <2>1. PICK outcome \in Outcomes :
          Tell(Nobody, [d \in {c} \cup undock_active.stops |->
                          IF d = c THEN outcome ELSE stop_result(outcome)])
    BY <1>14 DEF OnUndockResult
  <2> DEFINE results == [d \in {c} \cup undock_active.stops |->
                           IF d = c THEN outcome ELSE stop_result(outcome)]
  <2>2. stop_result(outcome) \in Outcomes
    BY DEF Outcomes, stop_result
  <2>3. DOMAIN results = {c} \cup undock_active.stops
        /\ \A d \in {c} \cup undock_active.stops : results[d] \in Outcomes
    BY <2>2
  <2>4. undock_active'.stops = {}
    BY <1>14 DEF OnUndockResult, NoUndock
  <2>5. Tell(Nobody, results)
    BY <2>1
  <2> HIDE DEF results
  <2> QED BY <1>7, <1>14, <2>3, <2>4, <2>5 DEF OnUndockResult
<1>10. CASE MapResponse(c)
  <2>1. /\ kind[c] = "set_initial_pose" /\ wait[c] = "response"
        /\ UNCHANGED <<kind, active, undock_active>>
        /\ \/ /\ Tell(To({c}, "refused"), Nobody)
              /\ wait' = [wait EXCEPT ![c] = "none"]
           \/ /\ Tell(To({c}, "accepted"), Nobody)
              /\ wait' = [wait EXCEPT ![c] = "result"]
           \/ /\ Tell(Nobody, To({c}, "failed"))
              /\ wait' = [wait EXCEPT ![c] = "none"]
    BY <1>10 DEF MapResponse
  <2> QED BY <2>1, ClosedReply DEF Outcomes
<1>11. CASE MapResult(c)
  <2>1. PICK r \in GoalOutcomes(c) \ {"canceled"} : Tell(Nobody, To({c}, r))
    BY <1>11 DEF MapResult
  <2>2. r \in Outcomes
    BY <2>1 DEF GoalOutcomes, Outcomes
  <2> QED BY <1>11, <2>1, <2>2, ClosedReply DEF MapResult
<1>12. CASE OnDockServiceResult(c)
  <2>1. CASE Tell(To({c}, "refused"), Nobody)
    BY <1>12, <2>1, ClosedReply DEF OnDockServiceResult, execVars, Outcomes
  <2>2. CASE \E outcome \in {"succeeded", "failed"} :
               Tell(To({c}, "accepted"), To({c}, outcome))
    BY <1>12, <2>2, ClosedReply DEF OnDockServiceResult, execVars, Outcomes
  <2> QED BY <1>12, <2>1, <2>2 DEF OnDockServiceResult
<1>13. CASE OnLidarResult(c)
  <2>1. \/ Tell(Nobody, To({c}, "timeout"))
        \/ Tell(To({c}, "refused"), Nobody)
        \/ Tell(To({c}, "accepted"), To({c}, "succeeded"))
        \/ Tell(To({c}, "accepted"), To({c}, "failed"))
    BY <1>13 DEF OnLidarResult
  <2> QED BY <1>13, <2>1, ClosedReply DEF OnLidarResult, Outcomes
<1> QED
  BY <1>1, <1>2, <1>3, <1>4, <1>5, <1>6, <1>8, <1>9, <1>10, <1>11, <1>12, <1>13, <1>14
  DEF Callback

\* A cancel reply answers a stop only by taking it off the goal it waits on.
LEMMA CancelReplyReplyInv ==
  ASSUME TypeInv, MotionInv, ReplyInv, NEW x \in cancels, CancelReply(x)
  PROVE  ReplyInv'
<1> USE ConstantsAssumption DEF TypeInv
<1> DEFINE verdict == IF x.verdict = "none" THEN "error" ELSE x.verdict
<1>1. /\ OnCancelResponse(x, verdict) \/ OnNavigationCancelResponse(x, verdict)
      /\ UNCHANGED <<kind, wait>>
  BY DEF CancelReply
<1> HIDE DEF verdict
<1>2. CASE UNCHANGED <<replyVars, active, undock_active>>
  BY <1>1, <1>2, ReplyKept DEF replyVars
<1>3. CASE OnNavigationCancelResponse(x, verdict)
  <2>1. active'.id = active.id /\ active'.stops = active.stops
    BY <1>3 DEF OnNavigationCancelResponse, TypeOK, Nav
  <2> QED BY <1>1, <1>3, <2>1, ReplyKept DEF replyVars, OnNavigationCancelResponse
<1>4. ASSUME x.heard \in Command, Claimed(x.heard), Claim(x.heard),
             NEW r \in Outcomes, Tell(Nobody, To({x.heard}, r))
      PROVE  ReplyInv'
  <2> DEFINE c == x.heard
  <2>1. c \in Command /\ kind[c] = "stop" /\ ack[c] = "accepted" /\ result[c] = "none"
    BY <1>4 DEF Claimed, ReplyInv, StopsWaiting
  <2>2. /\ active'.id = active.id /\ active'.stops = active.stops \ {c}
        /\ undock_active'.id = undock_active.id
        /\ undock_active'.stops = undock_active.stops \ {c}
    <3>1. active.stops = {} \/ undock_active.stops = {}
      BY DEF MotionInv, OneMotionOwner, ReplyInv, ActiveWaits, OwnerInv, UndockSlot
    <3> QED BY <1>4, <3>1 DEF Claim, TypeOK, Nav, Undock
  <2>3. /\ doubled' = doubled
        /\ \A d \in Command : ack'[d] = ack[d]
        /\ \A d \in Command \ {c} : result'[d] = result[d]
        /\ result'[c] # "none"
    BY <1>4, <2>1 DEF TypeOK, Tell, To, Nobody, Outcomes
  <2>4. AnsweredOnce' /\ Futures'
    BY <1>1, <2>1, <2>3 DEF ReplyInv, AnsweredOnce, Futures, Unreplied
  <2>5. ActiveWaits'
    BY <1>1, <2>1, <2>2, <2>3 DEF ReplyInv, ActiveWaits, TypeOK, Nav, Id
  <2>6. StopsWaiting'
    BY <1>1, <2>2, <2>3 DEF ReplyInv, StopsWaiting, TypeOK, Nav, Undock
  <2>7. NoStopForgotten'
    BY <1>1, <2>2, <2>3 DEF ReplyInv, NoStopForgotten, Answered
  <2> QED BY <2>4, <2>5, <2>6, <2>7 DEF ReplyInv
<1> QED BY <1>1, <1>2, <1>3, <1>4 DEF OnCancelResponse, Outcomes

\* Every step keeps the reply bookkeeping.
LEMMA NextReplyInv == TypeInv /\ MotionInv /\ ReplyInv /\ [Next]_vars => ReplyInv'
<1> SUFFICES ASSUME TypeInv, MotionInv, ReplyInv, [Next]_vars PROVE ReplyInv'
  OBVIOUS
<1> USE DEF TypeInv
<1>1. ASSUME NEW c \in Command, Handle(c) PROVE ReplyInv'
  BY <1>1, HandleReplyInv
<1>2. ASSUME NEW c \in Command, CancelFrame(c) PROVE ReplyInv'
  <2>1. CASE CancelMap(c)
    BY <2>1, ReplyKept DEF replyVars, CancelMap
  <2>2. CASE CancelPending(c)
    BY <2>2, ReplyKept DEF replyVars, CancelPending, serverVars
  <2>3. CASE CancelNavigation(c)
    <3>1. active'.id = active.id /\ active'.stops = active.stops
      BY <2>3 DEF CancelNavigation, TypeOK, Nav
    <3> QED BY <2>3, <3>1, ReplyKept DEF replyVars, CancelNavigation
  <2>4. CASE CancelUndock(c)
    <3>1. undock_active'.id = undock_active.id /\ undock_active'.stops = undock_active.stops
      BY <2>4 DEF CancelUndock, TypeOK, Undock
    <3> QED BY <2>4, <3>1, ReplyKept DEF replyVars, CancelUndock
  <2> QED BY <1>2, <2>1, <2>2, <2>3, <2>4 DEF CancelFrame
<1>3. ASSUME NEW c \in Command, Callback(c) PROVE ReplyInv'
  BY <1>3, CallbackReplyInv
<1>4. ASSUME NEW c \in Command, Server(c) PROVE ReplyInv'
  BY <1>4, ReplyKept DEF replyVars, Server, Accept, Decline, GoalEnds, serverOnly, execVars
<1>5. ASSUME NEW x \in cancels, CancelStep(x) PROVE ReplyInv'
  <2>1. CASE AnswerCancel(x)
    BY <2>1, ReplyKept DEF replyVars, AnswerCancel, serverOnly, execVars
  <2> QED BY <1>5, <2>1, CancelReplyReplyInv DEF CancelStep
<1>6. CASE Timers
  <2>1. ASSUME NEW context \in Contexts, BaseState(context) PROVE ReplyInv'
    <3>1. active'.id = active.id /\ active'.stops = active.stops
      BY <2>1 DEF BaseState, TypeOK, Nav
    <3> QED BY <2>1, <3>1, ReplyKept DEF replyVars, BaseState, serverVars
  <2>2. ASSUME NEW ready, PollPath(ready) PROVE ReplyInv'
    <3>1. active'.id = active.id /\ active'.stops = active.stops
      BY <2>2 DEF PollPath, TypeOK, Nav
    <3> QED BY <2>2, <3>1, ReplyKept DEF replyVars, PollPath, serverVars
  <2>3. CASE OnNavigationPath
    <3>1. active'.id = active.id /\ active'.stops = active.stops
      BY <2>3 DEF OnNavigationPath, TypeOK, Nav
    <3> QED BY <2>3, <3>1, ReplyKept DEF replyVars, OnNavigationPath, serverVars
  <2>4. CASE CheckUndockHealth
    <3>1. undock_active'.id = undock_active.id /\ undock_active'.stops = undock_active.stops
      BY <2>4 DEF CheckUndockHealth, FailUndock, TypeOK, Undock
    <3> QED BY <2>4, <3>1, ReplyKept DEF replyVars, CheckUndockHealth
  <2>5. CASE CheckMapConnection
    BY <2>5, ReplyKept DEF replyVars, CheckMapConnection
  <2> QED BY <1>6, <2>1, <2>2, <2>3, <2>4, <2>5 DEF Timers
<1>7. CASE UNCHANGED vars
  BY <1>7, ReplyKept DEF replyVars, vars, execVars, serverVars
<1> QED BY <1>1, <1>2, <1>3, <1>4, <1>5, <1>6, <1>7 DEF Next

\* Every command gets at most one ack and one result, and a refused command no
\* result, whichever of the cancel reply, the goal's end, a refusal or a newer
\* goal comes first.
THEOREM AnsweredOnceCorrect == Spec => []AnsweredOnce
<1>1. ReplyInv => AnsweredOnce
  BY DEF ReplyInv
<1> QED
  BY <1>1, InitTypeInv, NextTypeInv, InitMotionInv, NextMotionInv, InitReplyInv,
     NextReplyInv, PTL DEF Spec

\* A stop that has been acknowledged and not answered is waiting on a goal the
\* executor still owns: nothing drops it silently.
THEOREM NoStopForgottenCorrect == Spec => []NoStopForgotten
<1>1. ReplyInv => NoStopForgotten
  BY DEF ReplyInv
<1> QED
  BY <1>1, InitTypeInv, NextTypeInv, InitMotionInv, NextMotionInv, InitReplyInv,
     NextReplyInv, PTL DEF Spec

----------------------------------------------------------------------------
(* The undock owner                                                        *)

\* A step takes the undock owner away only through the two callbacks that know
\* the goal has ended.
LEMMA UndockReleased ==
  ASSUME TypeInv, [Next]_vars, undock_active.id # None,
         undock_active'.id # undock_active.id
  PROVE  goal[undock_active.id] \in {"over", "declined"}
<1> USE DEF TypeInv
<1>1. ASSUME NEW c \in Command, Handle(c) PROVE undock_active'.id = undock_active.id
  <2>1. CASE \E k \in Kinds : Refuse(c, k) \/ CallDockService(c, k)
    BY <2>1 DEF Refuse, CallDockService, execVars
  <2>2. CASE Navigate(c) \/ UndockRequest(c) \/ SetInitialPose(c) \/ MapStop(c) \/ SetLidarPower(c)
    BY <2>2 DEF Navigate, UndockRequest, UndockFree, SetInitialPose, MapStop, SetLidarPower
  <2>3. CASE Stop(c)
    BY <2>3 DEF Stop, StopNothing, StopUndock, StopNavigation, TypeOK, Undock
  <2>4. CASE MotorDisable(c)
    BY <2>4 DEF MotorDisable, TypeOK, Undock
  <2> QED BY <1>1, <2>1, <2>2, <2>3, <2>4 DEF Handle
<1>2. ASSUME NEW c \in Command, CancelFrame(c) PROVE undock_active'.id = undock_active.id
  BY <1>2 DEF CancelFrame, CancelMap, CancelPending, CancelNavigation, CancelUndock,
    TypeOK, Undock
<1>3. ASSUME NEW c \in Command, Callback(c)
      PROVE  \/ undock_active'.id = undock_active.id
             \/ undock_active.id = c /\ goal[c] \in {"over", "declined"}
  <2>1. CASE UndockDeclined(c) \/ OnUndockResult(c)
    BY <2>1 DEF UndockDeclined, OnUndockResult, OwnerInv, UndockOwner
  <2>2. CASE UndockReplyError(c)
    BY <2>2 DEF UndockReplyError, FailUndock, TypeOK, Undock
  <2>3. CASE UndockAccepted(c)
    BY <2>3, ZenonT(30) DEF UndockAccepted, TypeOK, Undock
  <2>4. CASE \/ GoalResponseError(c) \/ GoalDeclined(c) \/ GoalSuperseded(c)
             \/ GoalAccepted(c) \/ OnResult(c) \/ MapResponse(c) \/ MapResult(c)
             \/ OnDockServiceResult(c) \/ OnLidarResult(c)
    BY <2>4 DEF GoalResponseError, GoalDeclined, GoalSuperseded, GoalAccepted, OnResult,
      MapResponse, MapResult, OnDockServiceResult, OnLidarResult, execVars
  <2> QED BY <1>3, <2>1, <2>2, <2>3, <2>4 DEF Callback
<1>4. ASSUME NEW c \in Command, Server(c) PROVE undock_active'.id = undock_active.id
  BY <1>4 DEF Server, Accept, Decline, GoalEnds, serverOnly, execVars
<1>5. ASSUME NEW x \in cancels, CancelStep(x) PROVE undock_active'.id = undock_active.id
  BY <1>5 DEF CancelStep, AnswerCancel, serverOnly, execVars, CancelReply,
    OnCancelResponse, OnNavigationCancelResponse, Claim, TypeOK, Undock
<1>6. ASSUME Timers PROVE undock_active'.id = undock_active.id
  BY <1>6 DEF Timers, BaseState, PollPath, OnNavigationPath, CheckUndockHealth,
    FailUndock, CheckMapConnection, TypeOK, Undock
<1>7. CASE UNCHANGED vars
  BY <1>7 DEF vars, execVars
<1> QED BY <1>1, <1>2, <1>3, <1>4, <1>5, <1>6, <1>7 DEF Next

\* The undock owner is never released by silence, an error, a stop, a motor
\* disable or the watchdog: only by a declined goal or one that is over.
THEOREM UndockOwnerCorrect == Spec => UndockOwnerKept
<1>1. TypeInv /\ [Next]_vars =>
        [undock_active.id # None /\ undock_active'.id # undock_active.id
           => goal[undock_active.id] \in {"over", "declined"}]_vars
  BY UndockReleased
<1> QED BY <1>1, InitTypeInv, NextTypeInv, PTL DEF Spec, UndockOwnerKept

----------------------------------------------------------------------------
(* LiDAR power.  The barrier is held by the one command whose future, or   *)
(* whose silence, is outstanding.                                          *)

LidarInv ==
  /\ LidarUnknownHolds
  /\ \A c \in Command : wait[c] = "lidar" => lidar.pending = c

\* No power command is outstanding at start.
LEMMA InitLidarInv == Init => LidarInv
BY DEF Init, LidarInv, LidarUnknownHolds

\* Steps that leave the barrier alone and tell no power command that it timed out.
LEMMA LidarKept ==
  ASSUME LidarInv, lidar'.pending = lidar.pending,
         \A d \in Command : kind'[d] = "set_lidar_power" /\ result'[d] = "timeout"
           => kind[d] = "set_lidar_power" /\ result[d] = "timeout",
         \A d \in Command : wait'[d] = "lidar" => wait[d] = "lidar"
  PROVE  LidarInv'
BY DEF LidarInv, LidarUnknownHolds

\* A request leaves the barrier alone, unless it takes it.
LEMMA HandleLidarInv ==
  ASSUME TypeInv, ReplyInv, LidarInv, NEW c \in Command, Handle(c)
  PROVE  LidarInv'
<1> USE DEF TypeInv, Receive
<1>0. /\ kind[c] = "unsent" /\ result[c] = "none" /\ wait[c] = "none"
      /\ \A d \in Command \ {c} : kind'[d] = kind[d]
  BY DEF Handle, Refuse, CallDockService, Navigate, UndockRequest, SetInitialPose, Stop, MapStop,
    MotorDisable, SetLidarPower, OwnerInv, Fresh, ReplyInv, Futures, Unreplied, TypeOK
<1>1. CASE SetLidarPower(c)
  <2>1. lidar.pending = None /\ lidar'.pending = c
    BY <1>1 DEF SetLidarPower, Admitted, LidarHolds, TypeOK
  <2>2. \A d \in Command \ {c} : result'[d] = result[d] /\ wait'[d] = wait[d]
    BY <1>1 DEF SetLidarPower, TypeOK, replyVars, Tell, To, Nobody
  <2>3. \A d \in Command : d # None
    BY ConstantsAssumption
  <2> QED BY <1>0, <2>1, <2>2, <2>3 DEF LidarInv, LidarUnknownHolds
<1>2. CASE ~SetLidarPower(c)
  <2>1. lidar' = lidar
    BY <1>2 DEF Handle, Refuse, CallDockService, Navigate, UndockRequest, SetInitialPose, Stop, MapStop,
      MotorDisable, execVars
  <2>2. \A d \in Command : result'[d] \in {result[d], "succeeded"}
    <3>1. \/ UNCHANGED replyVars
          \/ Tell(To({c}, "refused"), Nobody)
          \/ Tell(To({c}, "accepted"), Nobody)
          \/ Tell(To({c}, "accepted"), To({c}, "succeeded"))
      BY <1>2 DEF Handle, Refuse, CallDockService, Navigate, UndockRequest, SetInitialPose, Stop,
        StopNothing, StopUndock, StopNavigation, MapStop, MotorDisable
    <3> QED BY <3>1 DEF replyVars, Tell, To, Nobody, TypeOK
  <2>3. \A d \in Command : wait'[d] = "lidar" => wait[d] = "lidar"
    BY <1>2 DEF Handle, Refuse, CallDockService, Navigate, UndockRequest, SetInitialPose, Stop, MapStop,
      MotorDisable, serverVars, TypeOK
  <2>4. \A d \in Command : kind'[d] = "set_lidar_power" /\ result'[d] = "timeout"
           => kind[d] = "set_lidar_power" /\ result[d] = "timeout"
    BY <1>0, <2>2
  <2> QED BY <2>1, <2>3, <2>4, LidarKept
<1> QED BY <1>1, <1>2

\* Only the power command's own definitive reply releases the barrier.
LEMMA CallbackLidarInv ==
  ASSUME TypeInv, ReplyInv, LidarInv, NEW c \in Command, Callback(c)
  PROVE  LidarInv'
<1> USE DEF TypeInv
<1>0. /\ kind' = kind
      /\ \A d \in Command \ {c} : wait'[d] = wait[d]
      /\ wait'[c] \in {"none", "result"}
  BY DEF Callback, GoalResponseError, GoalDeclined, GoalSuperseded, GoalAccepted,
    OnResult, UndockReplyError, UndockDeclined, UndockAccepted, OnUndockResult,
    MapResponse, MapResult, OnDockServiceResult, OnLidarResult, TypeOK
<1>1. CASE OnLidarResult(c)
  <2>1. lidar.pending = c
    BY <1>1 DEF OnLidarResult, LidarInv
  <2>2. /\ result[c] = "none" /\ \A d \in Command \ {c} : wait[d] # "lidar"
        /\ \A d \in Command \ {c} : ~(kind[d] = "set_lidar_power" /\ result[d] = "timeout")
    BY <1>1, <2>1 DEF OnLidarResult, ReplyInv, Futures, Unreplied, LidarInv, LidarUnknownHolds
  <2>3. \A d \in Command \ {c} : result'[d] = result[d]
    BY <1>1 DEF OnLidarResult, Tell, To, Nobody
  <2>4. lidar' = lidar \/ result'[c] # "timeout"
    BY <1>1, <2>2 DEF OnLidarResult, Tell, To, Nobody
  <2> QED BY <1>0, <2>1, <2>2, <2>3, <2>4 DEF LidarInv, LidarUnknownHolds
<1>2. CASE OnUndockResult(c)
  <2>1. \A d \in {c} \cup undock_active.stops : kind[d] # "set_lidar_power"
    BY <1>2 DEF OnUndockResult, ReplyInv, StopsWaiting
  <2>2. \A d \in Command : result'[d] = result[d] \/ kind[d] # "set_lidar_power"
    BY <1>2, <2>1 DEF OnUndockResult, Tell, Nobody, To
  <2>3. UNCHANGED lidar
    BY <1>2 DEF OnUndockResult
  <2> QED BY <1>0, <2>2, <2>3, LidarKept
<1>3. CASE ~OnLidarResult(c) /\ ~OnUndockResult(c)
  <2>1. UNCHANGED lidar
    BY <1>3 DEF Callback, GoalResponseError, GoalDeclined, GoalSuperseded, GoalAccepted,
      OnResult, UndockReplyError, UndockDeclined, UndockAccepted,
      MapResponse, MapResult, OnDockServiceResult, execVars
  <2>2. \A d \in Command : result'[d] = "timeout" => result[d] = "timeout"
    <3>1. CASE GoalResponseError(c) \/ GoalDeclined(c) \/ GoalSuperseded(c) \/ UndockReplyError(c)
      BY <3>1 DEF GoalResponseError, GoalDeclined, GoalSuperseded, UndockReplyError, Tell, To, Nobody, replyVars
    <3>2. CASE GoalAccepted(c)
      BY <3>2 DEF GoalAccepted, Tell, To
    <3>3. CASE OnResult(c)
      BY <3>3 DEF OnResult, Tell, To, Nobody, GoalOutcomes, stop_result
    <3>4. CASE UndockDeclined(c) \/ UndockAccepted(c)
      BY <3>4 DEF UndockDeclined, UndockAccepted, Tell, To, Nobody
    <3>5. CASE MapResponse(c) \/ MapResult(c)
      BY <3>5 DEF MapResponse, MapResult, GoalOutcomes, Tell, To, Nobody
    <3>6. CASE OnDockServiceResult(c)
      BY <3>6 DEF OnDockServiceResult, Tell, To, Nobody
    <3> QED BY <1>3, <3>1, <3>2, <3>3, <3>4, <3>5, <3>6 DEF Callback
  <2> QED BY <1>0, <2>1, <2>2, LidarKept
<1> QED BY <1>1, <1>2, <1>3

\* Nothing else releases the barrier or answers a power command.
LEMMA NextLidarInv == TypeInv /\ ReplyInv /\ LidarInv /\ [Next]_vars => LidarInv'
<1> SUFFICES ASSUME TypeInv, ReplyInv, LidarInv, [Next]_vars PROVE LidarInv'
  OBVIOUS
<1>1. ASSUME NEW c \in Command, CancelFrame(c) PROVE LidarInv'
  BY <1>1, LidarKept DEF CancelFrame, CancelMap, CancelPending, CancelNavigation, CancelUndock,
    replyVars, serverVars
<1>2. ASSUME NEW c \in Command, Server(c) PROVE LidarInv'
  BY <1>2, LidarKept DEF Server, Accept, Decline, GoalEnds, serverOnly, replyVars, execVars
<1>3. ASSUME NEW x \in cancels, AnswerCancel(x) PROVE LidarInv'
  BY <1>3, LidarKept DEF AnswerCancel, serverOnly, replyVars, execVars
<1>4. ASSUME NEW x \in cancels, CancelReply(x) PROVE LidarInv'
  <2>1. UNCHANGED <<kind, lidar, wait>>
    BY <1>4 DEF CancelReply
  <2>2. \A d \in Command : result'[d] = "timeout" => result[d] = "timeout"
    BY <1>4 DEF CancelReply, OnCancelResponse, OnNavigationCancelResponse, replyVars, Tell, To, Nobody
  <2> QED BY <2>1, <2>2, LidarKept
<1>5. CASE Timers
  <2>1. lidar'.pending = lidar.pending
    BY <1>5 DEF Timers, BaseState, PollPath, OnNavigationPath, CheckUndockHealth, CheckMapConnection,
      TypeInv, TypeOK
  <2>2. UNCHANGED <<kind, result, wait>>
    BY <1>5 DEF Timers, BaseState, PollPath, OnNavigationPath, CheckUndockHealth, CheckMapConnection,
      replyVars, serverVars
  <2> QED BY <2>1, <2>2, LidarKept
<1>6. CASE UNCHANGED vars
  BY <1>6, LidarKept DEF vars, execVars, replyVars, serverVars
<1> QED BY <1>1, <1>2, <1>3, <1>4, <1>5, <1>6, HandleLidarInv, CallbackLidarInv DEF Next, CancelStep

\* A LiDAR power command that timed out keeps its barrier: only a definitive
\* reply to that command releases _lidar_pending.
THEOREM LidarUnknownCorrect == Spec => []LidarUnknownHolds
<1>1. LidarInv => LidarUnknownHolds
  BY DEF LidarInv
<1> QED
  BY <1>1, InitTypeInv, NextTypeInv, InitMotionInv, NextMotionInv, InitReplyInv, NextReplyInv,
     InitLidarInv, NextLidarInv, PTL DEF Spec

----------------------------------------------------------------------------
(* The path on display.                                                    *)

PathInv == PathIsCurrent /\ (active.cancel_requested => active.path_blocked)

\* Nothing is on display at start.
LEMMA InitPathInv == Init => PathInv
BY DEF Init, PathInv, PathIsCurrent, NoNav

\* Withdrawing the path leaves none on display (_clear_navigation_path).
LEMMA ClearedIsNone == PathInv => ClearedPath = None
BY DEF PathInv, PathIsCurrent, ClearedPath

\* A step that withdraws the path, or leaves it with its goal.
LEMMA PathWithdrawn ==
  ASSUME path' = None, active'.cancel_requested => active'.path_blocked
  PROVE  PathInv'
BY DEF PathInv, PathIsCurrent

LEMMA PathKept ==
  ASSUME PathInv, UNCHANGED <<path, navigation_context>>,
         active'.id = active.id, active'.path_valid = active.path_valid,
         active'.path_blocked = active.path_blocked,
         active'.cancel_requested = active.cancel_requested,
         active'.context = active.context
  PROVE  PathInv'
BY DEF PathInv, PathIsCurrent

\* Every step that blocks, replaces or ends the goal withdraws its path.
LEMMA NextPathInv == TypeInv /\ PathInv /\ [Next]_vars => PathInv'
<1> SUFFICES ASSUME TypeInv, PathInv, [Next]_vars PROVE PathInv'
  OBVIOUS
<1> USE DEF TypeInv
<1>a. active \in Nav /\ ClearedPath = None
  BY ClearedIsNone DEF TypeOK
<1>1. ASSUME NEW c \in Command, Handle(c) PROVE PathInv'
  <2>1. CASE Navigate(c)
    <3>1. path' = None /\ active'.cancel_requested = active.cancel_requested
          /\ active'.path_blocked = active.path_blocked
      BY <1>a, <2>1 DEF Navigate, Nav
    <3> QED BY <3>1, PathWithdrawn DEF PathInv
  <2>2. CASE StopNavigation(c) /\ Stop(c)
    <3>1. path' = None /\ active'.path_blocked
      BY <1>a, <2>2 DEF StopNavigation, Nav
    <3> QED BY <3>1, PathWithdrawn
  <2>3. CASE MotorDisable(c)
    <3>1. path' = None /\ (active'.path_blocked \/ active' = active)
      BY <1>a, <2>3 DEF MotorDisable, Nav
    <3> QED BY <3>1, PathWithdrawn DEF PathInv
  <2>4. CASE Stop(c) /\ ~StopNavigation(c)
    BY <2>4, PathKept DEF Stop, StopNothing, StopUndock, genVars
  <2>5. CASE \/ \E k \in Kinds : Refuse(c, k) \/ CallDockService(c, k)
             \/ UndockRequest(c) \/ SetInitialPose(c) \/ MapStop(c) \/ SetLidarPower(c)
    BY <2>5, PathKept DEF Refuse, CallDockService, UndockRequest, SetInitialPose, MapStop, SetLidarPower,
      execVars, genVars, pathVars
  <2> QED BY <1>1, <2>1, <2>2, <2>3, <2>4, <2>5 DEF Handle
<1>2. ASSUME NEW c \in Command, CancelFrame(c) PROVE PathInv'
  <2>1. CASE CancelNavigation(c)
    <3>1. path' = None /\ active'.path_blocked
      BY <1>a, <2>1 DEF CancelNavigation, Nav
    <3> QED BY <3>1, PathWithdrawn
  <2>2. CASE CancelMap(c) \/ CancelPending(c) \/ CancelUndock(c)
    BY <2>2, PathKept DEF CancelMap, CancelPending, CancelUndock, genVars, pathVars
  <2> QED BY <1>2, <2>1, <2>2 DEF CancelFrame
<1>3. ASSUME NEW c \in Command, Callback(c) PROVE PathInv'
  <2>1. CASE GoalAccepted(c)
    <3>1. path' = None /\ (active'.cancel_requested => active'.path_blocked)
      BY <2>1 DEF GoalAccepted, NoNav
    <3> QED BY <3>1, PathWithdrawn
  <2>2. CASE OnResult(c)
    <3>1. CASE active.id = c
      BY <1>a, <2>2, <3>1, PathWithdrawn DEF OnResult, NoNav
    <3>2. CASE active.id # c
      BY <2>2, <3>2, PathKept DEF OnResult, genVars
    <3> QED BY <3>1, <3>2
  <2>3. CASE ~GoalAccepted(c) /\ ~OnResult(c)
    <3>1. UNCHANGED <<active, path, navigation_context>>
      BY <1>3, <2>3 DEF Callback, GoalResponseError, GoalDeclined, GoalSuperseded, UndockReplyError,
        UndockDeclined, UndockAccepted, OnUndockResult, MapResponse, MapResult, OnDockServiceResult,
        OnLidarResult, execVars, genVars, pathVars
    <3> QED BY <3>1, PathKept
  <2> QED BY <2>1, <2>2, <2>3
<1>4. ASSUME NEW c \in Command, Server(c) PROVE PathInv'
  BY <1>4, PathKept DEF Server, Accept, Decline, GoalEnds, serverOnly, execVars, genVars, pathVars
<1>5. ASSUME NEW x \in cancels, AnswerCancel(x) PROVE PathInv'
  BY <1>5, PathKept DEF AnswerCancel, serverOnly, execVars, genVars, pathVars
<1>6. ASSUME NEW x \in cancels, CancelReply(x) PROVE PathInv'
  <2>1. /\ UNCHANGED <<path, navigation_context>>
        /\ active'.id = active.id /\ active'.path_valid = active.path_valid
        /\ active'.path_blocked = active.path_blocked
        /\ active'.cancel_requested = active.cancel_requested
        /\ active'.context = active.context
    BY <1>a, <1>6 DEF CancelReply, OnCancelResponse, OnNavigationCancelResponse, Claim, genVars, pathVars, Nav
  <2> QED BY <2>1, PathKept
<1>7. ASSUME NEW context \in Contexts, BaseState(context) PROVE PathInv'
  <2>1. CASE context # navigation_context /\ active.id # None
    <3>1. path' = None /\ active'.path_blocked
      BY <1>a, <1>7, <2>1 DEF BaseState, Nav
    <3> QED BY <3>1, PathWithdrawn
  <2>2. CASE context = navigation_context
    BY <1>7, <2>2, PathKept DEF BaseState
  <2>3. CASE active.id = None
    <3>1. path = None
      BY <2>3 DEF PathInv, PathIsCurrent
    <3>2. active' = active /\ path' = path
      BY <1>7, <2>3 DEF BaseState
    <3> QED BY <3>1, <3>2, PathWithdrawn DEF PathInv
  <2> QED BY <2>1, <2>2, <2>3
<1>8. ASSUME NEW ready \in BOOLEAN, PollPath(ready) PROVE PathInv'
  <2>1. /\ active'.id = active.id /\ active'.path_blocked = active.path_blocked
        /\ active'.cancel_requested = active.cancel_requested
        /\ active'.context = active.context
        /\ UNCHANGED navigation_context
    BY <1>a, <1>8 DEF PollPath, Nav, genVars
  <2>2. \/ path' = None
        \/ path' = path /\ active' = active
        \/ path' = path /\ ~active.path_valid /\ ~active'.path_valid
    BY <1>a, <1>8 DEF PollPath, Nav
  <2>3. path' = path /\ ~active.path_valid => path' = None
    BY DEF PathInv, PathIsCurrent
  <2> QED BY <2>1, <2>2, <2>3, PathWithdrawn, PathKept DEF PathInv
<1>9. CASE OnNavigationPath
  <2>1. /\ active'.id = active.id /\ active'.path_blocked = active.path_blocked
        /\ active'.cancel_requested = active.cancel_requested
        /\ active'.context = active.context
        /\ UNCHANGED navigation_context
    BY <1>a, <1>9 DEF OnNavigationPath, Nav, genVars
  <2>2. \/ path' = None
        \/ path' = path /\ active' = active
        \/ /\ path' = active.id /\ active'.path_valid /\ ~active.path_blocked
           /\ active.context = navigation_context
    BY <1>a, <1>9 DEF OnNavigationPath, Nav
  <2> QED BY <2>1, <2>2, PathWithdrawn, PathKept DEF PathInv, PathIsCurrent
<1>10. CASE CheckUndockHealth \/ CheckMapConnection
  BY <1>10, PathKept DEF CheckUndockHealth, CheckMapConnection, genVars, pathVars
<1>11. CASE UNCHANGED vars
  BY <1>11, PathKept DEF vars, execVars, genVars, pathVars
<1>12. \A ready \in {PathService, FALSE} : ready \in BOOLEAN
  BY ConstantsAssumption
<1> QED BY <1>1, <1>2, <1>3, <1>4, <1>5, <1>6, <1>7, <1>8, <1>9, <1>10, <1>11, <1>12
        DEF Next, CancelStep, Timers

\* A path shown as valid is the active goal's, in its own context, and of a goal
\* nobody has asked to stop: every handler that changes one of these withdraws it.
THEOREM PathCorrect == Spec => []PathIsCurrent
<1>1. PathInv => PathIsCurrent
  BY DEF PathInv
<1> QED BY <1>1, InitTypeInv, NextTypeInv, InitPathInv, NextPathInv, PTL DEF Spec

----------------------------------------------------------------------------
(* The map transaction.                                                    *)

MapInv ==
  /\ MapCancelDelivered
  /\ map_active.handle => map_active.id # None
  /\ map_active.id # None => kind[map_active.id] = "set_initial_pose"
  /\ \A c \in Command : kind[c] = "set_initial_pose" /\ wait[c] \in {"response", "result"}
       => map_active.id = c

\* There is no transaction at start.
LEMMA InitMapInv == Init => MapInv
BY ConstantsAssumption DEF Init, MapInv, MapCancelDelivered, NoMap

\* Cancel requests are only ever added to a goal's history.
LEMMA AskGrows ==
  ASSUME TypeOK, NEW requests, Ask(requests)
  PROVE  \A g \in Command : asked[g] \subseteq asked'[g]
BY DEF Ask

\* No step takes anything out of a goal's history.
LEMMA NextAsks ==
  ASSUME TypeOK, [Next]_vars
  PROVE  \A g \in Command : asked[g] \subseteq asked'[g]
<1>1. ASSUME NEW c \in Command, UndockAccepted(c), UNCHANGED cancels
      PROVE  \A g \in Command : asked[g] \subseteq asked'[g]
  BY <1>1, AskGrows, SMTT(30) DEF UndockAccepted, TypeOK
<1>2. ASSUME NEW c \in Command, Handle(c) \/ CancelFrame(c)
      PROVE  UNCHANGED asked \/ \E requests : Ask(requests)
  BY <1>2 DEF Handle, Refuse, CallDockService, Navigate, UndockRequest, SetInitialPose, Stop, StopNothing,
    StopUndock, StopNavigation, MapStop, MotorDisable, SetLidarPower, CancelFrame, CancelMap, CancelPending,
    CancelNavigation, CancelUndock, serverVars, cancelVars
<1>3. ASSUME NEW c \in Command, Callback(c)
      PROVE  UNCHANGED asked \/ (\E requests : Ask(requests)) \/ (UndockAccepted(c) /\ UNCHANGED cancels)
  BY <1>3 DEF Callback, GoalResponseError, GoalDeclined, GoalSuperseded, GoalAccepted, OnResult,
    UndockReplyError, FailUndock, UndockDeclined, UndockAccepted, OnUndockResult, MapResponse, MapResult,
    OnDockServiceResult, OnLidarResult, cancelVars
<1>4. ASSUME NEW c \in Command, Server(c) PROVE UNCHANGED asked
  BY <1>4 DEF Server, Accept, Decline, GoalEnds, serverOnly
<1>5. ASSUME NEW x \in cancels, CancelStep(x) PROVE UNCHANGED asked
  BY <1>5 DEF CancelStep, AnswerCancel, CancelReply, serverOnly
<1>6. CASE Timers
  BY <1>6, AskGrows DEF Timers, BaseState, PollPath, OnNavigationPath, CheckUndockHealth, FailUndock,
    CheckMapConnection, serverVars, cancelVars
<1>7. CASE UNCHANGED vars
  BY <1>7 DEF vars, serverVars, cancelVars
<1> QED BY <1>1, <1>2, <1>3, <1>4, <1>5, <1>6, <1>7, AskGrows DEF Next

\* A request that is sent is in its goal's history.
LEMMA Asked ==
  ASSUME NEW requests, Ask(requests), NEW g \in Command, NEW h, Request(g, h) \in requests
  PROVE  How(h) \in asked'[g]
<1>1. Request(g, h).goal = g /\ Request(g, h).heard = h
  BY DEF Request
<1> QED BY <1>1 DEF Ask

\* Steps that are not about a map transaction.
LEMMA MapKept ==
  ASSUME TypeOK, MapInv, UNCHANGED map_active,
         \A g \in Command : asked[g] \subseteq asked'[g],
         \A g \in Command : kind[g] # "unsent" => kind'[g] = kind[g],
         \A g \in Command : kind'[g] = "set_initial_pose" /\ wait'[g] \in {"response", "result"}
           => kind[g] = "set_initial_pose" /\ wait[g] \in {"response", "result"}
  PROVE  MapInv'
<1>1. map_active.id # None => map_active.id \in Command
  BY DEF TypeOK, Map, Id
<1>2. MapCancelDelivered'
  BY <1>1 DEF MapInv, MapCancelDelivered
<1>3. map_active.id # None => kind'[map_active.id] = "set_initial_pose"
  BY <1>1 DEF MapInv
<1> QED BY <1>2, <1>3 DEF MapInv

\* Steps that cancel the transaction: a goal that has a handle is asked at once.
LEMMA MapCancelled ==
  ASSUME TypeOK, MapInv, NEW requests, MapCancelRequests \subseteq requests, Ask(requests),
         map_active' = CancelledMap,
         \A g \in Command : kind[g] # "unsent" => kind'[g] = kind[g],
         \A g \in Command : kind'[g] = "set_initial_pose" /\ wait'[g] \in {"response", "result"}
           => kind[g] = "set_initial_pose" /\ wait[g] \in {"response", "result"}
  PROVE  MapInv'
<1>1. map_active.id # None => map_active.id \in Command
  BY DEF TypeOK, Map, Id
<1>2. map_active'.id = map_active.id /\ map_active'.handle = map_active.handle
  BY DEF CancelledMap, TypeOK, Map
<1>3. \A g \in Command : asked[g] \subseteq asked'[g]
  BY AskGrows
<1>4. MapCancelDelivered'
  <2> SUFFICES ASSUME map_active.handle PROVE asked'[map_active.id] # {}
    BY <1>2 DEF MapCancelDelivered
  <2>1. map_active.id \in Command
    BY <1>1 DEF MapInv
  <2>2. CASE map_active.cancel
    BY <1>3, <2>1, <2>2 DEF MapInv, MapCancelDelivered
  <2>3. CASE ~map_active.cancel
    <3>1. Request(map_active.id, "unheard") \in requests
      BY <1>1, <2>1, <2>3, ConstantsAssumption DEF MapCancelRequests
    <3>2. How("unheard") \in asked'[map_active.id]
      BY <2>1, <3>1, Asked
    <3> QED BY <3>2
  <2> QED BY <2>2, <2>3
<1>5. map_active.id # None => kind'[map_active.id] = "set_initial_pose"
  BY <1>1 DEF MapInv
<1> QED BY <1>2, <1>4, <1>5 DEF MapInv

\* handle(): a transaction begins only when there is none.
LEMMA HandleMapInv ==
  ASSUME TypeInv, MapInv, NEW c \in Command, Handle(c)
  PROVE  MapInv'
<1> USE DEF TypeInv, Receive
<1>0. /\ kind[c] = "unsent" /\ wait[c] = "none"
      /\ \A d \in Command \ {c} : kind'[d] = kind[d]
  BY DEF Handle, Refuse, CallDockService, Navigate, UndockRequest, SetInitialPose, Stop, MapStop,
    MotorDisable, SetLidarPower, OwnerInv, Fresh, TypeOK
<1>1. \A d \in Command : kind[d] # "unsent" => kind'[d] = kind[d]
  BY <1>0
<1>2. CASE SetInitialPose(c)
  <2>1. map_active.id = None /\ map_active'.id = c /\ ~map_active'.handle
    BY <1>2 DEF SetInitialPose, Admitted, NoMap
  <2>2. kind'[c] = "set_initial_pose" /\ \A d \in Command \ {c} : wait'[d] = wait[d]
    BY <1>2 DEF SetInitialPose, TypeOK
  <2>3. \A d \in Command : d # None
    BY ConstantsAssumption
  <2> QED BY <1>0, <2>1, <2>2, <2>3 DEF MapInv, MapCancelDelivered
<1>3. ~SetInitialPose(c) =>
        \A d \in Command : kind'[d] = "set_initial_pose" /\ wait'[d] \in {"response", "result"}
           => kind[d] = "set_initial_pose" /\ wait[d] \in {"response", "result"}
  <2>1. CASE Navigate(c) \/ UndockRequest(c)
    BY <1>0, <2>1 DEF Navigate, UndockRequest, TypeOK
  <2>2. CASE \/ \E k \in Kinds : Refuse(c, k) \/ CallDockService(c, k)
             \/ Stop(c) \/ MapStop(c) \/ MotorDisable(c) \/ SetLidarPower(c)
    BY <1>0, <2>2 DEF Refuse, CallDockService, Stop, MapStop, MotorDisable, SetLidarPower, TypeOK, serverVars
  <2> QED BY <2>1, <2>2 DEF Handle
<1>4. CASE MapStop(c)
  <2>1. ~SetInitialPose(c)
    BY <1>4 DEF MapStop, SetInitialPose, Admitted
  <2> QED BY <1>1, <1>3, <1>4, <2>1, MapCancelled DEF MapStop
<1>5. CASE MotorDisable(c)
  <2>1. ~SetInitialPose(c)
    BY <1>5 DEF MotorDisable, SetInitialPose, TypeOK
  <2> QED BY <1>1, <1>3, <1>5, <2>1, MapCancelled DEF MotorDisable
<1>6. CASE ~SetInitialPose(c) /\ ~MapStop(c) /\ ~MotorDisable(c)
  <2>1. UNCHANGED map_active
    BY <1>6 DEF Handle, Refuse, CallDockService, Navigate, UndockRequest, Stop, SetLidarPower, execVars
  <2> QED BY <1>1, <1>3, <1>6, <2>1, NextAsks, MapKept DEF Next
<1> QED BY <1>2, <1>4, <1>5, <1>6

\* The transaction's callbacks find it in its slot; the others leave it there.
LEMMA CallbackMapInv ==
  ASSUME TypeInv, MapInv, NEW c \in Command, Callback(c)
  PROVE  MapInv'
<1> USE DEF TypeInv
<1>0. /\ kind' = kind
      /\ \A d \in Command \ {c} : wait'[d] = wait[d]
      /\ wait'[c] \in {"none", "result"}
  BY DEF Callback, GoalResponseError, GoalDeclined, GoalSuperseded, GoalAccepted,
    OnResult, UndockReplyError, UndockDeclined, UndockAccepted, OnUndockResult,
    MapResponse, MapResult, OnDockServiceResult, OnLidarResult, TypeOK
<1>1. CASE MapResponse(c) \/ MapResult(c)
  <2>1. map_active.id = c /\ kind[c] = "set_initial_pose"
    BY <1>1 DEF MapResponse, MapResult, MapInv
  <2>2. \A d \in Command \ {c} : ~(kind[d] = "set_initial_pose" /\ wait[d] \in {"response", "result"})
    BY <2>1 DEF MapInv
  <2>3. CASE map_active' = NoMap /\ wait'[c] = "none"
    BY <1>0, <2>2, <2>3 DEF MapInv, MapCancelDelivered, NoMap
  <2>4. CASE /\ map_active' = [map_active EXCEPT !.handle = TRUE]
             /\ Ask(IF map_active.cancel THEN {Request(c, "unheard")} ELSE {})
    <3>1. map_active'.id = c /\ map_active'.cancel = map_active.cancel
      BY <2>1, <2>4 DEF TypeOK, Map
    <3>2. map_active.cancel => asked'[c] # {}
      <4> SUFFICES ASSUME map_active.cancel PROVE asked'[c] # {}
        OBVIOUS
      <4>1. Ask({Request(c, "unheard")})
        BY <2>4
      <4>2. How("unheard") \in asked'[c]
        BY <4>1, Asked
      <4> QED BY <4>2
    <3>3. c # None
      BY ConstantsAssumption
    <3> QED BY <1>0, <2>1, <2>2, <3>1, <3>2, <3>3 DEF MapInv, MapCancelDelivered
  <2> QED BY <1>1, <2>3, <2>4 DEF MapResponse, MapResult, TypeOK
<1>2. CASE ~MapResponse(c) /\ ~MapResult(c)
  <2>1. UNCHANGED map_active
    BY <1>2 DEF Callback, GoalResponseError, GoalDeclined, GoalSuperseded, GoalAccepted,
      OnResult, UndockReplyError, UndockDeclined, UndockAccepted, OnUndockResult,
      OnDockServiceResult, OnLidarResult, execVars
  <2>2. \A g \in Command : asked[g] \subseteq asked'[g]
    BY NextAsks DEF Next
  <2>3. wait'[c] = "result" /\ kind[c] = "set_initial_pose" => wait[c] \in {"response", "result"}
    BY <1>2 DEF Callback, GoalResponseError, GoalDeclined, GoalSuperseded, GoalAccepted,
      OnResult, UndockReplyError, UndockDeclined, UndockAccepted, OnUndockResult,
      OnDockServiceResult, OnLidarResult, TypeOK
  <2> QED BY <1>0, <2>1, <2>2, <2>3, MapKept
<1> QED BY <1>1, <1>2

\* Cancel frames, cancel replies, timers and the action servers.
LEMMA NextMapInv == TypeInv /\ MapInv /\ [Next]_vars => MapInv'
<1> SUFFICES ASSUME TypeInv, MapInv, [Next]_vars PROVE MapInv'
  OBVIOUS
<1> USE DEF TypeInv
<1>1. ASSUME NEW c \in Command, CancelMap(c) PROVE MapInv'
  BY <1>1, MapCancelled DEF CancelMap
<1>2. ASSUME NEW c \in Command, CancelPending(c) \/ CancelNavigation(c) \/ CancelUndock(c) PROVE MapInv'
  BY <1>2, NextAsks, MapKept DEF CancelPending, CancelNavigation, CancelUndock, serverVars
<1>3. ASSUME NEW c \in Command, Server(c) PROVE MapInv'
  BY <1>3, MapKept DEF Server, Accept, Decline, GoalEnds, serverOnly, execVars
<1>4. ASSUME NEW x \in cancels, CancelStep(x) PROVE MapInv'
  BY <1>4, MapKept DEF CancelStep, AnswerCancel, CancelReply, serverOnly, execVars
<1>5. CASE CheckMapConnection
  BY <1>5, MapCancelled DEF CheckMapConnection
<1>6. CASE Timers /\ ~CheckMapConnection
  <2>1. UNCHANGED <<kind, wait, map_active>>
    BY <1>6 DEF Timers, BaseState, PollPath, OnNavigationPath, CheckUndockHealth, serverVars
  <2> QED BY <2>1, NextAsks, MapKept
<1>7. CASE UNCHANGED vars
  BY <1>7, MapKept DEF vars, execVars, serverVars, cancelVars
<1> QED BY <1>1, <1>2, <1>3, <1>4, <1>5, <1>6, <1>7, HandleMapInv, CallbackMapInv DEF Next, CancelFrame

\* A map transaction that was told to cancel before its goal had a handle is
\* canceled as soon as it has one.
THEOREM MapCancelCorrect == Spec => []MapCancelDelivered
<1>1. MapInv => MapCancelDelivered
  BY DEF MapInv
<1> QED BY <1>1, InitTypeInv, NextTypeInv, InitMapInv, NextMapInv, PTL DEF Spec

----------------------------------------------------------------------------
(* The goals.  What the executor has heard of a goal says what the goal    *)
(* can be, and Nav2 runs one destination at a time.                        *)

Begun == Moving \cup {"over"}

\* The destination whose acceptance will not be found superseded by another.
Newest(c) ==
  /\ kind[c] = "navigate_to_pose" /\ wait[c] = "response"
  /\ captured[c].nav = navigation_generation

Resulting(g, k) == kind[g] = k /\ wait[g] = "result"

GoalInv ==
  /\ \A g \in Command : \A k \in MotionKinds : Resulting(g, k) => goal[g] \in Begun
  /\ undock_active.id # None => kind[undock_active.id] = "undock"
  /\ undock_active.handle => goal[undock_active.id] \in Begun
  /\ \A g \in Command : Resulting(g, "undock") => undock_active.handle
  /\ \A g \in Command : Resulting(g, "navigate_to_pose") => g = active.id \/ goal[g] = "over"
  /\ \A c, g \in Command :
       Newest(c) /\ goal[c] \in Begun /\ Resulting(g, "navigate_to_pose") => goal[g] = "over"

\* There is no goal at start.
LEMMA InitGoalInv == Init => GoalInv
BY ConstantsAssumption DEF Init, GoalInv, Resulting, Newest, NoUndock

\* A goal that has begun does not go back, and one that is over stays over.
GoesOn(g) == (goal[g] \in Begun => goal'[g] \in Begun) /\ (goal[g] = "over" => goal'[g] = "over")

\* Steps that hear nothing of a goal and make nothing the newest destination.
LEMMA GoalKept ==
  ASSUME TypeOK, GoalInv,
         \A g \in Command : GoesOn(g),
         undock_active'.id = undock_active.id, undock_active'.handle = undock_active.handle,
         active'.id = active.id,
         undock_active.handle => undock_active.id # None,
         \A g \in Command : kind[g] # "unsent" => kind'[g] = kind[g],
         \A g \in Command : \A k \in MotionKinds : Resulting(g, k)' => Resulting(g, k),
         \A g \in Command : Newest(g)' /\ goal'[g] \in Begun => Newest(g) /\ goal[g] \in Begun
  PROVE  GoalInv'
<1>1. undock_active.id # None => undock_active.id \in Command
  BY DEF TypeOK, Undock, Id
<1>2. {"undock", "navigate_to_pose"} \subseteq MotionKinds
  BY DEF MotionKinds
<1>3. \A g \in Command : \A k \in MotionKinds : Resulting(g, k)' => goal'[g] \in Begun
  BY DEF GoalInv, GoesOn
<1>4. undock_active'.id # None => kind'[undock_active'.id] = "undock"
  BY <1>1 DEF GoalInv
<1>5. undock_active'.handle => goal'[undock_active'.id] \in Begun
  BY <1>1 DEF GoalInv, GoesOn
<1>6. \A g \in Command : Resulting(g, "undock")' => undock_active'.handle
  BY <1>2 DEF GoalInv
<1>7. \A g \in Command : Resulting(g, "navigate_to_pose")' => g = active'.id \/ goal'[g] = "over"
  BY <1>2 DEF GoalInv, GoesOn
<1>8. \A c, g \in Command :
       Newest(c)' /\ goal'[c] \in Begun /\ Resulting(g, "navigate_to_pose")' => goal'[g] = "over"
  BY <1>2 DEF GoalInv, GoesOn
<1> QED BY <1>3, <1>4, <1>5, <1>6, <1>7, <1>8 DEF GoalInv

\* A new goal is sent: it has not begun, and no destination before it is the newest.
LEMMA HandleGoalInv ==
  ASSUME TypeInv, MotionInv, GoalInv, NEW c \in Command, Handle(c)
  PROVE  GoalInv'
<1> USE DEF TypeInv, Receive
<1>0. /\ kind[c] = "unsent" /\ wait[c] = "none"
      /\ \A d \in Command \ {c} : kind'[d] = kind[d]
  BY DEF Handle, Refuse, CallDockService, Navigate, UndockRequest, SetInitialPose, Stop, MapStop,
    MotorDisable, SetLidarPower, OwnerInv, Fresh, TypeOK
<1>k. \A d \in Command : kind[d] # "unsent" => kind'[d] = kind[d]
  BY <1>0
<1>u. undock_active.handle => undock_active.id # None
  BY DEF OwnerInv, UndockSlot
<1>w. /\ \A d \in Command \ {c} : wait'[d] = wait[d]
      /\ wait'[c] # "result"
      /\ wait'[c] = "response" => Navigate(c) \/ UndockRequest(c) \/ SetInitialPose(c)
  BY <1>0 DEF Handle, Refuse, CallDockService, Navigate, UndockRequest, SetInitialPose, Stop, MapStop,
    MotorDisable, SetLidarPower, serverVars, TypeOK
<1>r. \A g \in Command : \A k \in MotionKinds : Resulting(g, k)' => Resulting(g, k)
  BY <1>0, <1>w DEF Resulting
<1>1. CASE Navigate(c) \/ UndockRequest(c) \/ SetInitialPose(c)
  <2>1. /\ goal'[c] = "sent" /\ \A d \in Command \ {c} : goal'[d] = goal[d]
    BY <1>1 DEF Navigate, UndockRequest, SetInitialPose, TypeOK
  <2>2. goal'[c] \notin Begun
    BY <2>1 DEF Begun, Moving
  <2>4. \A g \in Command : g # c /\ Newest(g)' => Newest(g)
    <3>1. CASE Navigate(c)
      <4>1. navigation_generation' = navigation_generation + 1 /\ \A d \in Command \ {c} : captured'[d] = captured[d]
        BY <3>1 DEF Navigate, TypeOK
      <4>2. \A d \in Command : captured[d].nav <= navigation_generation
        BY DEF MotionInv
      <4>3. navigation_generation \in Nat /\ \A d \in Command : captured[d].nav \in Nat
        BY DEF TypeOK
      <4> QED BY <4>1, <4>2, <4>3 DEF Newest
    <3>2. CASE UndockRequest(c) \/ SetInitialPose(c)
      BY <1>0, <1>w, <3>2 DEF UndockRequest, SetInitialPose, Newest, TypeOK, genVars
    <3> QED BY <1>1, <3>1, <3>2
  <2>6. CASE UndockRequest(c)
    <3>1. /\ undock_active.id = None /\ undock_active'.id = c /\ ~undock_active'.handle
          /\ active' = active /\ kind'[c] = "undock"
      BY <2>6 DEF UndockRequest, UndockFree, NoUndock, TypeOK
    <3>2. \A g \in Command : kind[g] = "undock" /\ wait[g] = "result" => g = undock_active.id
      BY DEF OwnerInv, UndockOwner
    <3>3. \A g \in Command : ~Resulting(g, "undock")
      BY <3>1, <3>2, ConstantsAssumption DEF Resulting
    <3>4. \A g \in Command : \A k \in MotionKinds : Resulting(g, k)' => g # c
      BY <1>w DEF Resulting
    <3>5. {"undock", "navigate_to_pose"} \subseteq MotionKinds
      BY DEF MotionKinds
    <3>6. \A g \in Command : \A k \in MotionKinds : Resulting(g, k)' => goal'[g] \in Begun
      BY <1>r, <2>1, <3>4 DEF GoalInv
    <3>7. \A g \in Command : Resulting(g, "navigate_to_pose")' => g = active'.id \/ goal'[g] = "over"
      BY <1>r, <2>1, <3>1, <3>4, <3>5 DEF GoalInv
    <3>8. \A d, g \in Command :
            Newest(d)' /\ goal'[d] \in Begun /\ Resulting(g, "navigate_to_pose")' => goal'[g] = "over"
      <4> SUFFICES ASSUME NEW d \in Command, NEW g \in Command,
                          Newest(d)', goal'[d] \in Begun, Resulting(g, "navigate_to_pose")'
                   PROVE  goal'[g] = "over"
        OBVIOUS
      <4>1. d # c /\ g # c
        BY <2>2, <3>4, <3>5
      <4>2. Newest(d) /\ goal[d] \in Begun /\ Resulting(g, "navigate_to_pose")
        BY <1>r, <2>1, <2>4, <3>5, <4>1
      <4> QED BY <2>1, <4>1, <4>2 DEF GoalInv
    <3> QED BY <1>r, <3>1, <3>3, <3>5, <3>6, <3>7, <3>8 DEF GoalInv
  <2>7. CASE Navigate(c) \/ SetInitialPose(c)
    <3>1. undock_active' = undock_active /\ active'.id = active.id
      BY <2>7 DEF Navigate, SetInitialPose, TypeOK, Nav
    <3>4. undock_active.id # c
      BY <1>0, ConstantsAssumption DEF GoalInv
    <3>5. \A g \in Command : \A k \in MotionKinds : Resulting(g, k)' => g # c
      BY <1>w DEF Resulting
    <3>6. {"undock", "navigate_to_pose"} \subseteq MotionKinds
      BY DEF MotionKinds
    <3>7. \A g \in Command : \A k \in MotionKinds : Resulting(g, k)' => goal'[g] \in Begun
      BY <1>r, <2>1, <3>5 DEF GoalInv
    <3>8. undock_active.id # None => undock_active.id \in Command \ {c}
      BY <3>4 DEF TypeOK, Undock, Id
    <3>9. /\ undock_active'.id # None => kind'[undock_active'.id] = "undock"
          /\ undock_active'.handle => goal'[undock_active'.id] \in Begun
      BY <1>0, <1>u, <2>1, <3>1, <3>8 DEF GoalInv
    <3>10. /\ \A g \in Command : Resulting(g, "undock")' => undock_active'.handle
           /\ \A g \in Command : Resulting(g, "navigate_to_pose")' => g = active'.id \/ goal'[g] = "over"
      BY <1>r, <2>1, <3>1, <3>5, <3>6 DEF GoalInv
    <3>11. \A d, g \in Command :
            Newest(d)' /\ goal'[d] \in Begun /\ Resulting(g, "navigate_to_pose")' => goal'[g] = "over"
      <4> SUFFICES ASSUME NEW d \in Command, NEW g \in Command,
                          Newest(d)', goal'[d] \in Begun, Resulting(g, "navigate_to_pose")'
                   PROVE  goal'[g] = "over"
        OBVIOUS
      <4>1. d # c /\ g # c
        BY <2>2, <3>5, <3>6
      <4>2. Newest(d) /\ goal[d] \in Begun /\ Resulting(g, "navigate_to_pose")
        BY <1>r, <2>1, <2>4, <3>6, <4>1
      <4> QED BY <2>1, <4>1, <4>2 DEF GoalInv
    <3> QED BY <3>7, <3>9, <3>10, <3>11 DEF GoalInv
  <2> QED BY <1>1, <2>6, <2>7
<1>2. CASE ~(Navigate(c) \/ UndockRequest(c) \/ SetInitialPose(c))
  <2>1. UNCHANGED goal
    BY <1>2 DEF Handle, Refuse, CallDockService, Stop, MapStop, MotorDisable, SetLidarPower, serverVars
  <2>2. UNCHANGED <<captured, navigation_generation>>
    BY <1>2 DEF Handle, Refuse, CallDockService, Stop, MapStop, MotorDisable, SetLidarPower, execVars, genVars
  <2>3. \A g \in Command : Newest(g)' => Newest(g)
    BY <1>0, <1>w, <1>2, <2>2 DEF Newest
  <2>4. /\ undock_active'.id = undock_active.id /\ undock_active'.handle = undock_active.handle
        /\ active'.id = active.id
    <3>1. CASE Stop(c)
      BY <3>1, ZenonT(30) DEF Stop, StopNothing, StopUndock, StopNavigation, TypeOK, Nav, Undock
    <3>2. CASE MotorDisable(c)
      BY <3>2 DEF MotorDisable, TypeOK, Nav, Undock
    <3>3. CASE ~Stop(c) /\ ~MotorDisable(c)
      BY <1>2, <3>3 DEF Handle, Refuse, CallDockService, MapStop, SetLidarPower, execVars
    <3> QED BY <3>1, <3>2, <3>3
  <2> QED BY <1>k, <1>u, <1>r, <2>1, <2>3, <2>4, GoalKept DEF GoesOn
<1> QED BY <1>1, <1>2

\* What a callback hears of a goal is what became of it; a destination that is
\* accepted has preempted those before it.
LEMMA CallbackGoalInv ==
  ASSUME TypeInv, MotionInv, GoalInv, NEW c \in Command, Callback(c)
  PROVE  GoalInv'
<1> USE DEF TypeInv
<1>0. /\ kind' = kind
      /\ \A d \in Command \ {c} : wait'[d] = wait[d]
      /\ wait'[c] \in {"none", "result"}
      /\ UNCHANGED <<goal, captured, navigation_generation>>
  BY DEF Callback, GoalResponseError, GoalDeclined, GoalSuperseded, GoalAccepted,
    OnResult, UndockReplyError, UndockDeclined, UndockAccepted, OnUndockResult,
    MapResponse, MapResult, OnDockServiceResult, OnLidarResult, TypeOK, genVars, execVars
<1>u. undock_active.handle => undock_active.id # None
  BY DEF OwnerInv, UndockSlot
<1>m. {"undock", "navigate_to_pose"} \subseteq MotionKinds
  BY DEF MotionKinds
<1>n. \A g \in Command : Newest(g)' => Newest(g) /\ g # c
  BY <1>0 DEF Newest
<1>g. \A g \in Command : GoesOn(g)
  BY <1>0 DEF GoesOn
<1>1. CASE GoalAccepted(c)
  <2>1. Newest(c) /\ goal[c] \in Begun /\ active'.id = c /\ undock_active' = undock_active
    BY <1>1 DEF GoalAccepted, Superseded, Newest, Begun
  <2>2. \A g \in Command : Resulting(g, "navigate_to_pose")' /\ g # c => goal[g] = "over"
    BY <1>0, <2>1 DEF GoalInv, Resulting
  <2>3. \A g \in Command : ~Newest(g)'
    BY <1>n, <2>1 DEF Newest, MotionInv
  <2>4. \A g \in Command : Resulting(g, "undock")' => Resulting(g, "undock")
    BY <1>0, <2>1 DEF Resulting, Newest
  <2>5. \A g \in Command : \A k \in MotionKinds : Resulting(g, k)' => g = c \/ Resulting(g, k)
    BY <1>0 DEF Resulting
  <2>6. \A g \in Command : \A k \in MotionKinds : Resulting(g, k)' => goal'[g] \in Begun
    BY <1>0, <2>1, <2>5 DEF GoalInv
  <2> QED BY <1>0, <2>1, <2>2, <2>3, <2>4, <2>6 DEF GoalInv
<1>2. CASE OnResult(c)
  <2>1. active'.id = active.id \/ active.id = c
    BY <1>2 DEF OnResult
  <2>2. undock_active' = undock_active /\ wait'[c] = "none"
    BY <1>2 DEF OnResult, TypeOK
  <2>3. \A g \in Command : \A k \in MotionKinds : Resulting(g, k)' => g # c /\ Resulting(g, k)
    BY <1>0, <2>2 DEF Resulting
  <2> QED BY <1>0, <1>m, <1>n, <2>1, <2>2, <2>3 DEF GoalInv
<1>3. CASE UndockDeclined(c) \/ OnUndockResult(c)
  <2>1. undock_active'.id = None /\ ~undock_active'.handle /\ active' = active /\ wait'[c] = "none"
    BY <1>3 DEF UndockDeclined, OnUndockResult, NoUndock, TypeOK
  <2>2. \A g \in Command : \A k \in MotionKinds : Resulting(g, k)' => g # c /\ Resulting(g, k)
    BY <1>0, <2>1 DEF Resulting
  <2>3. \A g \in Command : Resulting(g, "undock") => g = undock_active.id
    BY DEF OwnerInv, UndockOwner, Resulting
  <2>4. undock_active.id = c
    BY <1>3 DEF UndockDeclined, OnUndockResult, OwnerInv, UndockOwner
  <2>5. \A g \in Command : ~Resulting(g, "undock")'
    BY <1>m, <2>2, <2>3, <2>4
  <2> QED BY <1>0, <1>m, <1>n, <2>1, <2>2, <2>5 DEF GoalInv
<1>4. CASE UndockAccepted(c)
  <2>1. undock_active.id = c /\ kind[c] = "undock" /\ goal[c] \in Begun
    BY <1>4 DEF UndockAccepted, OwnerInv, UndockOwner, Begun
  <2>2. undock_active'.id = c /\ undock_active'.handle /\ active' = active
    BY <1>4, <2>1 DEF UndockAccepted, TypeOK, Undock
  <2>3. \A g \in Command : \A k \in MotionKinds : Resulting(g, k)' => g = c \/ Resulting(g, k)
    BY <1>0 DEF Resulting
  <2>4. \A g \in Command : Resulting(g, "navigate_to_pose")' => Resulting(g, "navigate_to_pose")
    BY <1>0, <2>1 DEF Resulting
  <2>5. \A g \in Command : \A k \in MotionKinds : Resulting(g, k)' => goal'[g] \in Begun
    BY <1>0, <2>1, <2>3 DEF GoalInv
  <2> QED BY <1>0, <1>m, <1>n, <2>1, <2>2, <2>4, <2>5 DEF GoalInv
<1>5. CASE UndockReplyError(c)
  <2>1. /\ undock_active'.id = undock_active.id /\ undock_active'.handle = undock_active.handle
        /\ active' = active /\ wait'[c] = "none"
    BY <1>5 DEF UndockReplyError, FailUndock, TypeOK, Undock
  <2>2. \A g \in Command : \A k \in MotionKinds : Resulting(g, k)' => Resulting(g, k)
    BY <1>0, <2>1 DEF Resulting
  <2> QED BY <1>0, <1>g, <1>n, <1>u, <2>1, <2>2, GoalKept
<1>6. CASE \/ GoalResponseError(c) \/ GoalDeclined(c) \/ GoalSuperseded(c)
           \/ MapResponse(c) \/ MapResult(c) \/ OnDockServiceResult(c) \/ OnLidarResult(c)
  <2>1. UNCHANGED <<active, undock_active>>
    BY <1>6 DEF GoalResponseError, GoalDeclined, GoalSuperseded, MapResponse, MapResult,
      OnDockServiceResult, OnLidarResult, execVars
  <2>2. wait'[c] = "none" \/ kind[c] = "set_initial_pose"
    BY <1>6 DEF GoalResponseError, GoalDeclined, GoalSuperseded, MapResponse, MapResult,
      OnDockServiceResult, OnLidarResult, TypeOK
  <2>3. \A g \in Command : \A k \in MotionKinds : Resulting(g, k)' => Resulting(g, k)
    BY <1>0, <2>2 DEF Resulting, MotionKinds
  <2> QED BY <1>0, <1>g, <1>n, <1>u, <2>1, <2>3, GoalKept
<1> QED BY <1>1, <1>2, <1>3, <1>4, <1>5, <1>6 DEF Callback

\* Nav2 ends its running destination when it takes another.
LEMMA ServerGoalInv ==
  ASSUME TypeInv, MotionInv, GoalInv, NEW c \in Command, Server(c)
  PROVE  GoalInv'
<1> USE DEF TypeInv
<1>0. /\ UNCHANGED <<kind, wait, active, undock_active, captured, navigation_generation>>
  BY DEF Server, Accept, Decline, GoalEnds, serverOnly, execVars, genVars
<1>u. undock_active.handle => undock_active.id # None
  BY DEF OwnerInv, UndockSlot
<1>m. {"undock", "navigate_to_pose"} \subseteq MotionKinds
  BY DEF MotionKinds
<1>r. \A g \in Command : \A k \in MotionKinds : Resulting(g, k)' <=> Resulting(g, k)
  BY <1>0 DEF Resulting
<1>n. \A g \in Command : Newest(g)' <=> Newest(g)
  BY <1>0 DEF Newest
<1>1. CASE Decline(c) \/ GoalEnds(c)
  <2>1. \A g \in Command : GoesOn(g) /\ (goal'[g] \in Begun => goal[g] \in Begun)
    BY <1>1 DEF Decline, GoalEnds, GoesOn, Begun, Moving, TypeOK
  <2> QED BY <1>0, <1>u, <1>r, <1>n, <2>1, GoalKept
<1>2. CASE Accept(c)
  <2>1. /\ goal[c] = "sent" /\ goal'[c] = "executing"
        /\ \A g \in Command \ {c} :
             goal'[g] = IF kind[c] = "navigate_to_pose" /\ kind[g] = "navigate_to_pose" /\ goal[g] \in Moving
                        THEN "over" ELSE goal[g]
    BY <1>2 DEF Accept
  <2>2. \A g \in Command : GoesOn(g)
    BY <2>1 DEF GoesOn, Begun, Moving
  <2>3. \A g \in Command \ {c} : goal'[g] \in Begun => goal[g] \in Begun
    BY <2>1 DEF Begun, Moving
  <2>4. \A g \in Command : Newest(c) /\ Resulting(g, "navigate_to_pose") => goal'[g] = "over"
    <3> SUFFICES ASSUME NEW g \in Command, Newest(c), Resulting(g, "navigate_to_pose") PROVE goal'[g] = "over"
      OBVIOUS
    <3>1. g # c /\ kind[c] = "navigate_to_pose" /\ kind[g] = "navigate_to_pose"
      BY DEF Newest, Resulting
    <3>2. goal[g] \in Moving \/ goal[g] = "over"
      BY <1>m DEF GoalInv, Begun
    <3> QED BY <2>1, <3>1, <3>2
  <2>5. \A d, g \in Command :
          Newest(d)' /\ goal'[d] \in Begun /\ Resulting(g, "navigate_to_pose")' => goal'[g] = "over"
    BY <1>r, <1>n, <1>m, <2>2, <2>3, <2>4 DEF GoalInv, GoesOn
  <2>6. undock_active.id # None => undock_active.id \in Command
    BY DEF TypeOK, Undock, Id
  <2>7. /\ \A g \in Command : \A k \in MotionKinds : Resulting(g, k)' => goal'[g] \in Begun
        /\ undock_active'.handle => goal'[undock_active'.id] \in Begun
    BY <1>0, <1>u, <1>r, <2>2, <2>6 DEF GoalInv, GoesOn
  <2>8. /\ undock_active'.id # None => kind'[undock_active'.id] = "undock"
        /\ \A g \in Command : Resulting(g, "undock")' => undock_active'.handle
        /\ \A g \in Command : Resulting(g, "navigate_to_pose")' => g = active'.id \/ goal'[g] = "over"
    BY <1>0, <1>r, <1>m, <2>2 DEF GoalInv, GoesOn
  <2> QED BY <2>5, <2>7, <2>8 DEF GoalInv
<1> QED BY <1>1, <1>2 DEF Server

\* Every step.
LEMMA NextGoalInv == TypeInv /\ MotionInv /\ GoalInv /\ [Next]_vars => GoalInv'
<1> SUFFICES ASSUME TypeInv, MotionInv, GoalInv, [Next]_vars PROVE GoalInv'
  OBVIOUS
<1> USE DEF TypeInv
<1>u. undock_active.handle => undock_active.id # None
  BY DEF OwnerInv, UndockSlot
<1>1. ASSUME UNCHANGED <<kind, wait, captured, navigation_generation>>,
             \A g \in Command : GoesOn(g) /\ (goal'[g] \in Begun => goal[g] \in Begun),
             undock_active'.id = undock_active.id, undock_active'.handle = undock_active.handle,
             active'.id = active.id
      PROVE  GoalInv'
  BY <1>u, <1>1, GoalKept DEF Resulting, Newest
<1>2. UNCHANGED goal => \A g \in Command : GoesOn(g) /\ (goal'[g] \in Begun => goal[g] \in Begun)
  BY DEF GoesOn
<1>3. ASSUME NEW c \in Command, CancelFrame(c) PROVE GoalInv'
  <2>1. UNCHANGED <<kind, goal, wait, captured, navigation_generation>>
    BY <1>3 DEF CancelFrame, CancelMap, CancelPending, CancelNavigation, CancelUndock, serverVars, genVars
  <2>2. /\ undock_active'.id = undock_active.id /\ undock_active'.handle = undock_active.handle
        /\ active'.id = active.id
    BY <1>3 DEF CancelFrame, CancelMap, CancelPending, CancelNavigation, CancelUndock, TypeOK, Nav, Undock
  <2> QED BY <1>1, <1>2, <2>1, <2>2
<1>4. ASSUME NEW x \in cancels, AnswerCancel(x) PROVE GoalInv'
  <2>1. \A g \in Command : GoesOn(g) /\ (goal'[g] \in Begun => goal[g] \in Begun)
    BY <1>4 DEF AnswerCancel, GoesOn, Begun, Moving, TypeOK
  <2> QED BY <1>1, <1>4, <2>1 DEF AnswerCancel, serverOnly, execVars, genVars
<1>5. ASSUME NEW x \in cancels, CancelReply(x) PROVE GoalInv'
  <2>1. UNCHANGED <<kind, goal, wait, captured, navigation_generation>>
    BY <1>5 DEF CancelReply, genVars
  <2>2. /\ undock_active'.id = undock_active.id /\ undock_active'.handle = undock_active.handle
        /\ active'.id = active.id
    BY <1>5 DEF CancelReply, OnCancelResponse, OnNavigationCancelResponse, Claim, TypeOK, Nav, Undock
  <2> QED BY <1>1, <1>2, <2>1, <2>2
<1>6. CASE Timers
  <2>1. UNCHANGED <<kind, goal, wait, captured, navigation_generation>>
    BY <1>6 DEF Timers, BaseState, PollPath, OnNavigationPath, CheckUndockHealth, CheckMapConnection,
      serverVars, genVars
  <2>2. /\ undock_active'.id = undock_active.id /\ undock_active'.handle = undock_active.handle
        /\ active'.id = active.id
    BY <1>6, ZenonT(30) DEF Timers, BaseState, PollPath, OnNavigationPath, CheckUndockHealth, FailUndock,
      CheckMapConnection, TypeOK, Nav, Undock
  <2> QED BY <1>1, <1>2, <2>1, <2>2
<1>7. CASE UNCHANGED vars
  BY <1>1, <1>2, <1>7 DEF vars, execVars, serverVars, genVars
<1> QED BY <1>3, <1>4, <1>5, <1>6, <1>7, HandleGoalInv, CallbackGoalInv, ServerGoalInv DEF Next, CancelStep

----------------------------------------------------------------------------
(* Motors off.  Each goal sent before it is either still on its way, with  *)
(* an older generation than the executor's, or was asked to cancel.        *)

Reached(g) ==
  /\ kind[g] \in MotionKinds
  /\ wait[g] = "response" => captured[g].motor < motor_disable_generation
  /\ wait[g] = "result" => asked[g] # {} \/ goal[g] = "over"

DisableInv ==
  /\ \A g \in Command : captured[g].motor <= motor_disable_generation
  /\ \A c \in Command : kind[c] = "unsent" => earlier[c] = {}
  /\ \A c \in Command : kind[c] = "motor_disable" => \A g \in earlier[c] : Reached(g)

\* No motor disable was received at start.
LEMMA InitDisableInv == Init => DisableInv
BY DEF Init, DisableInv

\* What a motor disable reached stays reached.
LEMMA ReachedKept ==
  ASSUME TypeOK, NEW g \in Command, Reached(g),
         kind'[g] = kind[g], captured'[g] = captured[g],
         motor_disable_generation' \in {motor_disable_generation, motor_disable_generation + 1},
         asked[g] \subseteq asked'[g], goal[g] = "over" => goal'[g] = "over",
         wait'[g] \in {wait[g], "none"} \/ (wait'[g] = "result" /\ asked'[g] # {})
  PROVE  Reached(g)'
<1>1. captured[g].motor \in Nat /\ motor_disable_generation \in Nat
  BY DEF TypeOK
<1>2. wait'[g] = "response" => captured'[g].motor < motor_disable_generation'
  BY <1>1 DEF Reached
<1>3. wait'[g] = "result" => asked'[g] # {} \/ goal'[g] = "over"
  BY DEF Reached
<1> QED BY <1>2, <1>3 DEF Reached

\* Steps in which no motor disable is received.
LEMMA DisableKept ==
  ASSUME TypeOK, DisableInv, UNCHANGED motor_disable_generation,
         \A g \in Command : captured'[g].motor <= motor_disable_generation,
         \A c \in Command : kind'[c] \in {"unsent", "motor_disable"} =>
           earlier'[c] = earlier[c] /\ kind[c] \in {kind'[c], "unsent"},
         \A g \in Command : Reached(g) => Reached(g)'
  PROVE  DisableInv'
<1>1. \A c \in Command : kind'[c] = "unsent" => earlier'[c] = {}
  BY DEF DisableInv
<1>2. ASSUME NEW c \in Command, kind'[c] = "motor_disable", NEW g \in earlier'[c]
      PROVE  Reached(g)'
  BY <1>2 DEF DisableInv, TypeOK
<1> QED BY <1>1, <1>2 DEF DisableInv

\* A motor disable asks every goal the executor knows to have begun and leaves
\* behind those whose response is on its way (_motor_disable).
LEMMA MotorDisableReaches ==
  ASSUME TypeInv, GoalInv, DisableInv, NEW c \in Command, MotorDisable(c)
  PROVE  DisableInv'
<1> USE DEF TypeInv
<1>0. /\ kind[c] = "unsent" /\ kind' = [kind EXCEPT ![c] = "motor_disable"]
      /\ motor_disable_generation' = motor_disable_generation + 1
      /\ UNCHANGED <<captured, goal>>
      /\ earlier' = [earlier EXCEPT ![c] = GoalsSent]
      /\ \A d \in Command \ {c} : wait'[d] = wait[d]
      /\ \A g \in Command : asked[g] \subseteq asked'[g]
  BY AskGrows DEF MotorDisable, Receive, TypeOK
<1>1. motor_disable_generation \in Nat /\ \A g \in Command : captured[g].motor \in Nat
  BY DEF TypeOK
<1>2. \A g \in GoalsHeld : asked'[g] # {}
  <2> SUFFICES ASSUME NEW g \in GoalsHeld PROVE asked'[g] # {}
    OBVIOUS
  <2>1. g \in Command
    BY DEF GoalsHeld
  <2>2. Ask(MapCancelRequests \cup {Request(h, "unheard") : h \in GoalsHeld})
    BY DEF MotorDisable
  <2>3. Request(g, "unheard") \in MapCancelRequests \cup {Request(h, "unheard") : h \in GoalsHeld}
    OBVIOUS
  <2>4. How("unheard") \in asked'[g]
    BY <2>1, <2>2, <2>3, Asked
  <2> QED BY <2>4
<1>3. \A g \in GoalsSent : Reached(g)'
  <2> SUFFICES ASSUME NEW g \in GoalsSent PROVE Reached(g)'
    OBVIOUS
  <2>1. g \in Command /\ kind[g] \in MotionKinds /\ g # c
    BY <1>0 DEF GoalsSent, MotionKinds
  <2>2. kind'[g] = kind[g] /\ wait'[g] = wait[g]
    BY <1>0, <2>1 DEF TypeOK
  <2>3. captured[g].motor < motor_disable_generation'
    BY <1>0, <1>1, <2>1 DEF DisableInv
  <2>4. ASSUME wait[g] = "result" PROVE asked'[g] # {} \/ goal'[g] = "over"
    <3>1. CASE kind[g] = "undock"
      <4>1. Resulting(g, "undock")
        BY <2>4, <3>1 DEF Resulting
      <4>2. undock_active.id = g /\ undock_active.handle
        BY <2>1, <2>4, <3>1, <4>1 DEF GoalInv, OwnerInv, UndockOwner
      <4>3. g \in GoalsHeld
        BY <2>1, <4>2 DEF GoalsHeld
      <4> QED BY <1>2, <4>3
    <3>2. CASE kind[g] = "navigate_to_pose"
      <4>1. Resulting(g, "navigate_to_pose")
        BY <2>4, <3>2 DEF Resulting
      <4>2. g = active.id \/ goal[g] = "over"
        BY <2>1, <4>1 DEF GoalInv
      <4>3. g = active.id => g \in GoalsHeld
        BY <2>1 DEF GoalsHeld
      <4> QED BY <1>0, <1>2, <4>2, <4>3
    <3> QED BY <2>1, <3>1, <3>2 DEF MotionKinds
  <2> QED BY <1>0, <2>1, <2>2, <2>3, <2>4 DEF Reached
<1>4. \A g \in Command : Reached(g) => Reached(g)'
  <2> SUFFICES ASSUME NEW g \in Command, Reached(g) PROVE Reached(g)'
    OBVIOUS
  <2>1. g # c
    BY <1>0 DEF Reached, MotionKinds
  <2>2. kind'[g] = kind[g] /\ wait'[g] = wait[g]
    BY <1>0, <2>1 DEF TypeOK
  <2> QED BY <1>0, <2>2, ReachedKept
<1>5. \A g \in Command : captured'[g].motor <= motor_disable_generation'
  BY <1>0, <1>1 DEF DisableInv
<1>6. /\ \A d \in Command \ {c} : kind'[d] = kind[d] /\ earlier'[d] = earlier[d]
      /\ kind'[c] = "motor_disable" /\ earlier'[c] = GoalsSent
  BY <1>0 DEF TypeOK
<1>7. \A d \in Command : kind'[d] = "unsent" => earlier'[d] = {}
  BY <1>6 DEF DisableInv
<1>8. ASSUME NEW d \in Command, kind'[d] = "motor_disable", NEW g \in earlier'[d]
      PROVE  Reached(g)'
  <2>1. CASE d = c
    BY <1>3, <1>6, <1>8, <2>1
  <2>2. CASE d # c
    BY <1>4, <1>6, <1>8, <2>2 DEF DisableInv, TypeOK
  <2> QED BY <2>1, <2>2
<1> QED BY <1>5, <1>7, <1>8 DEF DisableInv

\* A new goal carries the present generation; other requests reach no goal.
LEMMA HandleDisableInv ==
  ASSUME TypeInv, GoalInv, DisableInv, NEW c \in Command, Handle(c)
  PROVE  DisableInv'
<1> USE DEF TypeInv, Receive
<1>1. CASE MotorDisable(c)
  BY <1>1, MotorDisableReaches
<1>2. CASE ~MotorDisable(c)
  <2>k. \E k \in Kinds : kind[c] = "unsent" /\ kind' = [kind EXCEPT ![c] = k]
    BY <1>2 DEF Handle, Refuse, CallDockService, Navigate, UndockRequest, SetInitialPose, Stop, MapStop,
      SetLidarPower
  <2>n. kind'[c] # "unsent"
    BY <2>k, ConstantsAssumption DEF TypeOK, AllKinds, ActionKinds, ServiceKinds, MotionKinds
  <2>0. /\ kind[c] = "unsent" /\ UNCHANGED motor_disable_generation
        /\ \A d \in Command \ {c} : kind'[d] = kind[d] /\ earlier'[d] = earlier[d] /\ wait'[d] = wait[d]
    BY <1>2 DEF Handle, Refuse, CallDockService, Navigate, UndockRequest, SetInitialPose, Stop, MapStop,
      SetLidarPower, execVars, genVars, serverVars, histVars, TypeOK
  <2>1. earlier'[c] = earlier[c] \/ kind'[c] = "stop"
    BY <1>2 DEF Handle, Refuse, CallDockService, Navigate, UndockRequest, SetInitialPose, Stop, MapStop,
      SetLidarPower, histVars, TypeOK
  <2>2. \A d \in Command \ {c} : captured'[d] = captured[d] /\ goal'[d] = goal[d]
    BY <1>2 DEF Handle, Refuse, CallDockService, Navigate, UndockRequest, SetInitialPose, Stop, MapStop,
      SetLidarPower, execVars, genVars, serverVars, TypeOK
  <2>3. captured'[c].motor \in {captured[c].motor, motor_disable_generation}
    BY <1>2 DEF Handle, Refuse, CallDockService, Navigate, UndockRequest, SetInitialPose, Stop, MapStop,
      SetLidarPower, execVars, genVars, TypeOK
  <2>4. \A d \in Command : captured'[d].motor <= motor_disable_generation
    <3>1. motor_disable_generation \in Nat
      BY DEF TypeOK
    <3> QED BY <2>2, <2>3, <3>1 DEF DisableInv
  <2>5. \A g \in Command : Reached(g) => Reached(g)'
    <3> SUFFICES ASSUME NEW g \in Command, Reached(g) PROVE Reached(g)'
      OBVIOUS
    <3>1. g # c
      BY <2>0 DEF Reached, MotionKinds
    <3>2. asked[g] \subseteq asked'[g]
      BY NextAsks DEF Next
    <3> QED BY <2>0, <2>2, <3>1, <3>2, ReachedKept
  <2>6. \A d \in Command : kind'[d] \in {"unsent", "motor_disable"} =>
           earlier'[d] = earlier[d] /\ kind[d] \in {kind'[d], "unsent"}
    BY <2>0, <2>n, <2>1
  <2> QED BY <2>0, <2>4, <2>5, <2>6, DisableKept
<1> QED BY <1>1, <1>2

\* A goal accepted with an older generation is asked to cancel, or refused.
LEMMA CallbackDisableInv ==
  ASSUME TypeInv, GoalInv, DisableInv, NEW c \in Command, Callback(c)
  PROVE  DisableInv'
<1> USE DEF TypeInv
<1>0. /\ \A d \in Command \ {c} : wait'[d] = wait[d]
      /\ wait'[c] \in {"none", "result"}
      /\ UNCHANGED <<kind, goal, captured, motor_disable_generation, earlier>>
  BY DEF Callback, GoalResponseError, GoalDeclined, GoalSuperseded, GoalAccepted,
    OnResult, UndockReplyError, UndockDeclined, UndockAccepted, OnUndockResult,
    MapResponse, MapResult, OnDockServiceResult, OnLidarResult, TypeOK, genVars, execVars, histVars
<1>1. motor_disable_generation \in Nat /\ \A g \in Command : captured[g].motor \in Nat
  BY DEF TypeOK
<1>2. Reached(c) => wait'[c] = "none" \/ asked'[c] # {}
  <2>1. CASE GoalAccepted(c)
    BY <1>1, <2>1 DEF GoalAccepted, Superseded, Reached
  <2>2. CASE UndockAccepted(c)
    <3> SUFFICES ASSUME Reached(c) PROVE asked'[c] # {}
      OBVIOUS
    <3> DEFINE u == [undock_active EXCEPT !.handle = TRUE, !.cancel_requested =
                       @ \/ captured[c].motor # motor_disable_generation]
               heard == IF u.stops = {} THEN "unheard" ELSE u.lead
    <3>1. captured[c].motor # motor_disable_generation
      BY <1>1, <2>2 DEF UndockAccepted, Reached
    <3>2. u.cancel_requested
      BY <3>1 DEF TypeOK, Undock
    <3> HIDE DEF u
    <3>3. \/ Ask({Request(c, heard)})
          \/ asked' = [asked EXCEPT ![c] = @ \cup {How(heard)}]
      BY <2>2, <3>2 DEF UndockAccepted, u
    <3> HIDE DEF heard
    <3>4. How(heard) \in asked'[c]
      BY <3>3, Asked DEF TypeOK
    <3> QED BY <3>4
  <2>3. CASE MapResponse(c)
    BY <2>3 DEF MapResponse, Reached, MotionKinds
  <2>4. CASE ~GoalAccepted(c) /\ ~UndockAccepted(c) /\ ~MapResponse(c)
    BY <2>4 DEF Callback, GoalResponseError, GoalDeclined, GoalSuperseded, OnResult, UndockReplyError,
      UndockDeclined, OnUndockResult, MapResult, OnDockServiceResult, OnLidarResult, TypeOK
  <2> QED BY <2>1, <2>2, <2>3, <2>4
<1>3. \A g \in Command : Reached(g) => Reached(g)'
  <2> SUFFICES ASSUME NEW g \in Command, Reached(g) PROVE Reached(g)'
    OBVIOUS
  <2>1. asked[g] \subseteq asked'[g]
    BY NextAsks DEF Next
  <2> QED BY <1>0, <1>2, <2>1, ReachedKept
<1> QED BY <1>0, <1>3, DisableKept DEF DisableInv

\* The other steps receive nothing and hear nothing of a goal.
LEMMA NextDisableInv == TypeInv /\ GoalInv /\ DisableInv /\ [Next]_vars => DisableInv'
<1> SUFFICES ASSUME TypeInv, GoalInv, DisableInv, [Next]_vars PROVE DisableInv'
  OBVIOUS
<1> USE DEF TypeInv
<1>1. ASSUME UNCHANGED <<kind, wait, captured, motor_disable_generation, earlier>>,
             \A g \in Command : goal[g] = "over" => goal'[g] = "over"
      PROVE  DisableInv'
  <2>1. \A g \in Command : Reached(g) => Reached(g)'
    BY <1>1, NextAsks, ReachedKept
  <2> QED BY <1>1, <2>1, DisableKept DEF DisableInv
<1>2. ASSUME NEW c \in Command, CancelFrame(c) PROVE DisableInv'
  BY <1>1, <1>2 DEF CancelFrame, CancelMap, CancelPending, CancelNavigation, CancelUndock,
    serverVars, genVars, histVars
<1>3. ASSUME NEW c \in Command, Server(c) PROVE DisableInv'
  BY <1>1, <1>3 DEF Server, Accept, Decline, GoalEnds, serverOnly, execVars, genVars, histVars, Moving, TypeOK
<1>4. ASSUME NEW x \in cancels, AnswerCancel(x) PROVE DisableInv'
  BY <1>1, <1>4 DEF AnswerCancel, serverOnly, execVars, genVars, histVars, TypeOK
<1>5. ASSUME NEW x \in cancels, CancelReply(x) PROVE DisableInv'
  BY <1>1, <1>5 DEF CancelReply, genVars, histVars
<1>6. CASE Timers
  BY <1>1, <1>6 DEF Timers, BaseState, PollPath, OnNavigationPath, CheckUndockHealth, CheckMapConnection,
    serverVars, genVars, histVars
<1>7. CASE UNCHANGED vars
  BY <1>1, <1>7 DEF vars, execVars, serverVars, genVars, histVars
<1> QED BY <1>2, <1>3, <1>4, <1>5, <1>6, <1>7, HandleDisableInv, CallbackDisableInv DEF Next, CancelStep

\* A goal that is still executing was asked to cancel.
LEMMA DisableReaches == TypeInv /\ DisableInv => DisableReachesEveryGoal
<1> SUFFICES ASSUME TypeInv, DisableInv, NEW c \in Command, NEW g \in Command,
                    kind[c] = "motor_disable", g \in earlier[c], wait[g] = "result", goal[g] = "executing"
             PROVE  asked[g] # {}
  BY DEF DisableReachesEveryGoal
<1> QED BY DEF DisableInv, Reached

----------------------------------------------------------------------------
(* Stops.  A goal is quiet as long as every cancel it was sent is heard by *)
(* somebody: a stop, or the navigation callback.  A quiet goal has at most *)
(* one cancel in flight, and whoever hears it is waiting on the goal, so   *)
(* that a verdict always answers the request it belongs to.                *)

Quiet(g) == "unheard" \notin asked[g]
Ended == {"over", "declined"}

\* A command the bridge has not received has no goal, and waits on none.
Unsent == \A c \in Command : kind[c] = "unsent" => goal[c] = "none" /\ target[c] = None

\* Whom each stop waits for; a stop waits on a goal that was told to cancel, or
\* will be when it has a handle.
StopTargets ==
  /\ \A c \in active.stops : target[c] = active.id
  /\ \A c \in undock_active.stops : target[c] = undock_active.id
  /\ ~active.cancel_requested => active.stops = {} /\ ~active.cancel_pending
  /\ ~undock_active.handle /\ undock_active.stops # {} => undock_active.lead \in undock_active.stops
  /\ undock_active.handle => wait[undock_active.id] # "response"

CancelFits(x) ==
  /\ How(x.heard) \in asked[x.goal]
  /\ kind[x.goal] \in ActionKinds
  /\ kind[x.goal] = "navigate_to_pose" => wait[x.goal] # "response"
  /\ x.goal = undock_active.id => undock_active.handle
  /\ x.heard \in Command => target[x.heard] = x.goal /\ kind[x.heard] = "stop"

\* The verdict so far agrees with the goal, and is the only one.
Agrees(x) ==
  /\ goal[x.goal] \in Begun
  /\ x.verdict = "finished" => goal[x.goal] = "over"
  /\ x.verdict \in {"none", "refused"} => goal[x.goal] # "canceling"
  /\ \A y \in cancels : y.goal = x.goal => y = x

Heard(x) ==
  /\ x.goal = active.id =>
       x.heard \in active.stops \/ (x.heard = "navigation" /\ active.cancel_pending)
  /\ x.goal = undock_active.id => x.heard \in undock_active.stops

CancelingIsAwaited(g) ==
  goal[g] = "canceling" =>
    /\ kind[g] = "navigate_to_pose" => wait[g] # "response"
    /\ g = active.id => active.stops # {} \/ active.cancel_pending
    /\ g = undock_active.id => undock_active.handle /\ undock_active.stops # {}

CancelsInv ==
  /\ \A x \in cancels : CancelFits(x)
  /\ \A x \in cancels : Quiet(x.goal) => Agrees(x) /\ Heard(x)
  /\ \A g \in Command : Quiet(g) => CancelingIsAwaited(g)

StopInv == StopWaitsForItsGoal /\ Unsent /\ StopTargets /\ CancelsInv

\* No goal and no stop at start.
LEMMA InitStopInv == Init => StopInv
BY DEF Init, StopInv, StopWaitsForItsGoal, Unsent, StopTargets, CancelsInv, CancelingIsAwaited, NoNav, NoUndock

----------------------------------------------------------------------------
(* What no step undoes.                                                    *)

Onward ==
  /\ \A g \in Command : asked[g] \subseteq asked'[g]
  /\ \A g \in Command : kind[g] # "unsent" => kind'[g] = kind[g] /\ target'[g] = target[g]
  /\ \A g \in Command : kind[g] # "unsent" /\ wait'[g] = "response" => wait[g] = "response"
  /\ \A g \in Command : goal[g] \in Begun => goal'[g] \in Begun
  /\ \A g \in Command : goal[g] \in Ended => goal'[g] = goal[g]
  /\ Unsent'

\* handle() is about a command that was not received before.
LEMMA Received ==
  ASSUME TypeInv, NEW c \in Command, Handle(c)
  PROVE  /\ kind[c] = "unsent" /\ wait[c] = "none" /\ kind'[c] # "unsent"
         /\ \A d \in Command \ {c} : kind'[d] = kind[d]
<1> USE DEF TypeInv
<1>1. \E k \in Kinds : kind[c] = "unsent" /\ kind' = [kind EXCEPT ![c] = k]
  BY DEF Handle, Refuse, CallDockService, Navigate, UndockRequest, SetInitialPose, Stop, MapStop,
    MotorDisable, SetLidarPower, Receive
<1>2. kind'[c] # "unsent"
  BY <1>1, ConstantsAssumption DEF TypeOK, AllKinds, ActionKinds, ServiceKinds, MotionKinds
<1> QED BY <1>1, <1>2 DEF TypeOK, OwnerInv, Fresh

\* Goals go on, histories grow, and what was received stays what it was.
LEMMA GoesOnward == TypeInv /\ Unsent /\ [Next]_vars => Onward
<1> SUFFICES ASSUME TypeInv, Unsent, [Next]_vars PROVE Onward
  OBVIOUS
<1> USE DEF TypeInv
<1>0. \A g \in Command : asked[g] \subseteq asked'[g]
  BY NextAsks
<1>1. ASSUME NEW c \in Command, Handle(c) PROVE Onward
  <2>1. \A d \in Command \ {c} : target'[d] = target[d] /\ wait'[d] = wait[d] /\ goal'[d] = goal[d]
    BY <1>1 DEF Handle, Refuse, CallDockService, Navigate, UndockRequest, SetInitialPose, Stop, MapStop,
      MotorDisable, SetLidarPower, histVars, serverVars, TypeOK
  <2>2. goal[c] = "none"
    BY <1>1, Received DEF Unsent
  <2> QED BY <1>0, <1>1, <2>1, <2>2, Received DEF Onward, Unsent, Begun, Ended, Moving
<1>2. ASSUME NEW c \in Command, Callback(c) PROVE Onward
  <2>1. /\ UNCHANGED <<kind, target, goal>>
        /\ \A d \in Command : wait'[d] = "response" => wait[d] = "response"
    BY <1>2 DEF Callback, GoalResponseError, GoalDeclined, GoalSuperseded, GoalAccepted,
      OnResult, UndockReplyError, UndockDeclined, UndockAccepted, OnUndockResult,
      MapResponse, MapResult, OnDockServiceResult, OnLidarResult, TypeOK, histVars
  <2> QED BY <1>0, <2>1 DEF Onward, Unsent
<1>3. ASSUME UNCHANGED <<kind, target, goal, wait>> PROVE Onward
  BY <1>0, <1>3 DEF Onward, Unsent
<1>4. ASSUME NEW c \in Command, CancelFrame(c) PROVE Onward
  BY <1>3, <1>4 DEF CancelFrame, CancelMap, CancelPending, CancelNavigation, CancelUndock, serverVars, histVars
<1>5. ASSUME UNCHANGED <<kind, target, wait>>,
             \A g \in Command : goal[g] = "none" => goal'[g] = "none",
             \A g \in Command : goal[g] \in Begun => goal'[g] \in Begun,
             \A g \in Command : goal[g] \in Ended => goal'[g] = goal[g]
      PROVE  Onward
  BY <1>0, <1>5 DEF Onward, Unsent
<1>6. ASSUME NEW c \in Command, Server(c) PROVE Onward
  <2>1. UNCHANGED <<kind, target, wait>>
    BY <1>6 DEF Server, Accept, Decline, GoalEnds, serverOnly, histVars
  <2>2. \A g \in Command : goal'[g] = goal[g] \/ (goal[g] \in {"sent"} \cup Moving /\ goal'[g] \in {"executing", "declined", "over"})
    BY <1>6 DEF Server, Accept, Decline, GoalEnds, TypeOK
  <2>3. \A g \in Command : goal[g] \in Moving => goal'[g] \in Begun
    BY <1>6 DEF Server, Accept, Decline, GoalEnds, TypeOK, Begun, Moving
  <2> QED BY <1>5, <2>1, <2>2, <2>3 DEF Begun, Ended, Moving
<1>7. ASSUME NEW x \in cancels, CancelStep(x) PROVE Onward
  <2>1. CASE AnswerCancel(x)
    <3>1. UNCHANGED <<kind, target, wait>>
      BY <2>1 DEF AnswerCancel, serverOnly, histVars
    <3>2. \A g \in Command : goal'[g] = goal[g] \/ (goal[g] = "executing" /\ goal'[g] = "canceling")
      BY <2>1 DEF AnswerCancel, TypeOK
    <3> QED BY <1>5, <3>1, <3>2 DEF Begun, Ended, Moving
  <2>2. CASE CancelReply(x)
    BY <1>3, <2>2 DEF CancelReply, histVars
  <2> QED BY <1>7, <2>1, <2>2 DEF CancelStep
<1>8. CASE Timers
  BY <1>3, <1>8 DEF Timers, BaseState, PollPath, OnNavigationPath, CheckUndockHealth, CheckMapConnection,
    serverVars, histVars
<1>9. CASE UNCHANGED vars
  BY <1>3, <1>9 DEF vars, serverVars, histVars
<1> QED BY <1>1, <1>2, <1>4, <1>6, <1>7, <1>8, <1>9 DEF Next

\* A stop that had succeeded still has; a new success must be about an ended goal.
LEMMA SuccessKept ==
  ASSUME TypeOK, Onward, StopWaitsForItsGoal,
         \A d \in Command : kind'[d] = "stop" /\ result'[d] = "succeeded" =>
           \/ kind[d] = "stop" /\ result[d] = "succeeded"
           \/ target'[d] = None
           \/ target'[d] \in Command /\ (Quiet(target'[d]) => goal[target'[d]] \in Ended)
  PROVE  StopWaitsForItsGoal'
<1> SUFFICES ASSUME NEW d \in Command, kind'[d] = "stop", result'[d] = "succeeded", target'[d] # None,
                    "unheard" \notin asked'[target'[d]]
             PROVE  goal'[target'[d]] \in Ended
  BY DEF StopWaitsForItsGoal, Ended
<1>1. target[d] = None \/ target[d] \in Command
  BY DEF TypeOK, Id
<1>2. CASE kind[d] = "stop" /\ result[d] = "succeeded"
  <2>1. target'[d] = target[d] /\ target[d] \in Command
    BY <1>1, <1>2 DEF Onward
  <2>2. goal[target[d]] \in Ended
    BY <1>2, <2>1 DEF StopWaitsForItsGoal, Onward, Ended
  <2> QED BY <2>1, <2>2 DEF Onward
<1>3. CASE ~(kind[d] = "stop" /\ result[d] = "succeeded")
  <2>1. target'[d] \in Command /\ (Quiet(target'[d]) => goal[target'[d]] \in Ended)
    BY <1>3
  <2> QED BY <2>1 DEF Quiet, Onward
<1> QED BY <1>2, <1>3

\* A cancel in flight goes on fitting its goal.
LEMMA FitsKept ==
  ASSUME TypeOK, Onward, NEW x \in cancels, CancelFits(x),
         x.goal = undock_active'.id => undock_active'.handle
  PROVE  CancelFits(x)'
<1>1. x.goal \in Command
  BY DEF TypeOK, Cancel
<1>2. kind[x.goal] # "unsent"
  BY DEF CancelFits, ActionKinds, MotionKinds
<1> QED BY <1>1, <1>2 DEF CancelFits, Onward

\* So does its verdict, unless the goal has just begun to cancel.
LEMMA AgreesKept ==
  ASSUME TypeOK, Onward, NEW x \in cancels, Agrees(x),
         goal'[x.goal] = "canceling" => goal[x.goal] = "canceling",
         \A y \in cancels' : y.goal = x.goal => y \in cancels
  PROVE  Agrees(x)'
<1>1. x.goal \in Command
  BY DEF TypeOK, Cancel
<1>2. goal'[x.goal] \in Begun
  BY <1>1 DEF Agrees, Onward
<1>3. goal[x.goal] = "over" => goal'[x.goal] = "over"
  BY <1>1 DEF Onward, Ended
<1> QED BY <1>2, <1>3 DEF Agrees

\* Slots whose owners, stops and cancels stay.
SlotsKept ==
  /\ active'.id = active.id /\ active'.stops = active.stops
  /\ active'.cancel_pending = active.cancel_pending
  /\ active.cancel_requested => active'.cancel_requested
  /\ undock_active'.id = undock_active.id /\ undock_active'.handle = undock_active.handle
  /\ undock_active'.stops = undock_active.stops /\ undock_active'.lead = undock_active.lead

\* A cancel that nobody will hear.
Unheard(x) ==
  /\ x.goal \in Command /\ x.heard = "unheard" /\ "unheard" \in asked'[x.goal]
  /\ kind[x.goal] \in ActionKinds
  /\ kind[x.goal] = "navigate_to_pose" => wait'[x.goal] # "response"
  /\ x.goal = undock_active.id => undock_active.handle

\* Steps that change no slot, begin no canceling and send only cancels that
\* nobody will hear.
LEMMA StopKept ==
  ASSUME TypeInv, GoalInv, ReplyInv, StopInv, Onward, SlotsKept,
         \A g \in Command : goal'[g] = "canceling" => goal[g] = "canceling",
         \A x \in cancels' : x \in cancels \/ Unheard(x),
         \A d \in Command : kind'[d] = "stop" /\ result'[d] = "succeeded" =>
           (kind[d] = "stop" /\ result[d] = "succeeded") \/ target'[d] = None
  PROVE  StopInv'
<1> USE DEF TypeInv
<1>1. StopWaitsForItsGoal'
  BY SuccessKept DEF StopInv
<1>2. StopTargets'
  <2>1. \A c \in active.stops \cup undock_active.stops : target'[c] = target[c]
    BY DEF ReplyInv, StopsWaiting, Onward, TypeOK, Nav, Undock
  <2>2. undock_active.handle => undock_active.id \in Command /\ kind[undock_active.id] # "unsent"
    BY DEF OwnerInv, UndockSlot, TypeOK, Undock, Id, GoalInv
  <2>3. undock_active.handle => wait'[undock_active.id] # "response"
    BY <2>2 DEF StopInv, StopTargets, Onward
  <2> QED BY <2>1, <2>3 DEF StopInv, StopTargets, SlotsKept
<1>3. ASSUME NEW x \in cancels' PROVE CancelFits(x)'
  <2>1. CASE x \in cancels
    BY <2>1, FitsKept DEF StopInv, CancelsInv, CancelFits, SlotsKept
  <2>2. CASE Unheard(x)
    <3>1. kind'[x.goal] = kind[x.goal]
      BY <2>2 DEF Unheard, Onward, ActionKinds, MotionKinds
    <3> QED BY <2>2, <3>1, TagsAssumption DEF Unheard, CancelFits, How, SlotsKept
  <2> QED BY <1>3, <2>1, <2>2
<1>4. ASSUME NEW x \in cancels', Quiet(x.goal)' PROVE Agrees(x)' /\ Heard(x)'
  <2>1. \A y \in cancels' : Quiet(y.goal)' => y \in cancels /\ Quiet(y.goal)
    BY DEF Unheard, Quiet, Onward, TypeOK, Cancel
  <2>2. x \in cancels /\ Quiet(x.goal)
    BY <1>4, <2>1
  <2>3. Agrees(x) /\ Heard(x) /\ x.goal \in Command
    BY <2>2 DEF StopInv, CancelsInv, TypeOK, Cancel
  <2>4. Agrees(x)'
    BY <1>4, <2>1, <2>2, <2>3, AgreesKept
  <2> QED BY <2>3, <2>4 DEF Heard, SlotsKept
<1>5. ASSUME NEW g \in Command, Quiet(g)' PROVE CancelingIsAwaited(g)'
  <2> SUFFICES ASSUME goal'[g] = "canceling" PROVE CancelingIsAwaited(g)'
    BY DEF CancelingIsAwaited
  <2>1. goal[g] = "canceling" /\ Quiet(g) /\ kind[g] # "unsent"
    BY <1>5 DEF Quiet, Onward, StopInv, Unsent
  <2> QED BY <2>1 DEF StopInv, CancelsInv, CancelingIsAwaited, Onward, SlotsKept
<1> QED BY <1>1, <1>2, <1>3, <1>4, <1>5 DEF StopInv, CancelsInv, Onward

\* A cancel request sent by this step: it is the only one in flight for a quiet
\* goal, which is not canceling yet, and whoever hears it is waiting.
NewRequest(x) ==
  /\ CancelFits(x)'
  /\ Quiet(x.goal)' =>
       /\ x.verdict = "none" /\ goal'[x.goal] \in Begun /\ goal'[x.goal] # "canceling"
       /\ \A y \in cancels' : y.goal = x.goal => y = x
       /\ Heard(x)'

\* Steps in which no goal begins to cancel.
LEMMA CancelsKept ==
  ASSUME TypeOK, CancelsInv, Onward,
         \A g \in Command : goal'[g] = "canceling" => goal[g] = "canceling",
         \A x \in cancels' : x \in cancels \/ NewRequest(x),
         \A x \in cancels : x \in cancels' /\ x.goal = undock_active'.id => undock_active'.handle,
         \A x \in cancels : x \in cancels' /\ Quiet(x.goal) /\ Quiet(x.goal)' /\ Heard(x) => Heard(x)',
         \A g \in Command :
           goal'[g] = "canceling" /\ Quiet(g) /\ Quiet(g)' /\ CancelingIsAwaited(g) => CancelingIsAwaited(g)'
  PROVE  CancelsInv'
<1>1. ASSUME NEW x \in cancels' PROVE CancelFits(x)'
  BY <1>1, FitsKept DEF CancelsInv, NewRequest
<1>2. ASSUME NEW x \in cancels', Quiet(x.goal)' PROVE Agrees(x)' /\ Heard(x)'
  <2>1. CASE x \in cancels
    <3>1. x.goal \in Command
      BY <2>1 DEF TypeOK, Cancel
    <3>2. Quiet(x.goal) /\ Agrees(x) /\ Heard(x)
      BY <1>2, <2>1, <3>1 DEF Quiet, Onward, CancelsInv
    <3>3. \A y \in cancels' : y.goal = x.goal => y \in cancels
      BY <1>2, <2>1 DEF NewRequest
    <3>4. Agrees(x)'
      BY <2>1, <3>1, <3>2, <3>3, AgreesKept
    <3> QED BY <1>2, <2>1, <3>2, <3>4
  <2>2. CASE NewRequest(x)
    BY <1>2, <2>2 DEF NewRequest, Agrees
  <2> QED BY <1>2, <2>1, <2>2
<1>3. ASSUME NEW g \in Command, Quiet(g)' PROVE CancelingIsAwaited(g)'
  <2>1. Quiet(g)
    BY <1>3 DEF Quiet, Onward
  <2>2. CASE goal'[g] = "canceling"
    BY <1>3, <2>1, <2>2 DEF CancelsInv
  <2>3. CASE goal'[g] # "canceling"
    BY <2>3 DEF CancelingIsAwaited
  <2> QED BY <2>2, <2>3
<1> QED BY <1>1, <1>2, <1>3 DEF CancelsInv

\* A stop that finds an undock: if it is the first and the goal has a handle, its
\* cancel is the only one; otherwise one is in flight or goes out with the handle.
LEMMA StopUndockKeeps ==
  ASSUME TypeInv, MotionInv, ReplyInv, GoalInv, StopInv, Onward, NEW c \in Command, Stop(c), StopUndock(c)
  PROVE  StopInv'
<1> USE DEF TypeInv
<1>p. PICK u \in Command : u = undock_active.id
  BY DEF StopUndock, TypeOK, Undock, Id
<1>0. /\ kind[c] = "unsent" /\ kind' = [kind EXCEPT ![c] = "stop"]
      /\ target' = [target EXCEPT ![c] = u]
      /\ result' = result /\ result[c] = "none"
      /\ UNCHANGED <<goal, wait, active>>
  BY <1>p DEF Stop, Receive, StopUndock, Tell, Nobody, To, ReplyInv, Futures, Unreplied, TypeOK
<1>1. /\ u \in Command /\ u # None /\ kind[u] = "undock" /\ u # c
      /\ active.id = None /\ active.stops = {}
  BY <1>p, <1>0, ConstantsAssumption DEF StopUndock, TypeOK, Undock, Id, GoalInv, MotionInv, OneMotionOwner, ReplyInv, ActiveWaits
<1>2. /\ undock_active'.id = u /\ undock_active'.handle = undock_active.handle
      /\ undock_active'.stops = undock_active.stops \cup {c}
      /\ undock_active'.lead = IF undock_active.stops = {} THEN c ELSE undock_active.lead
  BY <1>p DEF StopUndock, TypeOK, Undock
<1>3. Ask(IF undock_active.handle /\ undock_active.stops = {} THEN {Request(u, c)} ELSE {})
  BY <1>p DEF StopUndock
<1>4. /\ \A d \in Command \ {c} : kind'[d] = kind[d] /\ target'[d] = target[d]
      /\ kind'[c] = "stop" /\ target'[c] = u
  BY <1>0 DEF TypeOK
<1>5. StopWaitsForItsGoal'
  BY <1>0, <1>4, SuccessKept DEF StopInv
<1>6. StopTargets'
  <2>1. \A d \in undock_active.stops : d \in Command \ {c}
    BY <1>0 DEF ReplyInv, StopsWaiting, TypeOK, Undock
  <2> QED BY <1>p, <1>0, <1>1, <1>2, <1>4, <2>1 DEF StopInv, StopTargets
<1>7. CancelsInv'
  <2> DEFINE q == Request(u, c)
  <2>1. \A x \in cancels' : x \in cancels \/ (x = q /\ undock_active.handle /\ undock_active.stops = {})
    BY <1>3 DEF Ask
  <2>2. q.goal = u /\ q.heard = c /\ q.verdict = "none"
    BY DEF Request
  <2> HIDE DEF q
  <2>3. ASSUME undock_active.handle, undock_active.stops = {}, NEW r \in cancels', r = q PROVE NewRequest(r)
    <3>1. "stop" \in asked'[u]
      <4>1. Ask({Request(u, c)})
        BY <1>3, <2>3
      <4> QED BY <1>1, <4>1, Asked, TagsAssumption DEF How
    <3>2. CancelFits(r)'
      BY <1>1, <1>2, <1>4, <2>2, <2>3, <3>1, TagsAssumption DEF CancelFits, How, ActionKinds, MotionKinds
    <3>3. ASSUME Quiet(u)' PROVE goal'[u] \in Begun /\ goal'[u] # "canceling" /\ \A y \in cancels' : y.goal = u => y = r
      <4>1. Quiet(u)
        BY <1>1, <3>3 DEF Quiet, Onward
      <4>2. goal[u] # "canceling"
        BY <1>p, <1>1, <2>3, <4>1 DEF StopInv, CancelsInv, CancelingIsAwaited
      <4>3. \A y \in cancels : y.goal # u
        BY <1>p, <2>3, <4>1 DEF StopInv, CancelsInv, Heard
      <4> QED BY <1>p, <1>0, <2>1, <2>3, <4>2, <4>3 DEF GoalInv
    <3>4. Heard(r)'
      BY <1>0, <1>1, <1>2, <2>2, <2>3 DEF Heard
    <3> QED BY <2>2, <2>3, <3>2, <3>3, <3>4 DEF NewRequest
  <2>4. \A x \in cancels' : x \in cancels \/ NewRequest(x)
    BY <2>1, <2>3
  <2>5. \A x \in cancels : x.goal = undock_active'.id => undock_active'.handle
    BY <1>p, <1>2 DEF StopInv, CancelsInv, CancelFits
  <2>6. \A x \in cancels : Heard(x) => Heard(x)'
    BY <1>p, <1>0, <1>2 DEF Heard
  <2>7. \A g \in Command : goal'[g] = "canceling" /\ CancelingIsAwaited(g) => CancelingIsAwaited(g)'
    <3>1. \A g \in Command : goal[g] = "canceling" => g # c
      BY <1>0 DEF StopInv, Unsent
    <3> QED BY <1>p, <1>0, <1>2, <1>4, <3>1 DEF CancelingIsAwaited
  <2>8. \A g \in Command : goal'[g] = "canceling" => goal[g] = "canceling"
    BY <1>0
  <2> QED BY <2>4, <2>5, <2>6, <2>7, <2>8, CancelsKept DEF StopInv
<1> QED BY <1>5, <1>6, <1>7 DEF StopInv, Onward

\* A stop that finds a destination: likewise, with the navigation cancel.
LEMMA StopNavigationKeeps ==
  ASSUME TypeInv, MotionInv, ReplyInv, GoalInv, StopInv, Onward, NEW c \in Command, Stop(c), StopNavigation(c)
  PROVE  StopInv'
<1> USE DEF TypeInv
<1>p. PICK a \in Command : a = active.id
  BY DEF StopNavigation, TypeOK, Nav, Id
<1>0. /\ kind[c] = "unsent" /\ kind' = [kind EXCEPT ![c] = "stop"]
      /\ target' = [target EXCEPT ![c] = a]
      /\ result' = result /\ result[c] = "none"
      /\ UNCHANGED <<goal, wait, undock_active>>
  BY <1>p DEF Stop, Receive, StopNavigation, Tell, Nobody, To, ReplyInv, Futures, Unreplied, TypeOK
<1>1. /\ a \in Command /\ a # None /\ kind[a] = "navigate_to_pose" /\ wait[a] = "result" /\ a # c
      /\ undock_active.id = None /\ undock_active.stops = {} /\ ~undock_active.handle
  BY <1>p, <1>0, ConstantsAssumption DEF StopNavigation, TypeOK, Nav, Id, OwnerInv, UndockSlot, ReplyInv, ActiveWaits
<1>2. /\ active'.id = a /\ active'.stops = active.stops \cup {c} /\ active'.cancel_requested
      /\ active'.cancel_pending = active.cancel_pending
  BY <1>p DEF StopNavigation, TypeOK, Nav
<1>3. Ask(IF active.stops = {} /\ ~active.cancel_pending THEN {Request(a, c)} ELSE {})
  BY <1>p DEF StopNavigation
<1>4. /\ \A d \in Command \ {c} : kind'[d] = kind[d] /\ target'[d] = target[d]
      /\ kind'[c] = "stop" /\ target'[c] = a
  BY <1>0 DEF TypeOK
<1>g. goal[a] \in Begun
  <2>1. Resulting(a, "navigate_to_pose")
    BY <1>1 DEF Resulting
  <2> QED BY <1>1, <2>1 DEF GoalInv, MotionKinds
<1>5. StopWaitsForItsGoal'
  BY <1>0, <1>4, SuccessKept DEF StopInv
<1>6. StopTargets'
  <2>1. \A d \in active.stops : d \in Command \ {c}
    BY <1>0 DEF ReplyInv, StopsWaiting, TypeOK, Nav
  <2> QED BY <1>p, <1>0, <1>1, <1>2, <1>4, <2>1 DEF StopInv, StopTargets
<1>7. CancelsInv'
  <2> DEFINE q == Request(a, c)
  <2>1. \A x \in cancels' : x \in cancels \/ (x = q /\ active.stops = {} /\ ~active.cancel_pending)
    BY <1>3 DEF Ask
  <2>2. q.goal = a /\ q.heard = c /\ q.verdict = "none"
    BY DEF Request
  <2> HIDE DEF q
  <2>3. ASSUME active.stops = {}, ~active.cancel_pending, NEW r \in cancels', r = q PROVE NewRequest(r)
    <3>1. "stop" \in asked'[a]
      <4>1. Ask({Request(a, c)})
        BY <1>3, <2>3
      <4> QED BY <1>1, <4>1, Asked, TagsAssumption DEF How
    <3>2. CancelFits(r)'
      BY <1>0, <1>1, <1>2, <1>4, <2>2, <2>3, <3>1, TagsAssumption DEF CancelFits, How, ActionKinds, MotionKinds
    <3>3. ASSUME Quiet(a)' PROVE goal'[a] # "canceling" /\ \A y \in cancels' : y.goal = a => y = r
      <4>1. Quiet(a)
        BY <1>1, <3>3 DEF Quiet, Onward
      <4>2. goal[a] # "canceling"
        BY <1>p, <1>1, <2>3, <4>1 DEF StopInv, CancelsInv, CancelingIsAwaited
      <4>3. \A y \in cancels : y.goal # a
        BY <1>p, <2>3, <4>1 DEF StopInv, CancelsInv, Heard
      <4> QED BY <1>0, <2>1, <2>3, <4>2, <4>3
    <3>4. Heard(r)'
      BY <1>0, <1>1, <1>2, <2>2, <2>3 DEF Heard
    <3> QED BY <1>0, <1>g, <2>2, <2>3, <3>2, <3>3, <3>4 DEF NewRequest
  <2>4. \A x \in cancels' : x \in cancels \/ NewRequest(x)
    BY <2>1, <2>3
  <2>5. \A x \in cancels : x.goal = undock_active'.id => undock_active'.handle
    BY <1>0 DEF StopInv, CancelsInv, CancelFits
  <2>6. \A x \in cancels : Heard(x) => Heard(x)'
    BY <1>p, <1>0, <1>2 DEF Heard
  <2>7. \A g \in Command : goal'[g] = "canceling" /\ CancelingIsAwaited(g) => CancelingIsAwaited(g)'
    <3>1. \A g \in Command : goal[g] = "canceling" => g # c
      BY <1>0 DEF StopInv, Unsent
    <3> QED BY <1>0, <1>2, <1>4, <3>1 DEF CancelingIsAwaited
  <2>8. \A g \in Command : goal'[g] = "canceling" => goal[g] = "canceling"
    BY <1>0
  <2> QED BY <2>4, <2>5, <2>6, <2>7, <2>8, CancelsKept DEF StopInv
<1> QED BY <1>5, <1>6, <1>7 DEF StopInv, Onward

\* A cancel frame for the destination, when nobody has canceled it yet.
LEMMA CancelNavigationKeeps ==
  ASSUME TypeInv, ReplyInv, GoalInv, StopInv, Onward, NEW c \in Command, CancelNavigation(c)
  PROVE  StopInv'
<1> USE DEF TypeInv
<1>0. UNCHANGED <<kind, target, result, goal, wait, undock_active>>
  BY DEF CancelNavigation, replyVars, histVars
<1>1. /\ active.id = c /\ kind[c] = "navigate_to_pose" /\ wait[c] = "result" /\ ~active.cancel_requested
      /\ active.stops = {} /\ ~active.cancel_pending
  BY ConstantsAssumption DEF CancelNavigation, ReplyInv, ActiveWaits, StopInv, StopTargets
<1>u. undock_active.id # c
  BY <1>1, ConstantsAssumption DEF GoalInv
<1>2. active'.id = c /\ active'.stops = {} /\ active'.cancel_requested /\ active'.cancel_pending
  BY <1>1 DEF CancelNavigation, TypeOK, Nav
<1>3. Ask({Request(c, "navigation")})
  BY DEF CancelNavigation
<1>g. goal[c] \in Begun
  <2>1. Resulting(c, "navigate_to_pose")
    BY <1>1 DEF Resulting
  <2> QED BY <2>1 DEF GoalInv, MotionKinds
<1>5. StopWaitsForItsGoal'
  BY <1>0, SuccessKept DEF StopInv
<1>6. StopTargets'
  BY <1>0, <1>2 DEF StopInv, StopTargets
<1>7. CancelsInv'
  <2> DEFINE r == Request(c, "navigation")
  <2>1. \A x \in cancels' : x \in cancels \/ x = r
    BY <1>3 DEF Ask
  <2>2. r.goal = c /\ r.heard = "navigation" /\ r.verdict = "none"
    BY DEF Request
  <2>3. NewRequest(r)
    <3>1. "navigation" \in asked'[c]
      BY <1>3, Asked DEF How
    <3> HIDE DEF r
    <3>2. CancelFits(r)'
      BY <1>0, <1>1, <1>u, <2>2, <3>1, TagsAssumption DEF CancelFits, How, ActionKinds, MotionKinds
    <3>3. ASSUME Quiet(c)' PROVE goal'[c] # "canceling" /\ \A y \in cancels' : y.goal = c => y = r
      <4>1. Quiet(c)
        BY <3>3 DEF Quiet, Onward
      <4>2. goal[c] # "canceling"
        BY <1>1, <4>1 DEF StopInv, CancelsInv, CancelingIsAwaited
      <4>3. \A y \in cancels : y.goal # c
        BY <1>1, <4>1 DEF StopInv, CancelsInv, Heard
      <4> QED BY <1>0, <2>1, <4>2, <4>3
    <3>4. Heard(r)'
      BY <1>0, <1>u, <1>2, <2>2 DEF Heard
    <3> QED BY <1>0, <1>g, <2>2, <3>2, <3>3, <3>4 DEF NewRequest
  <2>4. \A x \in cancels' : x \in cancels \/ NewRequest(x)
    BY <2>1, <2>3
  <2>5. \A x \in cancels : x.goal = undock_active'.id => undock_active'.handle
    BY <1>0 DEF StopInv, CancelsInv, CancelFits
  <2>6. \A x \in cancels : Heard(x) => Heard(x)'
    BY <1>0, <1>1, <1>2 DEF Heard
  <2>7. \A g \in Command : goal'[g] = "canceling" /\ CancelingIsAwaited(g) => CancelingIsAwaited(g)'
    BY <1>0, <1>1, <1>2 DEF CancelingIsAwaited
  <2>8. \A g \in Command : goal'[g] = "canceling" => goal[g] = "canceling"
    BY <1>0
  <2> QED BY <2>4, <2>5, <2>6, <2>7, <2>8, CancelsKept DEF StopInv
<1> QED BY <1>5, <1>6, <1>7 DEF StopInv, Onward

\* A destination that is accepted was never asked to cancel where somebody heard it.
LEMMA GoalAcceptedKeeps ==
  ASSUME TypeInv, ReplyInv, GoalInv, StopInv, Onward, NEW c \in Command, GoalAccepted(c)
  PROVE  StopInv'
<1> USE DEF TypeInv
<1> DEFINE cancel == nav_pending.id = c /\ nav_pending.cancel
<1>0. /\ UNCHANGED <<kind, target, goal, undock_active>>
      /\ kind[c] = "navigate_to_pose" /\ wait[c] = "response" /\ wait'[c] = "result" /\ goal[c] \in Begun
      /\ \A d \in Command \ {c} : wait'[d] = wait[d]
  BY DEF GoalAccepted, histVars, TypeOK, Begun
<1>1. \A d \in Command : result'[d] = "succeeded" => result[d] = "succeeded"
  BY DEF GoalAccepted, Tell
<1>2. /\ active'.id = c /\ active'.stops = {}
      /\ active'.cancel_requested = cancel /\ active'.cancel_pending = cancel
  BY DEF GoalAccepted, NoNav
<1>3. Ask(IF cancel THEN {Request(c, "navigation")} ELSE {})
  BY DEF GoalAccepted
<1> HIDE DEF cancel
<1>u. undock_active.id # c
  BY <1>0, ConstantsAssumption DEF GoalInv
<1>n. \A x \in cancels : x.goal # c
  BY <1>0 DEF StopInv, CancelsInv, CancelFits
<1>q. Quiet(c) => goal[c] # "canceling"
  BY <1>0 DEF StopInv, CancelsInv, CancelingIsAwaited
<1>5. StopWaitsForItsGoal'
  BY <1>0, <1>1, SuccessKept DEF StopInv
<1>6. StopTargets'
  <2>1. undock_active.handle => undock_active.id \in Command
    BY DEF OwnerInv, UndockSlot, TypeOK, Undock, Id
  <2> QED BY <1>0, <1>2, <1>u, <2>1 DEF StopInv, StopTargets
<1>7. CancelsInv'
  <2> DEFINE r == Request(c, "navigation")
  <2>1. \A x \in cancels' : x \in cancels \/ (x = r /\ cancel)
    BY <1>3 DEF Ask
  <2>2. r.goal = c /\ r.heard = "navigation" /\ r.verdict = "none"
    BY DEF Request
  <2>3. ASSUME cancel PROVE NewRequest(r)
    <3>1. "navigation" \in asked'[c]
      BY <1>3, <2>3, Asked DEF How
    <3> HIDE DEF r
    <3>2. CancelFits(r)'
      BY <1>0, <1>u, <2>2, <3>1, TagsAssumption DEF CancelFits, How, ActionKinds, MotionKinds
    <3>3. Quiet(c)' => Quiet(c)
      BY DEF Quiet, Onward
    <3>4. Heard(r)'
      BY <1>0, <1>u, <1>2, <2>2, <2>3 DEF Heard
    <3> QED BY <1>0, <1>n, <1>q, <2>1, <2>2, <3>2, <3>3, <3>4 DEF NewRequest
  <2>4. \A x \in cancels' : x \in cancels \/ NewRequest(x)
    BY <2>1, <2>3
  <2>5. \A x \in cancels : x.goal = undock_active'.id => undock_active'.handle
    BY <1>0 DEF StopInv, CancelsInv, CancelFits
  <2>6. \A x \in cancels : Heard(x) => Heard(x)'
    BY <1>0, <1>n, <1>2 DEF Heard
  <2>7. \A g \in Command :
          goal'[g] = "canceling" /\ Quiet(g) /\ CancelingIsAwaited(g) => CancelingIsAwaited(g)'
    BY <1>0, <1>q, <1>2 DEF CancelingIsAwaited
  <2>8. \A g \in Command : goal'[g] = "canceling" => goal[g] = "canceling"
    BY <1>0
  <2> QED BY <2>4, <2>5, <2>6, <2>7, <2>8, CancelsKept DEF StopInv
<1> QED BY <1>5, <1>6, <1>7 DEF StopInv, Onward

\* A destination's result is "succeeded" or "canceled" only when it is over.
LEMMA OnResultKeeps ==
  ASSUME TypeInv, ReplyInv, GoalInv, StopInv, Onward, NEW c \in Command, OnResult(c)
  PROVE  StopInv'
<1> USE DEF TypeInv
<1>0. /\ UNCHANGED <<kind, target, goal, undock_active, cancels>>
      /\ kind[c] = "navigate_to_pose"
      /\ \A d \in Command : wait'[d] \in {wait[d], "none"}
  BY DEF OnResult, histVars, cancelVars, TypeOK
<1>1. active' = active \/ (active.id = c /\ active' = NoNav)
  BY DEF OnResult
<1>2. \A d \in Command : kind[d] = "stop" /\ result'[d] = "succeeded" =>
        result[d] = "succeeded" \/ (target[d] = c /\ goal[c] = "over")
  <2> SUFFICES ASSUME NEW d \in Command, kind[d] = "stop", result'[d] = "succeeded", result[d] # "succeeded"
               PROVE  target[d] = c /\ goal[c] = "over"
    OBVIOUS
  <2>1. d # c
    BY <1>0
  <2>2. PICK outcome \in GoalOutcomes(c) :
          Tell(Nobody, [e \in IF active.id = c THEN {c} \cup active.stops ELSE {} |->
                          IF e = c THEN outcome ELSE stop_result(outcome)])
    BY DEF OnResult
  <2>3. active.id = c /\ d \in active.stops /\ stop_result(outcome) = "succeeded"
    BY <2>1, <2>2 DEF Tell
  <2>4. target[d] = c
    BY <2>3 DEF StopInv, StopTargets
  <2>5. outcome # "failed"
    BY <2>3 DEF stop_result
  <2> QED BY <2>2, <2>4, <2>5 DEF GoalOutcomes
<1>5. StopWaitsForItsGoal'
  BY <1>0, <1>2, SuccessKept DEF StopInv, Ended
<1>6. StopTargets'
  <2>1. undock_active.handle => undock_active.id \in Command
    BY DEF OwnerInv, UndockSlot, TypeOK, Undock, Id
  <2> QED BY <1>0, <1>1, <2>1 DEF StopInv, StopTargets, NoNav
<1>7. CancelsInv'
  <2>1. \A x \in cancels : x.goal # None
    BY ConstantsAssumption DEF TypeOK, Cancel
  <2>2. \A x \in cancels : Heard(x) => Heard(x)'
    BY <1>0, <1>1, <2>1 DEF Heard, NoNav
  <2>3. \A g \in Command : CancelingIsAwaited(g) => CancelingIsAwaited(g)'
    BY <1>0, <1>1, ConstantsAssumption DEF CancelingIsAwaited, NoNav
  <2>4. \A x \in cancels : x.goal = undock_active'.id => undock_active'.handle
    BY <1>0 DEF StopInv, CancelsInv, CancelFits
  <2> QED BY <1>0, <2>2, <2>3, <2>4, CancelsKept DEF StopInv
<1> QED BY <1>5, <1>6, <1>7 DEF StopInv, Onward

\* A new undock has no stops and no cancels yet.
LEMMA UndockRequestKeeps ==
  ASSUME TypeInv, ReplyInv, GoalInv, StopInv, Onward, NEW c \in Command, UndockRequest(c)
  PROVE  StopInv'
<1> USE DEF TypeInv
<1>0. /\ kind[c] = "unsent" /\ kind'[c] = "undock" /\ goal'[c] = "sent"
      /\ \A d \in Command \ {c} : kind'[d] = kind[d] /\ goal'[d] = goal[d] /\ wait'[d] = wait[d]
      /\ UNCHANGED <<target, result, active, cancels>>
  BY DEF UndockRequest, Receive, histVars, replyVars, cancelVars, TypeOK
<1>1. active.id = None /\ active.stops = {}
  BY DEF UndockRequest, UndockFree, ReplyInv, ActiveWaits
<1>2. undock_active'.id = c /\ ~undock_active'.handle /\ undock_active'.stops = {}
  BY DEF UndockRequest, NoUndock
<1>n. \A x \in cancels : x.goal # c
  BY <1>0 DEF StopInv, CancelsInv, CancelFits, ActionKinds, MotionKinds
<1>5. StopWaitsForItsGoal'
  BY <1>0, SuccessKept DEF StopInv
<1>6. StopTargets'
  BY <1>0, <1>1, <1>2 DEF StopInv, StopTargets
<1>7. CancelsInv'
  <2>1. \A x \in cancels : Heard(x) => Heard(x)'
    BY <1>0, <1>2, <1>n DEF Heard
  <2>2. \A g \in Command : goal'[g] = "canceling" => g # c /\ goal[g] = "canceling"
    BY <1>0
  <2>3. \A g \in Command : goal'[g] = "canceling" /\ CancelingIsAwaited(g) => CancelingIsAwaited(g)'
    BY <1>0, <1>2, <2>2 DEF CancelingIsAwaited
  <2>4. \A x \in cancels : x.goal = undock_active'.id => undock_active'.handle
    BY <1>2, <1>n
  <2> QED BY <1>0, <2>1, <2>2, <2>3, <2>4, CancelsKept DEF StopInv
<1> QED BY <1>5, <1>6, <1>7 DEF StopInv, Onward

\* An undock is released, and its stops are answered, when it has ended.
LEMMA UndockEndKeeps ==
  ASSUME TypeInv, GoalInv, StopInv, Onward, NEW c \in Command, UndockDeclined(c) \/ OnUndockResult(c)
  PROVE  StopInv'
<1> USE DEF TypeInv
<1>0. /\ UNCHANGED <<kind, target, goal, active, cancels>>
      /\ kind[c] = "undock" /\ goal[c] \in Ended /\ undock_active.id = c
      /\ undock_active' = NoUndock
      /\ \A d \in Command : wait'[d] \in {wait[d], "none"}
  BY DEF UndockDeclined, OnUndockResult, histVars, cancelVars, TypeOK, OwnerInv, UndockOwner, Ended
<1>1. \A d \in Command : kind[d] = "stop" /\ result'[d] = "succeeded" =>
        result[d] = "succeeded" \/ d \in undock_active.stops
  <2>1. CASE UndockDeclined(c)
    BY <2>1 DEF UndockDeclined, Tell, To
  <2>2. CASE OnUndockResult(c)
    <3>1. PICK outcome \in Outcomes :
            Tell(Nobody, [d \in {c} \cup undock_active.stops |->
                            IF d = c THEN outcome ELSE stop_result(outcome)])
      BY <2>2 DEF OnUndockResult
    <3> QED BY <1>0, <3>1 DEF Tell
  <2> QED BY <2>1, <2>2
<1>5. StopWaitsForItsGoal'
  BY <1>0, <1>1, SuccessKept DEF StopInv, StopTargets
<1>6. StopTargets'
  BY <1>0 DEF StopInv, StopTargets, NoUndock
<1>7. CancelsInv'
  <2>1. \A x \in cancels : x.goal # None
    BY ConstantsAssumption DEF TypeOK, Cancel
  <2>2. \A x \in cancels : Heard(x) => Heard(x)'
    BY <1>0, <2>1 DEF Heard, NoUndock
  <2>3. \A g \in Command : CancelingIsAwaited(g) => CancelingIsAwaited(g)'
    BY <1>0, ConstantsAssumption DEF CancelingIsAwaited, NoUndock
  <2>4. \A x \in cancels : x.goal # undock_active'.id
    BY <1>0, <2>1 DEF NoUndock
  <2> QED BY <1>0, <2>2, <2>3, <2>4, CancelsKept DEF StopInv
<1> QED BY <1>5, <1>6, <1>7 DEF StopInv, Onward

\* An undock that is accepted was never asked to cancel; the first stop that came
\* meanwhile hears the request that goes out now.
LEMMA UndockAcceptedKeeps ==
  ASSUME TypeInv, ReplyInv, GoalInv, StopInv, Onward, NEW c \in Command, UndockAccepted(c)
  PROVE  StopInv'
<1> USE DEF TypeInv
<1> DEFINE u == [undock_active EXCEPT !.handle = TRUE, !.cancel_requested =
                   @ \/ captured[c].motor # motor_disable_generation]
           heard == IF u.stops = {} THEN "unheard" ELSE u.lead
<1>0. /\ UNCHANGED <<kind, target, goal, active>>
      /\ kind[c] = "undock" /\ wait[c] = "response" /\ wait'[c] = "result" /\ goal[c] \in Begun
      /\ undock_active.id = c
      /\ \A d \in Command \ {c} : wait'[d] = wait[d]
  BY DEF UndockAccepted, histVars, TypeOK, Begun, OwnerInv, UndockOwner
<1>h. ~undock_active.handle
  BY <1>0 DEF StopInv, StopTargets
<1>n. \A x \in cancels : x.goal # c
  BY <1>0, <1>h DEF StopInv, CancelsInv, CancelFits
<1>q. Quiet(c) => goal[c] # "canceling"
  BY <1>0, <1>h DEF StopInv, CancelsInv, CancelingIsAwaited
<1>a. active.id # c
  BY <1>0, ConstantsAssumption DEF ReplyInv, ActiveWaits
<1>1. /\ u.id = c /\ u.handle /\ u.stops = undock_active.stops /\ u.lead = undock_active.lead
  BY <1>0 DEF TypeOK, Undock
<1>2. /\ undock_active'.id = c /\ undock_active'.handle
      /\ \/ /\ undock_active'.stops = undock_active.stops
            /\ undock_active'.lead = undock_active.lead
            /\ Ask({Request(c, heard)}) \/ Ask({})
         \/ undock_active'.stops = {} /\ UNCHANGED cancels
  <2> HIDE DEF u, heard
  <2>1. \/ undock_active' = u /\ Ask(IF u.cancel_requested THEN {Request(c, heard)} ELSE {})
        \/ undock_active' = [u EXCEPT !.stops = {}] /\ UNCHANGED cancels
    BY DEF UndockAccepted, u, heard
  <2>2. CASE undock_active' = u /\ Ask(IF u.cancel_requested THEN {Request(c, heard)} ELSE {})
    BY <1>1, <2>2
  <2>3. CASE undock_active' = [u EXCEPT !.stops = {}] /\ UNCHANGED cancels
    <3>1. u \in Undock
      BY DEF u, TypeOK, Undock
    <3> QED BY <1>1, <2>3, <3>1 DEF Undock
  <2> QED BY <2>1, <2>2, <2>3
<1>3. \A d \in Command : result'[d] = "succeeded" => result[d] = "succeeded"
  BY DEF UndockAccepted, Tell, Nobody, To
<1>4. heard = IF undock_active.stops = {} THEN "unheard" ELSE undock_active.lead
  BY <1>1
<1> HIDE DEF u, heard
<1>5. StopWaitsForItsGoal'
  BY <1>0, <1>3, SuccessKept DEF StopInv
<1>6. StopTargets'
  BY <1>0, <1>2 DEF StopInv, StopTargets
<1>7. CancelsInv'
  <2>1. ASSUME NEW x \in cancels', x \notin cancels PROVE NewRequest(x)
    <3>1. /\ x = Request(c, heard) /\ Ask({Request(c, heard)})
          /\ undock_active'.stops = undock_active.stops
      BY <1>2, <2>1 DEF Ask
    <3>2. x.goal = c /\ x.heard = heard /\ x.verdict = "none"
      BY <3>1 DEF Request
    <3>3. How(heard) \in asked'[c]
      BY <3>1, Asked
    <3>4. heard = "unheard" \/ (heard = undock_active.lead /\ heard \in undock_active.stops)
      BY <1>0, <1>h, <1>4 DEF StopInv, StopTargets
    <3>5. heard \in Command => target[heard] = c /\ kind[heard] = "stop"
      BY <1>0, <3>4, TagsAssumption DEF StopInv, StopTargets, ReplyInv, StopsWaiting
    <3>6. CancelFits(x)'
      BY <1>0, <1>2, <3>2, <3>3, <3>5 DEF CancelFits, ActionKinds, MotionKinds
    <3>7. ASSUME Quiet(c)' PROVE goal'[c] # "canceling" /\ Heard(x)'
      <4>1. heard # "unheard"
        BY <3>3, <3>7 DEF Quiet, How
      <4>2. Quiet(c)
        BY <3>7 DEF Quiet, Onward
      <4> QED BY <1>0, <1>a, <1>q, <3>1, <3>2, <3>4, <4>1, <4>2 DEF Heard
    <3>8. \A y \in cancels' : y.goal = c => y = x
      BY <1>n, <3>1 DEF Ask
    <3> QED BY <1>0, <3>2, <3>6, <3>7, <3>8 DEF NewRequest
  <2>2. \A x \in cancels : Heard(x) => Heard(x)'
    BY <1>0, <1>n, <1>2 DEF Heard
  <2>3. \A g \in Command :
          goal'[g] = "canceling" /\ Quiet(g) /\ CancelingIsAwaited(g) => CancelingIsAwaited(g)'
    BY <1>0, <1>q, <1>2 DEF CancelingIsAwaited
  <2>4. \A g \in Command : goal'[g] = "canceling" => goal[g] = "canceling"
    BY <1>0
  <2> QED BY <1>2, <2>1, <2>2, <2>3, <2>4, CancelsKept DEF StopInv
<1> QED BY <1>5, <1>6, <1>7 DEF StopInv, Onward

\* A cancel reply answers a stop, as succeeded only if the goal was over, and takes
\* it from a goal that is not canceling.
LEMMA CancelReplyKeeps ==
  ASSUME TypeInv, StopInv, Onward, NEW x \in cancels, CancelReply(x)
  PROVE  StopInv'
<1> USE DEF TypeInv
<1>0. /\ UNCHANGED <<kind, target, goal, wait, asked>>
      /\ cancels' = cancels \ {x}
      /\ x.goal \in Command /\ CancelFits(x)
      /\ Quiet(x.goal) => Agrees(x)
  BY DEF CancelReply, histVars, TypeOK, Cancel, StopInv, CancelsInv
<1>q. \A g : Quiet(g)' <=> Quiet(g)
  BY <1>0 DEF Quiet
<1>1. ASSUME UNCHANGED <<active, undock_active, result>> PROVE StopInv'
  <2>1. StopWaitsForItsGoal'
    BY <1>0, <1>1, SuccessKept DEF StopInv
  <2>2. StopTargets'
    BY <1>0, <1>1 DEF StopInv, StopTargets
  <2>3. \A y \in cancels : Heard(y) => Heard(y)'
    BY <1>1 DEF Heard
  <2>4. \A g \in Command : CancelingIsAwaited(g) => CancelingIsAwaited(g)'
    BY <1>0, <1>1 DEF CancelingIsAwaited
  <2>5. \A y \in cancels : y.goal = undock_active'.id => undock_active'.handle
    BY <1>1 DEF StopInv, CancelsInv, CancelFits
  <2> QED BY <1>0, <2>1, <2>2, <2>3, <2>4, <2>5, CancelsKept DEF StopInv, Onward
<1>2. ASSUME x.heard \in Command, Claimed(x.heard), Claim(x.heard), x.verdict # "canceling",
             Tell(Nobody, To({x.heard}, IF x.verdict = "finished" THEN "succeeded" ELSE "failed"))
      PROVE  StopInv'
  <2>0. /\ active'.id = active.id /\ active'.stops = active.stops \ {x.heard}
        /\ active'.cancel_pending = active.cancel_pending
        /\ active'.cancel_requested = active.cancel_requested
        /\ undock_active'.id = undock_active.id /\ undock_active'.handle = undock_active.handle
        /\ undock_active'.lead = undock_active.lead
        /\ undock_active'.stops = IF x.heard \in active.stops THEN undock_active.stops
                                  ELSE undock_active.stops \ {x.heard}
    BY <1>2 DEF Claim, TypeOK, Nav, Undock
  <2>t. target[x.heard] = x.goal
    BY <1>0, <1>2 DEF CancelFits
  <2>v. Quiet(x.goal) => (x.verdict = "finished" => goal[x.goal] = "over") /\ goal[x.goal] # "canceling"
    <3>1. x.verdict \in {"none", "finished", "refused"}
      BY <1>2 DEF TypeOK, Cancel
    <3> QED BY <1>0, <3>1 DEF Agrees
  <2>1. StopWaitsForItsGoal'
    <3>1. \A d \in Command : result'[d] = "succeeded" =>
            result[d] = "succeeded" \/ (d = x.heard /\ x.verdict = "finished")
      BY <1>2 DEF Tell, To
    <3> QED BY <1>0, <2>t, <2>v, <3>1, SuccessKept DEF StopInv, Ended
  <2>2. StopTargets'
    <3>1. ~undock_active.handle => x.heard \notin undock_active.stops
      BY <1>0, <2>t DEF StopInv, StopTargets, CancelFits
    <3> QED BY <1>0, <2>0, <3>1 DEF StopInv, StopTargets
  <2>3. ASSUME NEW y \in cancels \ {x}, Quiet(y.goal), Heard(y) PROVE Heard(y)'
    <3>1. y.heard # x.heard
      <4>1. y.heard = x.heard => y.goal = x.goal
        BY <1>2, <2>t DEF StopInv, CancelsInv, CancelFits
      <4> QED BY <1>0, <2>3, <4>1 DEF Agrees
    <3> QED BY <2>0, <2>3, <3>1 DEF Heard
  <2>4. ASSUME NEW g \in Command, goal[g] = "canceling", Quiet(g), CancelingIsAwaited(g)
        PROVE  CancelingIsAwaited(g)'
    <3>1. g # x.goal
      BY <2>4, <2>v
    <3>2. g = active.id => x.heard \notin active.stops
      BY <2>t, <3>1 DEF StopInv, StopTargets
    <3>3. g = undock_active.id => x.heard \notin undock_active.stops
      BY <2>t, <3>1 DEF StopInv, StopTargets
    <3> QED BY <1>0, <2>0, <2>4, <3>2, <3>3 DEF CancelingIsAwaited
  <2>5. \A y \in cancels : y.goal = undock_active'.id => undock_active'.handle
    BY <2>0 DEF StopInv, CancelsInv, CancelFits
  <2> QED BY <1>0, <2>1, <2>2, <2>3, <2>4, <2>5, CancelsKept DEF StopInv, Onward
<1>3. ASSUME x.heard = "navigation", active.id = x.goal, x.verdict \in {"none", "refused"},
             active' = [active EXCEPT !.cancel_pending = FALSE], UNCHANGED <<undock_active, result>>
      PROVE  StopInv'
  <2>0. /\ active'.id = active.id /\ active'.stops = active.stops /\ ~active'.cancel_pending
        /\ active'.cancel_requested = active.cancel_requested
    BY <1>3 DEF TypeOK, Nav
  <2>1. StopWaitsForItsGoal'
    BY <1>0, <1>3, SuccessKept DEF StopInv
  <2>2. StopTargets'
    BY <1>0, <1>3, <2>0 DEF StopInv, StopTargets
  <2>3. ASSUME NEW y \in cancels \ {x}, Quiet(y.goal), Heard(y) PROVE Heard(y)'
    <3>1. y.goal # active.id
      BY <1>0, <1>3, <2>3 DEF Agrees
    <3> QED BY <1>3, <2>0, <2>3, <3>1 DEF Heard
  <2>4. ASSUME NEW g \in Command, goal[g] = "canceling", Quiet(g), CancelingIsAwaited(g)
        PROVE  CancelingIsAwaited(g)'
    <3>1. g # active.id
      BY <1>0, <1>3, <2>4 DEF Agrees
    <3> QED BY <1>0, <1>3, <2>0, <2>4, <3>1 DEF CancelingIsAwaited
  <2>5. \A y \in cancels : y.goal = undock_active'.id => undock_active'.handle
    BY <1>3 DEF StopInv, CancelsInv, CancelFits
  <2> QED BY <1>0, <2>1, <2>2, <2>3, <2>4, <2>5, CancelsKept DEF StopInv, Onward
<1>4. x.verdict \in {"none", "canceling", "finished", "refused"}
  BY DEF TypeOK, Cancel
<1> QED BY <1>1, <1>2, <1>3, <1>4 DEF CancelReply, OnCancelResponse, OnNavigationCancelResponse, replyVars

\* The server's verdict is about the goal as it is, and a goal begins to cancel
\* when whoever asked for it is waiting.
LEMMA AnswerCancelKeeps ==
  ASSUME TypeInv, StopInv, Onward, NEW x \in cancels, AnswerCancel(x)
  PROVE  StopInv'
<1> USE DEF TypeInv
<1>0. /\ UNCHANGED <<kind, target, wait, asked, active, undock_active, result>>
      /\ x.verdict = "none" /\ x.goal \in Command /\ x \in Cancel
      /\ \A g \in Command \ {x.goal} : goal'[g] = goal[g]
  BY DEF AnswerCancel, serverOnly, execVars, replyVars, histVars, TypeOK, Cancel
<1>v. \E v \in {"canceling", "refused", "finished"} :
        /\ cancels' \subseteq (cancels \ {x}) \cup {[x EXCEPT !.verdict = v]}
        /\ v = "canceling" => goal[x.goal] = "executing" /\ goal'[x.goal] = "canceling"
        /\ v = "refused" => goal[x.goal] = "executing" /\ goal'[x.goal] = "executing"
        /\ v = "finished" => goal[x.goal] # "executing" /\ goal'[x.goal] = goal[x.goal]
  BY <1>0 DEF AnswerCancel, TypeOK
<1>p. PICK v \in {"canceling", "refused", "finished"}, z \in Cancel :
        /\ cancels' \subseteq (cancels \ {x}) \cup {z}
        /\ z.goal = x.goal /\ z.heard = x.heard /\ z.verdict = v
        /\ v = "canceling" => goal[x.goal] = "executing" /\ goal'[x.goal] = "canceling"
        /\ v = "refused" => goal[x.goal] = "executing" /\ goal'[x.goal] = "executing"
        /\ v = "finished" => goal[x.goal] # "executing" /\ goal'[x.goal] = goal[x.goal]
  <2>1. PICK v \in {"canceling", "refused", "finished"} :
        /\ cancels' \subseteq (cancels \ {x}) \cup {[x EXCEPT !.verdict = v]}
        /\ v = "canceling" => goal[x.goal] = "executing" /\ goal'[x.goal] = "canceling"
        /\ v = "refused" => goal[x.goal] = "executing" /\ goal'[x.goal] = "executing"
        /\ v = "finished" => goal[x.goal] # "executing" /\ goal'[x.goal] = goal[x.goal]
    BY <1>v
  <2> DEFINE z == [x EXCEPT !.verdict = v]
  <2>2. z \in Cancel /\ z.goal = x.goal /\ z.heard = x.heard /\ z.verdict = v
    BY <1>0 DEF Cancel
  <2> HIDE DEF z
  <2> QED BY <2>1, <2>2 DEF z
<1>q. \A g : Quiet(g)' <=> Quiet(g)
  BY <1>0 DEF Quiet
<1>1. StopWaitsForItsGoal'
  BY <1>0, SuccessKept DEF StopInv
<1>2. StopTargets'
  BY <1>0 DEF StopInv, StopTargets
<1>3. ASSUME NEW y \in cancels' PROVE CancelFits(y)'
  <2>1. \A w \in cancels : CancelFits(w)'
    BY <1>0, FitsKept DEF StopInv, CancelsInv, CancelFits
  <2>2. CancelFits(z)'
    BY <1>p, <2>1 DEF CancelFits
  <2> QED BY <1>p, <1>3, <2>1, <2>2
<1>4. ASSUME NEW y \in cancels', Quiet(y.goal)' PROVE Agrees(y)' /\ Heard(y)'
  <2>1. CASE y \in cancels \ {x}
    <3>1. Agrees(y) /\ Heard(y) /\ y.goal \in Command
      BY <1>4, <1>q, <2>1 DEF StopInv, CancelsInv, TypeOK, Cancel
    <3>2. y.goal # x.goal
      BY <2>1, <3>1 DEF Agrees
    <3>3. goal'[y.goal] = goal[y.goal]
      BY <1>0, <3>1, <3>2
    <3>4. \A w \in cancels' : w.goal = y.goal => w = y
      BY <1>p, <3>1, <3>2 DEF Agrees
    <3> QED BY <1>0, <3>1, <3>3, <3>4 DEF Agrees, Heard
  <2>2. CASE y = z
    <3>1. Agrees(x) /\ Heard(x)
      BY <1>p, <1>4, <1>q, <2>2 DEF StopInv, CancelsInv
    <3>2. \A w \in cancels' : w.goal = y.goal => w = y
      BY <1>p, <2>2, <3>1 DEF Agrees
    <3>3. goal'[x.goal] \in Begun /\ (v = "finished" => goal'[x.goal] = "over") /\ (v = "refused" => goal'[x.goal] # "canceling")
      BY <1>0, <1>p, <3>1 DEF Agrees, Begun, Moving
    <3> QED BY <1>0, <1>p, <2>2, <3>1, <3>2, <3>3 DEF Agrees, Heard
  <2> QED BY <1>p, <1>4, <2>1, <2>2
<1>5. ASSUME NEW g \in Command, Quiet(g)' PROVE CancelingIsAwaited(g)'
  <2>1. CASE goal'[g] = goal[g]
    BY <1>0, <1>5, <1>q, <2>1 DEF StopInv, CancelsInv, CancelingIsAwaited
  <2>2. CASE g = x.goal
    <3>1. CancelFits(x) /\ Heard(x)
      BY <1>5, <1>q, <2>2 DEF StopInv, CancelsInv
    <3> QED BY <1>0, <2>2, <3>1 DEF CancelFits, Heard, CancelingIsAwaited
  <2> QED BY <1>0, <2>1, <2>2
<1> QED BY <1>1, <1>2, <1>3, <1>4, <1>5 DEF StopInv, CancelsInv, Onward

\* A cancel that is sent for a map transaction is heard by nobody.
LEMMA MapRequestUnheard ==
  ASSUME TypeInv, MapInv, GoalInv, Onward, NEW requests, Ask(requests), NEW x \in MapCancelRequests, x \in requests
  PROVE  Unheard(x)
<1> USE DEF TypeInv
<1>1. x = Request(map_active.id, "unheard") /\ map_active.id # None
  BY DEF MapCancelRequests
<1>2. map_active.id \in Command /\ kind[map_active.id] = "set_initial_pose"
  BY <1>1 DEF TypeOK, Map, Id, MapInv
<1>3. map_active.id # undock_active.id
  BY <1>1, <1>2 DEF GoalInv
<1>4. "unheard" \in asked'[map_active.id]
  BY <1>1, <1>2, Asked DEF How
<1>5. x.goal = map_active.id /\ x.heard = "unheard"
  BY <1>1 DEF Request
<1> QED BY <1>2, <1>3, <1>4, <1>5 DEF Unheard, ActionKinds

\* So is the one a motor disable sends to a goal the executor has a handle of.
LEMMA HeldRequestUnheard ==
  ASSUME TypeInv, ReplyInv, GoalInv, Onward, NEW requests, Ask(requests), NEW g \in GoalsHeld,
         Request(g, "unheard") \in requests
  PROVE  Unheard(Request(g, "unheard"))
<1> USE DEF TypeInv
<1> DEFINE x == Request(g, "unheard")
<1>1. g \in Command
  BY DEF GoalsHeld
<1>2. "unheard" \in asked'[g]
  BY <1>1, Asked DEF How
<1>3. x.goal = g /\ x.heard = "unheard"
  BY DEF Request
<1>4. kind[g] \in MotionKinds /\ (kind[g] = "navigate_to_pose" => wait[g] # "response")
  BY <1>1, ConstantsAssumption DEF GoalsHeld, ReplyInv, ActiveWaits, GoalInv, MotionKinds
<1>5. kind[g] = "navigate_to_pose" => wait'[g] # "response"
  BY <1>1, <1>4 DEF Onward
<1>6. g = undock_active.id => undock_active.handle
  BY <1>1, ConstantsAssumption DEF GoalsHeld, ReplyInv, ActiveWaits, GoalInv
<1> HIDE DEF x
<1>7. Unheard(x)
  BY <1>1, <1>2, <1>3, <1>4, <1>5, <1>6 DEF Unheard, ActionKinds
<1> QED BY <1>7 DEF x

\* The undock watchdog and the server's cancel frame likewise.
LEMMA UndockRequestsUnheard ==
  ASSUME TypeInv, ReplyInv, GoalInv, Onward, Ask(UndockCancelRequests), NEW x \in UndockCancelRequests
  PROVE  Unheard(x)
<1>1. undock_active.handle /\ x = Request(undock_active.id, "unheard")
  BY DEF UndockCancelRequests
<1>2. undock_active.id \in GoalsHeld
  BY <1>1 DEF GoalsHeld, TypeInv, OwnerInv, UndockSlot, TypeOK, Undock, Id
<1> QED BY <1>1, <1>2, HeldRequestUnheard

\* handle(): stops are set to wait, and motors off asks unheard.
LEMMA HandleStopInv ==
  ASSUME TypeInv, MotionInv, ReplyInv, MapInv, GoalInv, StopInv, Onward, NEW c \in Command, Handle(c)
  PROVE  StopInv'
<1> USE DEF TypeInv
<1>r. /\ kind[c] = "unsent" /\ result[c] = "none" /\ target[c] = None
      /\ \A d \in Command \ {c} : kind'[d] = kind[d]
  BY Received DEF ReplyInv, Futures, Unreplied, StopInv, Unsent
<1>1. CASE Stop(c)
  <2>1. CASE StopNothing(c)
    <3>1. /\ UNCHANGED <<goal, cancels, active, undock_active>> /\ target'[c] = None
          /\ \A d \in Command \ {c} : result'[d] = result[d]
      BY <1>1, <2>1 DEF Stop, StopNothing, cancelVars, TypeOK, Tell, To
    <3> QED BY <1>r, <3>1, StopKept DEF SlotsKept
  <2> QED BY <1>1, <2>1, StopUndockKeeps, StopNavigationKeeps DEF Stop
<1>2. CASE UndockRequest(c)
  BY <1>2, UndockRequestKeeps
<1>3. CASE MotorDisable(c)
  <2>1. /\ UNCHANGED <<goal, target>> /\ kind'[c] = "motor_disable"
        /\ \A d \in Command \ {c} : result'[d] = result[d]
    BY <1>3 DEF MotorDisable, Receive, replyVars, Tell, To, Nobody, TypeOK
  <2>2. SlotsKept
    BY <1>3 DEF MotorDisable, SlotsKept, TypeOK, Nav, Undock
  <2>3. ASSUME NEW x \in cancels', x \notin cancels PROVE Unheard(x)
    <3>1. Ask(MapCancelRequests \cup {Request(g, "unheard") : g \in GoalsHeld})
      BY <1>3 DEF MotorDisable
    <3>2. x \in MapCancelRequests \/ \E g \in GoalsHeld : x = Request(g, "unheard")
      BY <2>3, <3>1 DEF Ask
    <3> QED BY <3>1, <3>2, MapRequestUnheard, HeldRequestUnheard
  <2> QED BY <1>r, <2>1, <2>2, <2>3, StopKept
<1>4. CASE MapStop(c)
  <2>1. /\ UNCHANGED <<goal, target, active, undock_active>>
        /\ \A d \in Command \ {c} : result'[d] = result[d]
    BY <1>4 DEF MapStop, Tell, To
  <2>2. \A x \in cancels' : x \in cancels \/ Unheard(x)
    <3>1. Ask(MapCancelRequests)
      BY <1>4 DEF MapStop
    <3> QED BY <3>1, MapRequestUnheard DEF Ask
  <2> QED BY <1>r, <2>1, <2>2, StopKept DEF SlotsKept
<1>5. CASE ~Stop(c) /\ ~UndockRequest(c) /\ ~MotorDisable(c) /\ ~MapStop(c)
  <2>1. /\ UNCHANGED <<undock_active, cancels, target>>
        /\ \A d \in Command : goal'[d] = goal[d] \/ goal'[d] = "sent"
    BY <1>5 DEF Handle, Refuse, CallDockService, Navigate, SetInitialPose, SetLidarPower,
      execVars, serverVars, cancelVars, histVars, TypeOK
  <2>2. SlotsKept
    BY <1>5, <2>1 DEF Handle, Refuse, CallDockService, Navigate, SetInitialPose, SetLidarPower,
      execVars, SlotsKept, TypeOK, Nav
  <2>3. \A d \in Command : result'[d] = "succeeded" => result[d] = "succeeded"
    BY <1>5 DEF Handle, Refuse, CallDockService, Navigate, SetInitialPose, SetLidarPower,
      replyVars, Tell, To, Nobody
  <2> QED BY <1>r, <2>1, <2>2, <2>3, StopKept
<1> QED BY <1>1, <1>2, <1>3, <1>4, <1>5

\* Callbacks: the four that answer stops, and those that answer their own command.
LEMMA CallbackStopInv ==
  ASSUME TypeInv, ReplyInv, MapInv, GoalInv, StopInv, Onward, NEW c \in Command, Callback(c)
  PROVE  StopInv'
<1> USE DEF TypeInv
<1>0. ASSUME kind[c] # "stop", UNCHANGED <<kind, goal>>, SlotsKept,
             \A d \in Command \ {c} : result'[d] = result[d],
             \A x \in cancels' : x \in cancels \/ Unheard(x)
      PROVE  StopInv'
  BY <1>0, StopKept
<1>k. kind[c] # "stop" /\ UNCHANGED <<kind, goal>>
  BY DEF Callback, GoalResponseError, GoalDeclined, GoalSuperseded, GoalAccepted, OnResult,
    UndockReplyError, UndockDeclined, UndockAccepted, OnUndockResult, MapResponse, MapResult,
    OnDockServiceResult, OnLidarResult, ReplyInv, Futures
<1>1. CASE GoalSuperseded(c)
  <2>1. UNCHANGED <<active, undock_active>> /\ \A d \in Command \ {c} : result'[d] = result[d]
    BY <1>1 DEF GoalSuperseded, execVars, Tell, To, Nobody
  <2>2. kind[c] = "navigate_to_pose" /\ wait'[c] = "none" /\ undock_active.id # c
    BY <1>1, ConstantsAssumption DEF GoalSuperseded, TypeOK, GoalInv
  <2>3. Ask({Request(c, "unheard")}) /\ "unheard" \in asked'[c]
    BY <1>1, Asked DEF GoalSuperseded, How
  <2>4. \A x \in cancels' : x \in cancels \/ (x.goal = c /\ x.heard = "unheard")
    BY <2>3 DEF Ask, Request
  <2>5. \A x \in cancels' : x \in cancels \/ Unheard(x)
    BY <2>2, <2>3, <2>4 DEF Unheard, ActionKinds, MotionKinds
  <2> QED BY <1>0, <1>k, <2>1, <2>5 DEF SlotsKept
<1>2. CASE MapResponse(c)
  <2>1. UNCHANGED <<active, undock_active>> /\ \A d \in Command \ {c} : result'[d] = result[d]
    BY <1>2 DEF MapResponse, Tell, To, Nobody
  <2>2. kind[c] = "set_initial_pose" /\ undock_active.id # c
    BY <1>2, ConstantsAssumption DEF MapResponse, GoalInv
  <2>3. UNCHANGED cancels \/ Ask({}) \/ (Ask({Request(c, "unheard")}) /\ "unheard" \in asked'[c])
    BY <1>2, Asked DEF MapResponse, cancelVars, How
  <2>4. \A x \in cancels' : x \in cancels \/ (x.goal = c /\ x.heard = "unheard" /\ "unheard" \in asked'[c])
    BY <2>3 DEF Ask, Request
  <2>5. \A x \in cancels' : x \in cancels \/ Unheard(x)
    BY <2>2, <2>4 DEF Unheard, ActionKinds
  <2> QED BY <1>0, <1>k, <2>1, <2>5 DEF SlotsKept
<1>3. CASE UndockReplyError(c)
  <2>1. active' = active /\ UNCHANGED result /\ SlotsKept
    BY <1>3, ZenonT(30) DEF UndockReplyError, FailUndock, replyVars, SlotsKept, TypeOK, Undock
  <2>2. UNCHANGED cancels \/ Ask(UndockCancelRequests)
    BY <1>3 DEF UndockReplyError, FailUndock, cancelVars
  <2>3. \A x \in cancels' : x \in cancels \/ Unheard(x)
    BY <2>2, UndockRequestsUnheard DEF Ask
  <2> QED BY <1>0, <1>k, <2>1, <2>3
<1>4. CASE GoalResponseError(c) \/ GoalDeclined(c) \/ MapResult(c) \/ OnDockServiceResult(c) \/ OnLidarResult(c)
  <2>1. UNCHANGED <<active, undock_active, cancels>>
    BY <1>4 DEF GoalResponseError, GoalDeclined, MapResult, OnDockServiceResult, OnLidarResult, execVars, cancelVars
  <2>2. \A d \in Command \ {c} : result'[d] = result[d]
    BY <1>4 DEF GoalResponseError, GoalDeclined, MapResult, OnDockServiceResult, OnLidarResult, Tell, To, Nobody
  <2> QED BY <1>0, <1>k, <2>1, <2>2 DEF SlotsKept
<1> QED BY <1>1, <1>2, <1>3, <1>4, GoalAcceptedKeeps, OnResultKeeps, UndockEndKeeps, UndockAcceptedKeeps
  DEF Callback

\* Every step.
LEMMA NextStopInv ==
  TypeInv /\ MotionInv /\ ReplyInv /\ MapInv /\ GoalInv /\ StopInv /\ [Next]_vars => StopInv'
<1> SUFFICES ASSUME TypeInv, MotionInv, ReplyInv, MapInv, GoalInv, StopInv, [Next]_vars PROVE StopInv'
  OBVIOUS
<1> USE DEF TypeInv
<1>o. Onward
  BY GoesOnward DEF StopInv
<1>0. ASSUME UNCHANGED <<kind, result>>, SlotsKept,
             \A g \in Command : goal'[g] = "canceling" => goal[g] = "canceling",
             \A x \in cancels' : x \in cancels \/ Unheard(x)
      PROVE  StopInv'
  BY <1>0, <1>o, StopKept
<1>1. ASSUME NEW c \in Command, CancelFrame(c) PROVE StopInv'
  <2>1. CASE CancelMap(c)
    <3>1. UNCHANGED <<kind, result, active, undock_active, goal>> /\ Ask(MapCancelRequests)
      BY <2>1 DEF CancelMap, replyVars
    <3> QED BY <1>o, <1>0, <3>1, MapRequestUnheard DEF SlotsKept, Ask
  <2>2. CASE CancelPending(c)
    BY <1>0, <2>2 DEF CancelPending, replyVars, serverVars, cancelVars, SlotsKept
  <2>3. CASE CancelUndock(c)
    <3>1. UNCHANGED <<kind, result, goal>> /\ SlotsKept /\ Ask(UndockCancelRequests)
      BY <2>3 DEF CancelUndock, replyVars, SlotsKept, TypeOK, Undock
    <3> QED BY <1>o, <1>0, <3>1, UndockRequestsUnheard DEF Ask
  <2> QED BY <1>o, <1>1, <2>1, <2>2, <2>3, CancelNavigationKeeps DEF CancelFrame
<1>2. ASSUME NEW c \in Command, Server(c) PROVE StopInv'
  <2>1. UNCHANGED <<kind, result, active, undock_active, cancels>>
    BY <1>2 DEF Server, Accept, Decline, GoalEnds, serverOnly, replyVars, execVars
  <2>2. \A g \in Command : goal'[g] = "canceling" => goal[g] = "canceling"
    BY <1>2 DEF Server, Accept, Decline, GoalEnds, TypeOK
  <2> QED BY <1>0, <2>1, <2>2 DEF SlotsKept
<1>3. CASE Timers
  <2>1. CASE CheckUndockHealth
    <3>1. UNCHANGED <<kind, result, goal>> /\ SlotsKept /\ Ask(UndockCancelRequests)
      BY <2>1 DEF CheckUndockHealth, FailUndock, replyVars, SlotsKept, TypeOK, Undock
    <3> QED BY <1>o, <1>0, <3>1, UndockRequestsUnheard DEF Ask
  <2>2. CASE CheckMapConnection
    <3>1. UNCHANGED <<kind, result, active, undock_active, goal>> /\ Ask(MapCancelRequests)
      BY <2>2 DEF CheckMapConnection, replyVars
    <3> QED BY <1>o, <1>0, <3>1, MapRequestUnheard DEF SlotsKept, Ask
  <2>3. ASSUME NEW context \in Contexts, BaseState(context) PROVE StopInv'
    <3>1. UNCHANGED <<kind, result, goal, cancels>> /\ SlotsKept
      BY <2>3 DEF BaseState, replyVars, serverVars, cancelVars, SlotsKept, TypeOK, Nav
    <3> QED BY <1>0, <3>1
  <2>4. ASSUME NEW ready, PollPath(ready) PROVE StopInv'
    <3> DEFINE a == IF path_query # None THEN [active EXCEPT !.path_valid = FALSE] ELSE active
    <3>1. a \in Nav /\ a.id = active.id /\ a.stops = active.stops
          /\ a.cancel_pending = active.cancel_pending /\ a.cancel_requested = active.cancel_requested
      BY DEF TypeOK, Nav
    <3>2. /\ UNCHANGED <<kind, result, goal, cancels, undock_active>>
          /\ active' = [a EXCEPT !.path_valid = FALSE] \/ active' = a
      BY <2>4 DEF PollPath, replyVars, serverVars, cancelVars
    <3> HIDE DEF a
    <3>3. SlotsKept
      BY <3>1, <3>2 DEF SlotsKept, Nav
    <3> QED BY <1>0, <3>2, <3>3
  <2>5. CASE OnNavigationPath
    <3>1. UNCHANGED <<kind, result, goal, cancels>> /\ SlotsKept
      BY <2>5 DEF OnNavigationPath, replyVars, serverVars, cancelVars, SlotsKept, TypeOK, Nav
    <3> QED BY <1>0, <3>1
  <2> QED BY <1>3, <2>1, <2>2, <2>3, <2>4, <2>5 DEF Timers
<1>4. CASE UNCHANGED vars
  BY <1>0, <1>4 DEF vars, replyVars, execVars, serverVars, cancelVars, SlotsKept
<1> QED BY <1>o, <1>1, <1>2, <1>3, <1>4, HandleStopInv, CallbackStopInv, AnswerCancelKeeps, CancelReplyKeeps
  DEF Next, CancelStep

\* A stop reported as succeeded is about a goal that has ended, and motors off
\* reaches every goal on its way, whatever order the late answers come in (_stop,
\* _motor_disable, _on_cancel_response and the goal response callbacks).
THEOREM StopsReachCorrect == Spec => []StopsReachTheirGoals
<1>1. StopInv => StopWaitsForItsGoal
  BY DEF StopInv
<1>2. TypeInv /\ StopInv /\ DisableInv => StopsReachTheirGoals
  BY <1>1, DisableReaches DEF StopsReachTheirGoals
<1> QED BY <1>2, InitTypeInv, NextTypeInv, InitMotionInv, NextMotionInv, InitReplyInv, NextReplyInv,
  InitMapInv, NextMapInv, InitGoalInv, NextGoalInv, InitDisableInv, NextDisableInv,
  InitStopInv, NextStopInv, PTL DEF Spec
=============================================================================
