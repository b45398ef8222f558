---------------------------- MODULE TeleopPolicy ----------------------------
(***************************************************************************)
(* The runtime speed policy of manual drive: what the server makes of the  *)
(* value its trusted provider returns (tuning_policy.py), and how a        *)
(* requested velocity is measured against it.                              *)
(*                                                                         *)
(* A raw policy is what the provider hands over before anything is         *)
(* checked: the fields it carries, a cap per axis (NotANumber for a bool,  *)
(* a string, a NaN or an overflow), a configuration generation (Malformed  *)
(* when not canonical), the age of its receipt (negative: in the future)   *)
(* and the drive-base session it is bound to.  Speeds and ages are small   *)
(* integers in units of the code's own thresholds.                         *)
(***************************************************************************)
EXTENDS Integers

CONSTANTS
  HardMax,    \* the commissioned envelope, one number for either axis
  MaxAge,     \* POLICY_MAX_AGE_S
  Tolerance   \* POLICY_FUTURE_TOLERANCE_S

ASSUME PolicyAssumption == HardMax \in Nat /\ MaxAge \in Nat /\ Tolerance \in Nat

Axis       == {"linear", "angular"}
NotANumber == HardMax + 100
Malformed  == "malformed"
Unbound    == -1
Missing    == [fields |-> "none"]      \* the provider returned None or raised

Envelope(v) == [a \in Axis |-> v]

\* LEGACY_POLICY, and the value that stands for (None, reason).
Legacy  == [mode |-> "legacy_v1", cap |-> Envelope(HardMax), generation |-> "none"]
Refused == [mode |-> "refused", cap |-> Envelope(0), generation |-> "none"]

PolicyCapabilities == {"robot_tuning_v1", "robot_tuning_policy_v1"}

capability_requires_policy(caps) == caps \cap PolicyCapabilities # {}

InEnvelope(v) == v # NotANumber /\ 0 <= v /\ v <= HardMax

\* parse_policy and _validate_policy_fields.
parse_policy(raw) ==
  IF /\ raw.fields = "exact"
     /\ \A a \in Axis : InEnvelope(raw.cap[a])
     /\ raw.generation # Malformed
     /\ raw.age >= -Tolerance /\ raw.age <= MaxAge
     /\ raw.bound # Unbound
    THEN [mode |-> "tuning_policy_v1", cap |-> raw.cap, generation |-> raw.generation]
    ELSE Refused

\* A legacy robot has the fixed envelope; one that promised a dynamic policy
\* has exactly that policy, bound to this drive-base session, or nothing.
resolve_policy(caps, raw, base) ==
  IF ~capability_requires_policy(caps) THEN Legacy
  ELSE IF raw = Missing \/ raw.bound # base THEN Refused
  ELSE parse_policy(raw)

over_policy(policy, velocity) == \E a \in Axis : velocity[a] > policy.cap[a]
=============================================================================
