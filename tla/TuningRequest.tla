--------------------------- MODULE TuningRequest ---------------------------
(***************************************************************************)
(* One tuning request as the two ends examine it: the checks of the HTTP   *)
(* endpoint (api/tuning.py, tuning/authz.py), the canonical validation     *)
(* against the reviewed catalog (tuning/validation.py), the server's       *)
(* authorization (tuning/authorization.py) and the bridge's own refusal    *)
(* rules (web bridge, tuning.py: wrapper_reason).                          *)
(*                                                                         *)
(* A document is a decoded JSON value.  Its identifiers and constants are  *)
(* reduced to whether they are the canonical ones, its numbers to a type   *)
(* and a small integer, its size and nesting to what _scan compares.       *)
(***************************************************************************)
EXTENDS Integers, Sequences, FiniteSets

CONSTANTS
  Param,       \* the catalog's logical ids
  Registry,    \* the catalog's entry of each
  JsSafe,      \* the largest revision
  MaxChanges,  \* the longest change batch
  MaxBytes,    \* REQUEST_MAX_BYTES and MAX_REQUEST_BYTES, in change-sized units
  MaxDepth,    \* MAX_DEPTH
  Envelope,    \* what actor, claims and fixed fields add to an encoded request
  Lifetime,    \* MAX_LIFETIME_MS
  Skew,        \* CLOCK_SKEW_MS
  Documents,   \* bound: documents the two ends' checks are compared on
  Users        \* bound: credentials they are compared on

ASSUME TuningRequestAssumption ==
  /\ DOMAIN Registry = Param
  /\ \A p \in Param : \A e \in Registry[p].dependencies : e.target \in Param
  /\ {JsSafe, MaxChanges, MaxBytes, MaxDepth, Envelope, Skew} \subseteq Nat
  /\ Lifetime \in Nat \ {0}
  /\ Envelope + MaxChanges <= MaxBytes  \* 32 changes of at most 107 bytes and 2.1 kB fit 18 KiB

\* A JSON integer is an integer; the bridge's LOGICAL_ID spells every id of the
\* catalog; a document without the key "changes" has none.
ASSUME DocumentsAssumption ==
  \A d \in Documents :
    /\ \A k \in {"base_revision", "expected_revision", "restore_revision"} :
         d.revision[k].type = "int" => d.revision[k].n \in Int
    /\ \A i \in DOMAIN d.changes : d.changes[i].id \in Param => d.changes[i].logical_id
    /\ d.operation \in {"read", "status", "apply", "redeploy", "restore"} /\ "changes" \notin d.keys
         => d.changes = <<>>

Mutations  == {"save", "apply", "redeploy", "restore"}
Operations == Mutations \cup {"read", "status"}
Roles      == {"administrator", "operator", "observer"}

----------------------------------------------------------------------------
(* Primitive values: [type, n]. *)

is_strict_int(v)    == v.type = "int"
is_finite_number(v) == v.type \in {"int", "float"}

CommonKeys == {"contract", "version", "operation", "request_id", "generation"}

RevisionKeys(op) ==
  CASE op = "save"                 -> {"base_revision"}
    [] op \in {"apply", "redeploy"} -> {"expected_revision"}
    [] op = "restore"              -> {"expected_revision", "restore_revision"}
    [] OTHER                       -> {}

required_keys(op) ==
  CommonKeys \cup RevisionKeys(op)
    \cup (IF op = "save" THEN {"changes"} ELSE {})
    \cup (IF op = "restore" THEN {"target"} ELSE {})

allowed_keys(op) == required_keys(op) \cup (IF op = "status" THEN {"job_id"} ELSE {})

----------------------------------------------------------------------------
(* Catalog semantics. *)

WithinBounds(e, n) ==
  /\ IF e.lower_inclusive THEN n >= e.lower ELSE n > e.lower
  /\ IF e.upper_inclusive THEN n <= e.upper ELSE n < e.upper

value_admitted(e, v) ==
  IF v.type = "bool" THEN e.type = "boolean"
  ELSE /\ e.type \in {"number", "integer"} /\ is_finite_number(v)
       /\ e.type = "integer" => is_strict_int(v)
       /\ WithinBounds(e, v.n)

change_admitted(ch) ==
  /\ ch.keys = {"id", "value"}
  /\ ch.id \in Param
  /\ LET e == Registry[ch.id]
     IN ~e.protected /\ ~e.not_applicable /\ e.accepts_edits /\ value_admitted(e, ch.value)

Changed(chs) == {chs[i].id : i \in DOMAIN chs}

resolved_value(p, chs) ==
  IF p \in Changed(chs) THEN chs[CHOOSE i \in DOMAIN chs : chs[i].id = p].value
  ELSE Registry[p].default

\* A speed target above the ceiling it is not being changed against is left to
\* the core's compiler, which takes the smaller of the two.
dependency_holds(p, e, chs) ==
  LET left == resolved_value(p, chs)  right == resolved_value(e.target, chs)
  IN /\ is_finite_number(left) /\ is_finite_number(right)
     /\ IF e.kind = "sum_equals" THEN left.n + right.n = e.equals
        ELSE left.n <= right.n \/ (p \notin Changed(chs) /\ Registry[p].speed)

dependencies_hold(chs) ==
  \A p \in Param : \A e \in Registry[p].dependencies :
    (p \in Changed(chs) \/ e.target \in Changed(chs)) => dependency_holds(p, e, chs)

----------------------------------------------------------------------------
(* validate_request: the server's canonical check of a document. *)

scan_admits(d) == d.bytes <= MaxBytes /\ d.depth <= MaxDepth /\ d.finite

generation_admitted(g) ==
  g.keys = {"capability", "session_id"} /\ g.capability /\ g.session

\* Mutant: the upper end of the revision range is not looked at.
RevisionUnbounded(v) == is_strict_int(v) /\ 0 <= v.n

\* _check_revision
revision_admitted(v) == is_strict_int(v) /\ 0 <= v.n /\ v.n <= JsSafe

changes_admitted(chs) ==
  /\ Len(chs) \in 1 .. MaxChanges
  /\ \A i \in DOMAIN chs : change_admitted(chs[i])
  /\ Cardinality(Changed(chs)) = Len(chs)
  /\ dependencies_hold(chs)

validate_request(d) ==
  /\ d.object /\ scan_admits(d)
  /\ d.operation \in Operations
  /\ d.keys \subseteq allowed_keys(d.operation)
  /\ required_keys(d.operation) \subseteq d.keys
  /\ d.contract /\ is_strict_int(d.version) /\ d.version.n = 1
  /\ d.request_id
  /\ generation_admitted(d.generation)
  /\ \A k \in RevisionKeys(d.operation) : revision_admitted(d.revision[k])
  /\ d.operation = "save" => changes_admitted(d.changes)
  /\ d.operation = "restore" =>
       d.revision["restore_revision"].n <= d.revision["expected_revision"].n /\ d.target
  /\ "job_id" \in d.keys => d.job_id

----------------------------------------------------------------------------
(* The endpoint: post_tuning before it calls the broker.  Who is asking is  *)
(* verified when the body is complete, not only when the request begins.    *)

body_admitted(d) == d.length <= MaxBytes /\ d.json /\ d.object

post_admitted(d, origin, user) ==
  origin /\ body_admitted(d) /\ d.operation \in Mutations /\ user.valid /\ user.role = "administrator"

require_administrator(user, op) == op \in Mutations => user.role = "administrator"

actor_from_user(user) == [id |-> user.id, username |-> user.username, role |-> user.role]

actor_admitted(a) == a.role \in Roles /\ a.username \in 1 .. 128 /\ is_strict_int(a.id)

\* sign: only mutations are signed, for one robot and one short window.
sign(wrapper, now) ==
  [wrapper EXCEPT !.authorization =
     [version |-> 1, robot |-> TRUE, issued |-> now, expires |-> now + Lifetime, signed |-> wrapper.request]]

Unsigned == [version |-> 0, robot |-> FALSE, issued |-> 0, expires |-> 0, signed |-> <<>>]

\* What the broker sends for an admitted document.
wrap(d, user, now) ==
  LET w == [request |-> d, actor |-> actor_from_user(user), authorization |-> Unsigned]
  IN IF d.operation \in Mutations THEN sign(w, now) ELSE w

----------------------------------------------------------------------------
(* The bridge: wrapper_reason(w) is None.  It holds no key and knows no     *)
(* catalog, so it looks at shapes only.                                     *)

claims_shaped(a) == a.version = 1 /\ 0 < a.expires - a.issued /\ a.expires - a.issued <= Lifetime

bridge_change_admitted(ch) ==
  ch.keys = {"id", "value"} /\ ch.logical_id /\ ch.value.type \in {"int", "float", "bool"}

encoded_size(w) == Envelope + Len(w.request.changes)

wrapper_admitted(w) ==
  LET d == w.request
  IN /\ actor_admitted(w.actor)
     /\ d.object /\ d.contract /\ is_strict_int(d.version) /\ d.version.n = 1
     /\ d.operation \in Operations
     /\ d.operation \notin {"read", "status"} => w.actor.role = "administrator"
     /\ w.authorization # Unsigned => claims_shaped(w.authorization)
     /\ d.operation \in Mutations => w.authorization # Unsigned
     /\ d.keys \subseteq allowed_keys(d.operation) /\ CommonKeys \subseteq d.keys
     /\ \A k \in RevisionKeys(d.operation) :
          k \in d.keys /\ is_strict_int(d.revision[k]) /\ d.revision[k].n \in 0 .. JsSafe
     /\ d.operation = "restore" => "target" \in d.keys /\ d.target
     /\ "job_id" \in d.keys => d.job_id
     /\ d.operation = "save" =>
          /\ "changes" \in d.keys /\ Len(d.changes) \in 1 .. MaxChanges
          /\ \A i \in DOMAIN d.changes : bridge_change_admitted(d.changes[i])
          /\ Cardinality(Changed(d.changes)) = Len(d.changes)
     /\ d.request_id /\ generation_admitted(d.generation)
     /\ encoded_size(w) <= MaxBytes

\* verify, which the core runs before it dispatches a mutation.
verified(w, now) ==
  LET a == w.authorization
  IN /\ w.actor.role = "administrator" /\ w.request.operation \in Mutations
     /\ a.version = 1 /\ a.robot /\ a.signed = w.request
     /\ 0 <= a.issued /\ a.issued < a.expires /\ a.expires - a.issued <= Lifetime
     /\ a.issued <= now + Skew /\ now < a.expires

----------------------------------------------------------------------------
\* The two ends' independent checks agree: whatever validate_request and
\* require_administrator let through, wrapper_reason does not refuse, and the
\* core verifies it for as long as the signature lives and no longer.
BridgeTakesWhatServerSends ==
  \A d \in Documents, u \in Users :
    (/\ validate_request(d) /\ require_administrator(u, d.operation)
     /\ actor_admitted(actor_from_user(u))) =>
      /\ wrapper_admitted(wrap(d, u, 0))
      /\ d.operation \in Mutations =>
           \A now \in 0 .. Lifetime + 1 : verified(wrap(d, u, 0), now) <=> now < Lifetime
=============================================================================
