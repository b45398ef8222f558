------------------------------ MODULE MCTuning ------------------------------
(* Instances of Tuning for TLC. *)
EXTENDS Tuning, TLC

CONSTANTS m1, m2, m3, r1, A, B, R

Whole(n)   == [type |-> "int", n |-> n]
Float(n) == [type |-> "float", n |-> n]
Bool     == [type |-> "bool", n |-> 1]
Str      == [type |-> "str", n |-> 0]

Entry(type, default, deps, speed) ==
  [type |-> type, default |-> default, lower |-> 0, upper |-> 4, lower_inclusive |-> TRUE,
   upper_inclusive |-> TRUE, protected |-> FALSE, not_applicable |-> FALSE,
   accepts_edits |-> TRUE, dependencies |-> deps, speed |-> speed]

Below(t)  == [kind |-> "less_than_or_equal", target |-> t, equals |-> 0]
Sums(t)   == [kind |-> "sum_equals", target |-> t, equals |-> 4]

\* The kinds of entry and of dependency the reviewed catalog has.
MCParam == {"min", "max", "hit", "rand", "cruise", "ceiling", "sealed"}
MCRegistry ==
  [p \in MCParam |->
     CASE p = "min"     -> Entry("integer", Whole(1), {Below("max")}, FALSE)
       [] p = "max"     -> Entry("integer", Whole(2), {}, FALSE)
       [] p = "hit"     -> Entry("number", Float(2), {Sums("rand")}, FALSE)
       [] p = "rand"    -> Entry("number", Float(2), {}, FALSE)
       [] p = "cruise"  -> [Entry("number", Float(3), {Below("ceiling")}, TRUE) EXCEPT !.lower_inclusive = FALSE]
       [] p = "ceiling" -> Entry("number", Float(3), {}, FALSE)
       [] OTHER         -> [Entry("boolean", Bool, {}, FALSE) EXCEPT !.protected = TRUE]]

Ch(p, v) == [keys |-> {"id", "value"}, id |-> p, logical_id |-> p # "no such/id", value |-> v]

Good(op) ==
  [object |-> TRUE, json |-> TRUE, length |-> 1, bytes |-> 1, depth |-> 2, finite |-> TRUE,
   operation |-> op, keys |-> required_keys(op), contract |-> TRUE, version |-> Whole(1),
   request_id |-> TRUE, generation |-> [keys |-> {"capability", "session_id"}, capability |-> TRUE, session |-> TRUE],
   revision |-> [k \in {"base_revision", "expected_revision", "restore_revision"} |-> Whole(1)],
   target |-> TRUE, job_id |-> TRUE,
   changes |-> IF op = "save" THEN <<Ch("min", Whole(2))>> ELSE <<>>]

Batches ==
  {<<>>, <<Ch("min", Whole(2)), Ch("min", Whole(1))>>, <<Ch("min", Whole(3))>>, <<Ch("min", Whole(3)), Ch("max", Whole(3))>>,
   <<Ch("min", Float(1))>>, <<Ch("min", Bool)>>, <<Ch("min", Str)>>, <<Ch("min", Whole(5))>>,
   <<Ch("hit", Whole(3))>>, <<Ch("hit", Whole(3)), Ch("rand", Float(1))>>, <<Ch("cruise", Float(0))>>,
   <<Ch("cruise", Float(4))>>, <<Ch("ceiling", Float(2))>>, <<Ch("sealed", Bool)>>, <<Ch("no such/id", Whole(1))>>,
   <<[Ch("min", Whole(2)) EXCEPT !.keys = {"id"}]>>, <<[Ch("min", Whole(2)) EXCEPT !.keys = @ \cup {"path"}]>>,
   <<Ch("min", Whole(1)), Ch("max", Whole(2)), Ch("hit", Whole(2))>>,
   <<Ch("min", Whole(1)), Ch("max", Whole(2)), Ch("hit", Whole(2)), Ch("rand", Whole(2))>>}

\* One thing about a document changed.
Deviations(d) ==
       {[d EXCEPT !.object = FALSE], [d EXCEPT !.finite = FALSE], [d EXCEPT !.contract = FALSE],
        [d EXCEPT !.request_id = FALSE], [d EXCEPT !.target = FALSE], [d EXCEPT !.job_id = FALSE],
        [d EXCEPT !.bytes = MaxBytes], [d EXCEPT !.bytes = MaxBytes + 1], [d EXCEPT !.depth = MaxDepth + 1],
        [d EXCEPT !.version = Bool], [d EXCEPT !.version = Whole(2)], [d EXCEPT !.version = Float(1)],
        [d EXCEPT !.generation.capability = FALSE], [d EXCEPT !.generation.session = FALSE],
        [d EXCEPT !.generation.keys = {"capability"}], [d EXCEPT !.operation = "reset"]}
  \cup {[d EXCEPT !.keys = @ \ {k}] : k \in d.keys}
  \cup {[d EXCEPT !.keys = @ \cup {k}] : k \in {"job_id", "changes", "target", "actor"}}
  \cup {[d EXCEPT !.revision[k] = v] : k \in DOMAIN d.revision, v \in {Whole(-1), Whole(0), Whole(JsSafe), Whole(JsSafe + 1), Bool}}
  \cup {[d EXCEPT !.changes = b] : b \in IF d.operation = "save" THEN Batches ELSE {}}

\* Every kind of request with up to two things changed.
MCDocuments ==
  LET one(d) == {d} \cup Deviations(d)
  IN UNION {one(x) : x \in UNION {one(Good(op)) : op \in {"save", "restore", "status"}}}
       \cup UNION {one(Good(op)) : op \in Operations}

Person(role) == [id |-> Whole(1), username |-> 8, role |-> role, valid |-> TRUE]
MCUsers == {Person(r) : r \in Roles} \cup {[Person("administrator") EXCEPT !.username = 129]}

Plan(calls, n, t, down_) == [calls |-> calls, breaks |-> n, ticks |-> t, shutdown |-> down_]

\* The same change twice while time passes; a change and a read, two
\* operators' changes, and a change with time passing, each across a
\* reconnection; a shutdown.
MCPlans ==
  {Plan({m1, m2}, 0, 3, FALSE), Plan({m1, r1}, 1, 0, FALSE), Plan({m1, m3}, 1, 0, FALSE),
   Plan({m1}, 1, 2, FALSE), Plan({m1, r1}, 0, 0, TRUE)}

MCId   == [c \in Call |-> CASE c \in {m1, m2} -> A [] c = m3 -> B [] OTHER -> R]
MCDoc  == [c \in Call |-> CASE c \in {m1, m2} -> Good("save") [] c = m3 -> Good("apply") [] OTHER -> Good("read")]
MCUser == [c \in Call |-> Person(IF c = r1 THEN "observer" ELSE "administrator")]
=============================================================================
