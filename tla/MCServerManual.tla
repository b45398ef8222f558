--------------------------- MODULE MCServerManual ---------------------------
(* Instances of ServerManual for TLC. *)
EXTENDS ServerManual, TLC

CONSTANTS s1, s2, auto1, auto2, c1, c2, t1

MCFrom == [s \in Start |-> IF s = s1 THEN c1 ELSE c2]
MCAutoStop == [s \in Start |-> IF s = s1 THEN auto1 ELSE auto2]

\* One policy that can be used and one outside the commissioned envelope.
Usable == [fields |-> "exact", cap |-> Envelope(1), generation |-> "g", age |-> 0, bound |-> 0]
Excess == [Usable EXCEPT !.cap = Envelope(HardMax + 1)]
MCRawPolicy == {Usable, Excess}

Nothing == [e \in Event |-> 0]

\* Two sessions in a row; one driven session whose robot disconnects and
\* reconnects, whose readings and a timer fail, whose browser leaves while an
\* operator steps in, or that keeps sending
\* after one did; and one that is reset away.
MCBudgets ==
  { [Nothing EXCEPT !["start"] = 2, !["frame"] = 1],
    [Nothing EXCEPT !["start"] = 1, !["frame"] = 1, !["connect"] = 2],
    [Nothing EXCEPT !["start"] = 1, !["frame"] = 1, !["timeout"] = 1, !["news"] = 1],
    [Nothing EXCEPT !["start"] = 1, !["frame"] = 1, !["leave"] = 1, !["stop"] = 1],
    [Nothing EXCEPT !["start"] = 1, !["frame"] = 2, !["stop"] = 1],
    [Nothing EXCEPT !["start"] = 1, !["reset"] = 1, !["timeout"] = 1] }
=============================================================================
