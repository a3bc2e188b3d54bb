---------------------------- MODULE MCEventStore ----------------------------
(***************************************************************************)
(* A small store for TLC: two identifiers, of which one is used for two    *)
(* different requests, and every revision up to the bound.                 *)
(***************************************************************************)
EXTENDS EventStore

CONSTANTS p1, p2, c1, c2, a1, a2, b1, q1, q2, r1, r2

MCCmdId == {c1, c2}
MCProc == {p1, p2}
MCActor == {a1, a2}
MCBlob == {b1}
MCBody == {q1, q2}
MCResult == {r1, r2}

\* c1 starts the history or is used again with another actor and revision;
\* c2 follows one or two events and names the first as its cause.
MCEnvelope ==
    { [id |-> c1, actor |-> a1, body |-> q1, expected |-> 0, cause |-> 0],
      [id |-> c1, actor |-> a2, body |-> q1, expected |-> 1, cause |-> 0],
      [id |-> c2, actor |-> a2, body |-> q1, expected |-> 1, cause |-> 1],
      [id |-> c2, actor |-> a2, body |-> q2, expected |-> 1, cause |-> 2] }

=============================================================================
