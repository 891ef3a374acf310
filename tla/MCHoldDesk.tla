----------------------------- MODULE MCHoldDesk -----------------------------
(* Small instances of HoldDesk for TLC. *)
EXTENDS HoldDesk, TLC

\* Requests are interchangeable, and so are the worker replicas.
Symmetry == Permutations(Request) \cup Permutations(Worker)

\* When a hold has run out nothing looks at its stay any more: a release goes by
\* the token's entries in Redis.
StayInForce == [r \in Request |-> IF expires[r] > 0 THEN stay[r] ELSE NoStay]
View == <<store, pc, StayInForce, night, expires, lifeVars, answer, conflict>>
=============================================================================
