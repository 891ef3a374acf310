-------------------------- MODULE MCHoldLifecycle ---------------------------
(* Small instances of HoldLifecycle for TLC. *)
EXTENDS HoldLifecycle, TLC

\* Requests are interchangeable, and so are the worker replicas.
Symmetry == Permutations(Request) \cup Permutations(Worker)
=============================================================================
