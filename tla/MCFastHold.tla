----------------------------- MODULE MCFastHold -----------------------------
(* Small instances of FastHold for TLC. *)
EXTENDS FastHold, TLC

\* Requests are interchangeable: no safety property names one of them.
RequestSymmetry == Permutations(Request)
=============================================================================
