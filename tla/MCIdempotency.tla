--------------------------- MODULE MCIdempotency ---------------------------
(* Small instances of Idempotency for TLC. *)
EXTENDS Idempotency, TLC

\* Requests are interchangeable: no safety property names one of them.
RequestSymmetry == Permutations(Request)
=============================================================================
