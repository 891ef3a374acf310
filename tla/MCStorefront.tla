---------------------------- MODULE MCStorefront ----------------------------
(* Small instances of Storefront for TLC. *)
EXTENDS Storefront

\* Two hotels of one name: a single room here, one there at the same rate, and
\* a double here at a higher one.  So the rows of the two may alternate.
Namesakes == [p \in Prop |-> 1]
Rotating  == [t \in RType |-> IF t = "q1" THEN "q" ELSE "p"]
Ascending == [t \in RType |-> IF t = "p2" THEN 2 ELSE 1]
Widening  == [t \in RType |-> IF t = "p1" THEN 1 ELSE 2]
Scarce    == [t \in RType |-> IF t = "q1" THEN 2 ELSE 1]
=============================================================================
