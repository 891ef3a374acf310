------------------------------- MODULE Ledger -------------------------------
(***************************************************************************)
(* What the daily allocation ledger of one room type promises: every call  *)
(* takes effect at one instant.  A stay is sold on all its nights or on    *)
(* none, only within the units of each; the horizon generator provides     *)
(* nights and changes the units of those nobody has bought, no others.     *)
(***************************************************************************)
EXTENDS Integers

CONSTANTS
    Last,         \* the nights are 1 .. Last
    Sizes         \* the numbers of units a room type may have

VARIABLE rows     \* [1 .. Last -> [total, sold]], total 0 for no row

NoRow == [total |-> 0, sold |-> 0]

Init == rows = [k \in 1 .. Last |-> NoRow]

Sell(S) ==
    /\ \A k \in S : rows[k].sold < rows[k].total
    /\ rows' = [k \in 1 .. Last |->
                   IF k \in S THEN [rows[k] EXCEPT !.sold = @ + 1] ELSE rows[k]]

Provide(S, n) ==
    rows' = [k \in 1 .. Last |->
                IF k \in S /\ rows[k].sold = 0 THEN [total |-> n, sold |-> 0]
                                               ELSE rows[k]]

Next ==
    \/ \E from, to \in 1 .. Last : Sell(from .. to)
    \/ \E S \in SUBSET (1 .. Last), n \in Sizes : Provide(S, n)

Spec == Init /\ [][Next]_rows
=============================================================================
