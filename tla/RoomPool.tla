------------------------------ MODULE RoomPool ------------------------------
(***************************************************************************)
(* What the fast-path hold store promises, with no counters, tokens,       *)
(* scripts or TTLs: a stay is granted on all its nights at once and only   *)
(* while each of them has a unit left, a granted stay is never changed,    *)
(* and it ends as a whole.                                                 *)
(***************************************************************************)
EXTENDS Integers, FiniteSets

CONSTANTS
    Guest,        \* who may hold rooms
    Nights,       \* the room type's nights
    Units         \* its units per night

VARIABLE booked   \* [Guest -> SUBSET Nights], {} for no valid hold

Holders(k) == {g \in Guest : k \in booked[g]}

Init == booked = [g \in Guest |-> {}]

Grant(g, S) ==
    /\ booked[g] = {}
    /\ \A k \in S : Cardinality(Holders(k)) < Units
    /\ booked' = [booked EXCEPT ![g] = S]

\* Holds end: one is released, or several lapse in the same instant.
End(G) == booked' = [g \in Guest |-> IF g \in G THEN {} ELSE booked[g]]

Next ==
    \/ \E G \in SUBSET Guest : End(G)
    \/ \E g \in Guest, S \in (SUBSET Nights) \ {{}} : Grant(g, S)

Spec == Init /\ [][Next]_booked
=============================================================================
