---------------------------- MODULE MCBackOffice ----------------------------
(* Small instances of BackOffice for TLC. *)
EXTENDS BackOffice, FiniteSets, TLC

\* People, properties, codes and requests are alike among themselves.
Symmetry == Permutations(User) \cup Permutations(Prop) \cup Permutations(Code)
            \cup Permutations(Call)

\* Enough for a room whose type exists, in its own property or another, for a
\* second type or room of the same code, and for two updates of one property at
\* a time.  Updates and room types or rooms do not look at each other's tables.
MaxRows == 2
FewRows ==
    Cardinality(roomType) + Cardinality(room)
        + Cardinality({c \in Call : pc[c] = "write"}) <= MaxRows

\* The fields are merged one by one: an update of both does what one of each does.
OneField == \A c \in Call : req[c].name = "" \/ req[c].status = ""

\* No guard looks at the latest answer, so states that differ in it alone go on
\* alike.  (Action properties are checked of every step all the same.)
View == <<tables, token, calls, orphans>>
=============================================================================
