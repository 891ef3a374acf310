---------------------------- MODULE SearchProofs -----------------------------
(***************************************************************************)
(* Theorems about the search of Storefront: whatever is asked for, turning *)
(* the pages shows exactly what can be sold.                               *)
(*                                                                         *)
(* Induction is by the least number for which something fails (Least): the *)
(* first row that the loop over the query's rows would treat wrongly, the  *)
(* fewest hits that could not be sorted.                                   *)
(***************************************************************************)
EXTENDS StorefrontProofs

LEMMA Least ==
    ASSUME NEW T \in SUBSET Nat, T # {}
    PROVE  \E n \in T : \A m \in T : n <= m
<1> DEFINE R == OpToRel(<, Nat)
<1>1. ASSUME NEW m \in Nat, NEW n \in Nat, m < n
      PROVE  <<m, n>> \in R
  <2> DEFINE x == <<m, n>>
  <2>1. x \in Nat \X Nat /\ x[1] < x[2]
    BY <1>1
  <2> HIDE DEF x
  <2>2. x \in R
    BY <2>1, Zenon DEF OpToRel
  <2> QED
    BY <2>2 DEF x
<1>2. IsWellFoundedOn(R, Nat)
    BY NatLessThanWellFounded
<1> HIDE DEF R
<1>3. PICK n \in T : \A m \in T : ~ (<<m, n>> \in R)
    BY <1>2, WFMin
<1>4. ASSUME NEW m \in T
      PROVE  n <= m
  <2>1. m \in Nat /\ n \in Nat
    OBVIOUS
  <2>2. ~ (m < n)
    BY <1>1, <1>3, <2>1
  <2> QED
    BY <2>1, <2>2
<1> QED
    BY <1>4

\* A list without repetitions is as long as the set it lists is large.
LEMMA AsMany ==
    ASSUME NEW X, NEW q \in Seq(X), NEW T,
           \A i \in 1 .. Len(q) : q[i] \in T,
           \A x \in T : \E i \in 1 .. Len(q) : q[i] = x,
           \A i, j \in 1 .. Len(q) : i # j => q[i] # q[j]
    PROVE  Len(q) = Cardinality(T)
<1> DEFINE D == 1 .. Len(q)
<1>1. Len(q) \in Nat /\ q \in [D -> T]
    OBVIOUS
<1>2. q \in Injection(D, T) /\ q \in Surjection(D, T)
    BY <1>1 DEF Injection, IsInjective, Surjection
<1>3. IsFiniteSet(D) /\ Cardinality(D) = Len(q)
  <2>1. /\ IsFiniteSet(1 .. Len(q))
        /\ Cardinality(1 .. Len(q)) = IF 1 > Len(q) THEN 0 ELSE Len(q) - 1 + 1
    BY <1>1, FS_Interval
  <2> QED
    BY <1>1, <2>1
<1>4. Cardinality(T) = Cardinality(D)
    BY <1>2, <1>3, FS_Surjection
<1> QED
    BY <1>3, <1>4

-----------------------------------------------------------------------------
(* What is left *)

\* chk_inventory_bounds: no night is sold more often than it has units.
Within == \A t \in RType, k \in Night : rows[t][k].sold <= rows[t][k].total

LEMMA WithinStep ==
    ASSUME StorefrontTypeOK, Within, NEW t \in RType,
           Books(t)!Next \/ UNCHANGED rows[t],
           rows' \in [RType -> [Night -> Row]]
    PROVE  \A k \in Night : rows'[t][k].sold <= rows'[t][k].total
<1>1. \A k \in Night : rows[t][k] \in Row /\ rows[t][k].sold <= rows[t][k].total
    BY DEF StorefrontTypeOK, Within
<1>2. CASE UNCHANGED rows[t]
    BY <1>1, <1>2
<1>3. ASSUME NEW from \in 1 .. LastNight, NEW to \in 1 .. LastNight,
             Books(t)!Sell(from .. to), NEW k \in Night
      PROVE  rows'[t][k].sold <= rows'[t][k].total
  <2>1. rows'[t][k] = IF k \in from .. to THEN [rows[t][k] EXCEPT !.sold = @ + 1]
                                          ELSE rows[t][k]
    BY <1>3 DEF Books!Sell, Night
  <2>2. k \in from .. to => rows[t][k].sold < rows[t][k].total
    BY <1>3 DEF Books!Sell
  <2>3. rows[t][k].sold \in Nat /\ rows[t][k].total \in Nat
    BY <1>1 DEF Row
  <2>4. CASE k \in from .. to
    <3>1. rows'[t][k] = [rows[t][k] EXCEPT !.sold = @ + 1]
        BY <2>1, <2>4
    <3>2. rows'[t][k].sold = rows[t][k].sold + 1 /\ rows'[t][k].total = rows[t][k].total
        BY <1>1, <3>1 DEF Row
    <3> QED
        BY <2>2, <2>3, <2>4, <3>2
  <2> QED
    BY <1>1, <2>1, <2>4
<1>4. ASSUME NEW S \in SUBSET (1 .. LastNight), NEW n \in {Units[t]},
             Books(t)!Provide(S, n), NEW k \in Night
      PROVE  rows'[t][k].sold <= rows'[t][k].total
  <2>1. \/ rows'[t][k] = [total |-> n, sold |-> 0]
        \/ rows'[t][k] = rows[t][k]
    BY <1>4 DEF Books!Provide, Night
  <2>2. n \in Nat
    BY <1>4, CatalogueAssumption
  <2> QED
    BY <1>1, <2>1, <2>2
<1> QED
    BY <1>2, <1>3, <1>4 DEF Books!Next

LEMMA WithinHolds == Spec => []Within
<1>1. Init => Within
    BY DEF Init, Within, NoRow
<1>2. StorefrontTypeOK /\ StorefrontTypeOK' /\ Within
      /\ [\A t \in RType : Books(t)!Next \/ UNCHANGED rows[t]]_vars => Within'
  <2> SUFFICES ASSUME StorefrontTypeOK, StorefrontTypeOK', Within,
                      [\A t \in RType : Books(t)!Next \/ UNCHANGED rows[t]]_vars
               PROVE  Within'
    OBVIOUS
  <2>1. CASE \A t \in RType : Books(t)!Next \/ UNCHANGED rows[t]
    BY <2>1, WithinStep DEF Within, StorefrontTypeOK
  <2>2. CASE UNCHANGED vars
    BY <2>2 DEF vars, Within
  <2> QED
    BY <2>1, <2>2
<1> QED
    BY <1>1, <1>2, StorefrontTypeCorrect, BooksKept, PTL DEF Spec, BooksAreKept

LEMMA LeftIsLeast ==
    ASSUME StorefrontTypeOK, Within, NEW t \in RType, NEW S \in SUBSET Night, S # {}
    PROVE  /\ Left(t, S) \in Nat
           /\ \A k \in S : Left(t, S) <= Remaining(t, k)
           /\ \E k \in S : Left(t, S) = Remaining(t, k)
<1>1. \A k \in Night : /\ rows[t][k].sold \in Nat /\ rows[t][k].total \in Nat
                       /\ rows[t][k].sold <= rows[t][k].total
    BY DEF StorefrontTypeOK, Within, Row
<1>2. \A k \in S : Remaining(t, k) \in Nat
    BY <1>1 DEF Remaining
<1> DEFINE T == {Remaining(t, k) : k \in S}
<1>3. PICK n \in T : \A m \in T : n <= m
  <2>1. T \in SUBSET Nat /\ T # {}
    BY <1>2
  <2> HIDE DEF T
  <2> QED
    BY <2>1, Least
<1>4. \E m \in T : \A k \in S : m <= Remaining(t, k)
    BY <1>3
<1>5. Left(t, S) \in T /\ \A k \in S : Left(t, S) <= Remaining(t, k)
    BY <1>4 DEF Left
<1> QED
    BY <1>2, <1>5

\* The query finds the room types that CommitAllocation would sell.
LEMMA FoundIsSellable ==
    ASSUME StorefrontTypeOK, Within, NEW t \in RType,
           NEW S \in SUBSET Night, S # {}, IsFiniteSet(S)
    PROVE  Matches(t, S) <=> Sellable(t, S)
<1> DEFINE found == {k \in S : rows[t][k] # NoRow}
<1>1. found \in SUBSET S /\ Cardinality(found) = Cardinality(S) => found = S
    BY FS_Subset
<1>2. \A k \in S : /\ rows[t][k].sold \in Nat /\ rows[t][k].total \in Nat
                   /\ rows[t][k].sold < rows[t][k].total => rows[t][k] # NoRow
    BY DEF StorefrontTypeOK, Row, NoRow
<1>3. ASSUME Matches(t, S)
      PROVE  Sellable(t, S)
  <2>1. Left(t, S) > 0
    BY <1>1, <1>3 DEF Matches
  <2>2. \A k \in S : Left(t, S) <= Remaining(t, k) /\ Left(t, S) \in Nat
    BY LeftIsLeast
  <2>3. ASSUME NEW k \in S
        PROVE  rows[t][k].sold < rows[t][k].total
    BY <1>2, <2>1, <2>2 DEF Remaining
  <2> QED
    BY <2>3 DEF Sellable
<1>4. ASSUME Sellable(t, S)
      PROVE  Matches(t, S)
  <2>1. found = S
    BY <1>2, <1>4 DEF Sellable
  <2>2. PICK k \in S : Left(t, S) = Remaining(t, k)
    BY LeftIsLeast
  <2>3. Left(t, S) > 0
    BY <1>2, <1>4, <2>2 DEF Sellable, Remaining
  <2> QED
    BY <2>1, <2>3 DEF Matches
<1> QED
    BY <1>3, <1>4

-----------------------------------------------------------------------------
(* The rows of the query *)

\* The room types that are to be found.
Hits(S, guests, where) ==
    {t \in offered : /\ Home[t] \in where /\ status[Home[t]] = "ACTIVE"
                     /\ Beds[t] >= guests
                     /\ Sellable(t, S)}

\* A list of them in the order of the query.
Sorted(found) ==
    /\ found \in Seq(RType)
    /\ \A i, j \in 1 .. Len(found) : i # j => found[i] # found[j]
    /\ \A i, j \in 1 .. Len(found) : i < j => InOrder(found[i], found[j])

LEMMA QueryFinds ==
    ASSUME StorefrontTypeOK, Within, NEW S \in SUBSET Night, S # {}, IsFiniteSet(S),
           NEW guests, NEW where, NEW found \in QueryRows(S, guests, where)
    PROVE  /\ Sorted(found)
           /\ \A i \in 1 .. Len(found) : found[i] \in Hits(S, guests, where)
           /\ \A t \in Hits(S, guests, where) : \E i \in 1 .. Len(found) : found[i] = t
<1> DEFINE H == Hits(S, guests, where)
<1>1. H \subseteq RType /\ IsFiniteSet(H)
    BY CatalogueAssumption, FS_Subset DEF Hits, StorefrontTypeOK
<1>2. H = {t \in offered : /\ Home[t] \in where /\ status[Home[t]] = "ACTIVE"
                           /\ Beds[t] >= guests
                           /\ Matches(t, S)}
    BY FoundIsSellable DEF Hits, StorefrontTypeOK
<1>3. /\ found \in SX!SetToSeqs(H)
      /\ \A i, j \in DOMAIN found : i < j => InOrder(found[i], found[j])
    BY <1>2 DEF QueryRows
<1> HIDE DEF H
<1>4. /\ found \in Seq(H)
      /\ \A x \in H : \E i \in 1 .. Len(found) : found[i] = x
      /\ \A i, j \in 1 .. Len(found) : i # j => found[i] # found[j]
    BY <1>1, <1>3, Listing
<1>5. DOMAIN found = 1 .. Len(found) /\ \A i \in 1 .. Len(found) : found[i] \in H
    BY <1>4
<1>6. found \in Seq(RType)
    BY <1>1, <1>4
<1> QED
    BY <1>3, <1>4, <1>5, <1>6 DEF H, Sorted

-----------------------------------------------------------------------------
(* The loop over the rows *)

NoGroups == [ids |-> <<>>, rooms |-> [p \in Prop |-> <<>>]]

\* f has the groups after each of the first n rows.
IsLoop(f, found, n) ==
    f = [i \in 0 .. n |-> IF i = 0 THEN NoGroups ELSE AfterRow(f[i - 1], found[i])]

LEMMA LoopStep ==
    ASSUME NEW found, NEW n \in Nat, NEW f, IsLoop(f, found, n)
    PROVE  \E g : IsLoop(g, found, n + 1)
<1> DEFINE g == [i \in 0 .. n + 1 |-> IF i = n + 1 THEN AfterRow(f[n], found[n + 1])
                                                   ELSE f[i]]
<1>1. \A i \in 0 .. n : g[i] = f[i]
    OBVIOUS
<1>2. ASSUME NEW i \in 0 .. n + 1
      PROVE  g[i] = IF i = 0 THEN NoGroups ELSE AfterRow(g[i - 1], found[i])
  <2>1. CASE i = n + 1
    <3>1. g[i] = AfterRow(f[n], found[n + 1]) /\ g[i - 1] = f[n] /\ i # 0
        BY <1>1, <2>1
    <3> QED
        BY <2>1, <3>1
  <2>2. CASE i = 0
    <3>1. g[i] = f[i] /\ f[i] = NoGroups
        BY <2>2 DEF IsLoop
    <3> QED
        BY <2>2, <3>1
  <2>3. CASE i \in 1 .. n
    <3>1. g[i] = f[i] /\ g[i - 1] = f[i - 1]
        BY <1>1, <2>3
    <3>2. f[i] = AfterRow(f[i - 1], found[i])
        BY <2>3 DEF IsLoop
    <3> QED
        BY <2>3, <3>1, <3>2
  <2> QED
    BY <2>1, <2>2, <2>3
<1>3. g = [i \in 0 .. n + 1 |-> g[i]]
    OBVIOUS
<1> HIDE DEF g
<1>4. IsLoop(g, found, n + 1)
    BY <1>2, <1>3 DEF IsLoop
<1> QED
    BY <1>4

LEMMA LoopRuns ==
    ASSUME NEW found, NEW n \in Nat
    PROVE  \E f : IsLoop(f, found, n)
<1> DEFINE T == {m \in Nat : ~ \E f : IsLoop(f, found, m)}
<1>1. SUFFICES ASSUME T # {}
               PROVE  FALSE
    OBVIOUS
<1>2. PICK m \in T : \A k \in T : m <= k
    BY <1>1, Least
<1>3. CASE m = 0
  <2> DEFINE f == [i \in 0 .. 0 |-> NoGroups]
  <2>1. IsLoop(f, found, 0)
    BY DEF IsLoop
  <2> QED
    BY <1>2, <1>3, <2>1
<1>4. CASE m # 0
  <2>1. m - 1 \in Nat /\ m - 1 \notin T
    BY <1>2, <1>4
  <2>2. PICK f : IsLoop(f, found, m - 1)
    BY <2>1
  <2>3. \E g : IsLoop(g, found, m - 1 + 1)
    BY <2>1, <2>2, LoopStep
  <2>4. m - 1 + 1 = m
    BY <1>2
  <2> QED
    BY <1>2, <2>3, <2>4
<1> QED
    BY <1>3, <1>4

LEMMA GroupedByLoop ==
    ASSUME NEW found \in Seq(RType)
    PROVE  \E f : IsLoop(f, found, Len(found)) /\ Grouped(found) = f[Len(found)]
<1> DEFINE f == CHOOSE g : IsLoop(g, found, Len(found))
<1>1. IsLoop(f, found, Len(found))
  <2>1. Len(found) \in Nat
    OBVIOUS
  <2> QED
    BY <2>1, LoopRuns
<1>2. Grouped(found) = f[Len(found)]
    BY DEF Grouped, IsLoop, NoGroups
<1> HIDE DEF f
<1> QED
    BY <1>1, <1>2

\* What the loop has made of the first n rows: orderedPropertyIDs and the room
\* types of each property.
Listed(g, found, n) ==
    /\ g.ids \in Seq(Prop)
    /\ \A a \in 1 .. Len(g.ids) : \E j \in 1 .. n : g.ids[a] = Home[found[j]]
    /\ \A j \in 1 .. n : \E a \in 1 .. Len(g.ids) : g.ids[a] = Home[found[j]]
    /\ \A a, b \in 1 .. Len(g.ids) : a < b => /\ g.ids[a] # g.ids[b]
                                             /\ Named[g.ids[a]] <= Named[g.ids[b]]

RoomsOf(seq, p, found, n) ==
    /\ seq \in Seq(RType)
    /\ \A a \in 1 .. Len(seq) : \E j \in 1 .. n : seq[a] = found[j] /\ Home[found[j]] = p
    /\ \A j \in 1 .. n : Home[found[j]] = p => \E a \in 1 .. Len(seq) : seq[a] = found[j]
    /\ \A a, b \in 1 .. Len(seq) : a < b => /\ seq[a] # seq[b]
                                           /\ Rate[seq[a]] <= Rate[seq[b]]

Groups(g, found, n) ==
    /\ g = [ids |-> g.ids, rooms |-> g.rooms]
    /\ Listed(g, found, n)
    /\ g.rooms = [p \in Prop |-> g.rooms[p]]
    /\ \A p \in Prop : RoomsOf(g.rooms[p], p, found, n)

\* A property's room types are listed by rate, each once.
LEMMA RoomsApart ==
    ASSUME NEW found, NEW n, NEW p, NEW seq, RoomsOf(seq, p, found, n),
           NEW a \in 1 .. Len(seq), NEW b \in 1 .. Len(seq), a < b
    PROVE  seq[a] # seq[b] /\ Rate[seq[a]] <= Rate[seq[b]]
BY DEF RoomsOf

LEMMA RoomAdded ==
    ASSUME NEW found, Sorted(found), NEW n \in 1 .. Len(found), NEW seq,
           NEW p \in Prop, p = Home[found[n]], RoomsOf(seq, p, found, n - 1)
    PROVE  RoomsOf(Append(seq, found[n]), p, found, n)
<1> DEFINE t   == found[n]
           new == Append(seq, t)
           l   == Len(seq)
<1>1. found \in Seq(RType) /\ Len(found) \in Nat /\ t \in RType
    BY DEF Sorted
<1>2. l \in Nat /\ seq \in Seq(RType)
    BY DEF RoomsOf
<1>3. /\ new \in Seq(RType) /\ Len(new) = l + 1
      /\ \A a \in 1 .. l : new[a] = seq[a]
      /\ new[l + 1] = t
    BY <1>1, <1>2, AppendProperties
<1>4. ASSUME NEW a \in 1 .. l
      PROVE  \E j \in 1 .. n - 1 : seq[a] = found[j] /\ Home[found[j]] = p
    BY DEF RoomsOf
<1>5. ASSUME NEW a \in 1 .. l
      PROVE  seq[a] # t /\ Rate[seq[a]] <= Rate[t]
  <2>1. PICK j \in 1 .. n - 1 : seq[a] = found[j] /\ Home[found[j]] = p
    BY <1>4
  <2>2. j \in 1 .. Len(found) /\ j < n /\ n \in 1 .. Len(found)
    BY <1>1
  <2>3. found[j] # t /\ InOrder(found[j], t)
    BY <2>2 DEF Sorted
  <2>4. Named[p] \in Nat
    BY CatalogueAssumption
  <2> QED
    BY <2>1, <2>3, <2>4 DEF InOrder
<1> HIDE DEF new, t, l
<1>6. \A a \in 1 .. Len(new) : \E j \in 1 .. n : new[a] = found[j] /\ Home[found[j]] = p
  <2> SUFFICES ASSUME NEW a \in 1 .. Len(new)
               PROVE  \E j \in 1 .. n : new[a] = found[j] /\ Home[found[j]] = p
    OBVIOUS
  <2>1. CASE a = l + 1
    BY <1>1, <1>3, <2>1 DEF t
  <2>2. CASE a \in 1 .. l
    <3>1. PICK j \in 1 .. n - 1 : seq[a] = found[j] /\ Home[found[j]] = p
        BY <1>4, <2>2
    <3> QED
        BY <1>3, <2>2, <3>1
  <2> QED
    BY <1>2, <1>3, <2>1, <2>2
<1>7. \A j \in 1 .. n : Home[found[j]] = p => \E a \in 1 .. Len(new) : new[a] = found[j]
  <2> SUFFICES ASSUME NEW j \in 1 .. n, Home[found[j]] = p
               PROVE  \E a \in 1 .. Len(new) : new[a] = found[j]
    OBVIOUS
  <2>1. CASE j = n
    BY <1>2, <1>3, <2>1 DEF t
  <2>2. CASE j \in 1 .. n - 1
    <3>1. PICK a \in 1 .. l : seq[a] = found[j]
        BY <2>2 DEF RoomsOf, l
    <3> QED
        BY <1>2, <1>3, <3>1
  <2> QED
    BY <1>1, <2>1, <2>2
<1>8. ASSUME NEW a \in 1 .. Len(new), NEW b \in 1 .. Len(new), a < b
      PROVE  new[a] # new[b] /\ Rate[new[a]] <= Rate[new[b]]
  <2>1. a \in 1 .. l
    BY <1>2, <1>3, <1>8
  <2>2. CASE b = l + 1
    BY <1>3, <1>5, <2>1, <2>2
  <2>3. CASE b \in 1 .. l
    <3>1. seq[a] # seq[b] /\ Rate[seq[a]] <= Rate[seq[b]]
        BY <1>8, <2>1, <2>3, RoomsApart DEF l
    <3>2. new[a] = seq[a] /\ new[b] = seq[b]
        BY <1>3, <2>1, <2>3
    <3> QED
        BY <3>1, <3>2
  <2> QED
    BY <1>2, <1>3, <2>2, <2>3
<1>9. RoomsOf(new, p, found, n)
    BY <1>3, <1>6, <1>7, <1>8 DEF RoomsOf
<1> QED
    BY <1>9 DEF new, t

\* A property that has no rooms yet has no place in the list yet.
LEMMA PropertyAdded ==
    ASSUME NEW found, Sorted(found), NEW n \in 1 .. Len(found), NEW g,
           Groups(g, found, n - 1)
    PROVE  Listed(AfterRow(g, found[n]), found, n)
<1> DEFINE t == found[n]
           p == Home[t]
           h == AfterRow(g, t)
           l == Len(g.ids)
<1>1. /\ found \in Seq(RType) /\ Len(found) \in Nat /\ t \in RType /\ p \in Prop
      /\ \A j \in 1 .. Len(found) : found[j] \in RType
  <2>1. found \in Seq(RType)
    BY DEF Sorted
  <2>2. Len(found) \in Nat /\ \A j \in 1 .. Len(found) : found[j] \in RType
    BY <2>1
  <2> QED
    BY <2>1, <2>2, CatalogueAssumption
<1>2. /\ l \in Nat /\ g.ids \in Seq(Prop)
      /\ \A a \in 1 .. l : g.ids[a] \in Prop
      /\ \A a \in 1 .. l : \E j \in 1 .. n - 1 : g.ids[a] = Home[found[j]]
      /\ \A j \in 1 .. n - 1 : \E a \in 1 .. l : g.ids[a] = Home[found[j]]
      /\ \A a, b \in 1 .. l : a < b => /\ g.ids[a] # g.ids[b]
                                       /\ Named[g.ids[a]] <= Named[g.ids[b]]
    BY DEF Groups, Listed
<1>3. /\ g.rooms[p] \in Seq(RType)
      /\ \A a \in 1 .. Len(g.rooms[p]) :
            \E j \in 1 .. n - 1 : g.rooms[p][a] = found[j] /\ Home[found[j]] = p
      /\ \A j \in 1 .. n - 1 : Home[found[j]] = p => \E a \in 1 .. Len(g.rooms[p]) : TRUE
    BY <1>1 DEF Groups, RoomsOf
<1>4. h.ids = IF g.rooms[p] = <<>> THEN Append(g.ids, p) ELSE g.ids
    BY DEF AfterRow
<1> HIDE DEF h, l
<1>5. CASE g.rooms[p] = <<>>
  <2>1. /\ h.ids \in Seq(Prop) /\ Len(h.ids) = l + 1
        /\ \A a \in 1 .. l : h.ids[a] = g.ids[a]
        /\ h.ids[l + 1] = p
    BY <1>1, <1>2, <1>4, <1>5, AppendProperties DEF l
  <2>2. \A j \in 1 .. n - 1 : Home[found[j]] # p
    BY <1>3, <1>5
  <2>3. ASSUME NEW a \in 1 .. l
        PROVE  g.ids[a] # p /\ Named[g.ids[a]] <= Named[p]
    <3>1. PICK j \in 1 .. n - 1 : g.ids[a] = Home[found[j]]
        BY <1>2
    <3>2. j \in 1 .. Len(found) /\ j < n
        BY <1>1
    <3>3. InOrder(found[j], t)
        BY <3>2 DEF Sorted
    <3>4. Named[p] \in Nat /\ Named[Home[found[j]]] \in Nat
        BY <1>1, <3>2, CatalogueAssumption
    <3> QED
        BY <2>2, <3>1, <3>3, <3>4 DEF InOrder
  <2>4. ASSUME NEW a \in 1 .. Len(h.ids)
        PROVE  \E j \in 1 .. n : h.ids[a] = Home[found[j]]
    <3>1. CASE a = l + 1
        BY <1>1, <2>1, <3>1
    <3>2. CASE a \in 1 .. l
      <4>1. PICK j \in 1 .. n - 1 : g.ids[a] = Home[found[j]]
        BY <1>2, <3>2
      <4> QED
        BY <2>1, <3>2, <4>1
    <3> QED
        BY <1>2, <2>1, <3>1, <3>2
  <2>5. ASSUME NEW j \in 1 .. n
        PROVE  \E a \in 1 .. Len(h.ids) : h.ids[a] = Home[found[j]]
    <3>1. CASE j = n
        BY <1>2, <2>1, <3>1
    <3>2. CASE j \in 1 .. n - 1
      <4>1. PICK a \in 1 .. l : g.ids[a] = Home[found[j]]
        BY <1>2, <3>2
      <4> QED
        BY <1>2, <2>1, <4>1
    <3> QED
        BY <1>1, <3>1, <3>2
  <2>6. ASSUME NEW a \in 1 .. Len(h.ids), NEW b \in 1 .. Len(h.ids), a < b
        PROVE  h.ids[a] # h.ids[b] /\ Named[h.ids[a]] <= Named[h.ids[b]]
    <3>1. a \in 1 .. l
        BY <1>2, <2>1, <2>6
    <3>2. CASE b = l + 1
        BY <2>1, <2>3, <3>1, <3>2
    <3>3. CASE b \in 1 .. l
      <4>1. h.ids[a] = g.ids[a] /\ h.ids[b] = g.ids[b]
        BY <2>1, <3>1, <3>3
      <4>2. g.ids[a] # g.ids[b] /\ Named[g.ids[a]] <= Named[g.ids[b]]
        BY <1>2, <2>6, <3>1, <3>3
      <4> QED
        BY <4>1, <4>2
    <3> QED
        BY <1>2, <2>1, <3>2, <3>3
  <2>7. Listed(h, found, n)
    BY <2>1, <2>4, <2>5, <2>6 DEF Listed
  <2> QED
    BY <2>7 DEF h
<1>6. CASE g.rooms[p] # <<>>
  <2>1. PICK j \in 1 .. n - 1 : Home[found[j]] = p
    <3>1. 1 \in 1 .. Len(g.rooms[p])
        BY <1>3, <1>6
    <3> QED
        BY <1>3, <3>1
  <2>2. PICK a \in 1 .. l : g.ids[a] = p
    BY <1>2, <2>1
  <2>3. h.ids = g.ids
    BY <1>4, <1>6
  <2>4. \A b \in 1 .. l : \E i \in 1 .. n : g.ids[b] = Home[found[i]]
    <3>1. \A i \in 1 .. n - 1 : i \in 1 .. n
        BY <1>1
    <3> QED
        BY <1>2, <3>1
  <2>5. ASSUME NEW i \in 1 .. n
        PROVE  \E b \in 1 .. l : g.ids[b] = Home[found[i]]
    <3>1. CASE i = n
        BY <2>2, <3>1
    <3>2. CASE i \in 1 .. n - 1
        BY <1>2, <3>2
    <3> QED
        BY <1>1, <3>1, <3>2
  <2>6. Len(h.ids) = l
    BY <2>3 DEF l
  <2>7. Listed(h, found, n)
    <3> HIDE DEF t, p
    <3>1. h.ids \in Seq(Prop)
        BY <1>2, <2>3
    <3>2. \A b \in 1 .. Len(h.ids) : \E i \in 1 .. n : h.ids[b] = Home[found[i]]
        BY <2>3, <2>4, <2>6
    <3>3. \A i \in 1 .. n : \E b \in 1 .. Len(h.ids) : h.ids[b] = Home[found[i]]
        BY <2>3, <2>5, <2>6
    <3>4. \A b, c \in 1 .. Len(h.ids) : b < c => /\ h.ids[b] # h.ids[c]
                                                 /\ Named[h.ids[b]] <= Named[h.ids[c]]
        BY <1>2, <2>3, <2>6
    <3> QED
        BY <3>1, <3>2, <3>3, <3>4 DEF Listed
  <2> QED
    BY <2>7 DEF h
<1> QED
    BY <1>5, <1>6

LEMMA RowAdded ==
    ASSUME NEW found, Sorted(found), NEW n \in 1 .. Len(found), NEW g,
           Groups(g, found, n - 1)
    PROVE  Groups(AfterRow(g, found[n]), found, n)
<1> DEFINE t == found[n]
           h == AfterRow(g, t)
<1>1. Home[t] \in Prop /\ Len(found) \in Nat
    BY CatalogueAssumption DEF Sorted
<1>2. /\ h = [ids |-> h.ids, rooms |-> h.rooms]
      /\ h.rooms = [g.rooms EXCEPT ![Home[t]] = Append(@, t)]
    BY DEF AfterRow
<1>3. Listed(h, found, n)
    BY PropertyAdded
<1> HIDE DEF h
<1>4. h.rooms = [p \in Prop |-> h.rooms[p]]
    BY <1>2 DEF Groups
<1>5. ASSUME NEW p \in Prop
      PROVE  RoomsOf(h.rooms[p], p, found, n)
  <2>1. RoomsOf(g.rooms[p], p, found, n - 1)
    BY DEF Groups
  <2>2. CASE p = Home[t]
    <3>1. h.rooms[p] = Append(g.rooms[p], t)
        BY <1>2, <2>2 DEF Groups
    <3> QED
        BY <2>1, <2>2, <3>1, RoomAdded
  <2>3. CASE p # Home[t]
    <3>1. h.rooms[p] = g.rooms[p]
        BY <1>2, <2>3 DEF Groups
    <3>2. \A j \in 1 .. n : j \in 1 .. n - 1 \/ j = n
        BY <1>1
    <3>3. \A j \in 1 .. n - 1 : j \in 1 .. n
        BY <1>1
    <3> QED
        BY <2>1, <2>3, <3>1, <3>2, <3>3 DEF RoomsOf
  <2> QED
    BY <2>2, <2>3
<1>6. Groups(h, found, n)
    BY <1>2, <1>3, <1>4, <1>5 DEF Groups
<1> QED
    BY <1>6 DEF h

\* for rows.Next(): what is said of the first rows holds in the end of all.
LEMMA AllGrouped ==
    ASSUME NEW found, Sorted(found)
    PROVE  Groups(Grouped(found), found, Len(found))
<1>1. found \in Seq(RType) /\ Len(found) \in Nat
    BY DEF Sorted
<1>2. PICK f : IsLoop(f, found, Len(found)) /\ Grouped(found) = f[Len(found)]
    BY <1>1, GroupedByLoop
<1> DEFINE T == {m \in 0 .. Len(found) : ~ Groups(f[m], found, m)}
<1>3. SUFFICES ASSUME T # {}
               PROVE  FALSE
    BY <1>1, <1>2
<1>4. T \in SUBSET Nat
    BY <1>1
<1>5. PICK m \in T : \A k \in T : m <= k
    BY <1>3, <1>4, Least
<1>6. CASE m = 0
  <2>1. f[0] = NoGroups
    BY <1>1, <1>2 DEF IsLoop
  <2>2. Listed(NoGroups, found, 0)
    BY DEF Listed, NoGroups
  <2>3. \A p \in Prop : NoGroups.rooms[p] = <<>> /\ RoomsOf(<<>>, p, found, 0)
    BY DEF RoomsOf, NoGroups
  <2>4. /\ NoGroups = [ids |-> NoGroups.ids, rooms |-> NoGroups.rooms]
        /\ NoGroups.rooms = [p \in Prop |-> NoGroups.rooms[p]]
    BY DEF NoGroups
  <2>5. Groups(NoGroups, found, 0)
    BY <2>2, <2>3, <2>4 DEF Groups
  <2> QED
    BY <1>5, <1>6, <2>1, <2>5
<1>7. CASE m \in 1 .. Len(found)
  <2>1. m - 1 \in 0 .. Len(found) /\ m - 1 \notin T
    BY <1>1, <1>5, <1>7
  <2>2. Groups(f[m - 1], found, m - 1)
    BY <2>1
  <2>3. f[m] = AfterRow(f[m - 1], found[m])
    <3>1. \A i \in 0 .. Len(found) :
             f[i] = IF i = 0 THEN NoGroups ELSE AfterRow(f[i - 1], found[i])
        BY <1>2 DEF IsLoop
    <3>2. m \in 0 .. Len(found) /\ m # 0
        BY <1>1, <1>7
    <3> QED
        BY <3>1, <3>2
  <2>4. Groups(f[m], found, m)
    BY <1>7, <2>2, <2>3, RowAdded
  <2> QED
    BY <1>5, <2>4
<1> QED
    BY <1>1, <1>5, <1>6, <1>7

-----------------------------------------------------------------------------
(* The pages *)

\* results[start:end] has the results from number b + 1 on, size of them or
\* what there is.
LEMMA SliceFrom ==
    ASSUME NEW order \in Seq(Prop), NEW page \in Nat \ {0}, NEW size \in Nat \ {0},
           NEW b \in Nat, b = (page - 1) * size
    PROVE  LET shown == Slice(order, page, size)
           IN  /\ shown \in Seq(Prop)
               /\ \A j \in 1 .. Len(shown) : /\ j <= size /\ b + j \in 1 .. Len(order)
                                            /\ shown[j] = order[b + j]
               /\ \A a \in 1 .. Len(order) :
                     b < a /\ a <= b + size => a - b \in 1 .. Len(shown)
<1> DEFINE n      == Len(order)
           cut(k) == IF k > n THEN n ELSE k
           start  == cut(b)
           end    == cut(start + size)
           shown  == SubSeq(order, start + 1, end)
<1>1. Slice(order, page, size) = shown
    BY DEF Slice
<1>2. n \in Nat /\ start \in 0 .. n /\ end \in 0 .. n /\ start <= end
    OBVIOUS
<1>3. \A j \in start + 1 .. end : j \in 1 .. n /\ order[j] \in Prop
    BY <1>2
<1>4. n = Len(order) /\ (b < n => start = b) /\ (b >= n => start = n /\ end = n)
    BY <1>2
<1>5. b < n => end = IF b + size > n THEN n ELSE b + size
    BY <1>4
<1> HIDE DEF start, end, n
<1>6. /\ shown \in Seq(Prop)
      /\ Len(shown) = IF start + 1 <= end THEN end - (start + 1) + 1 ELSE 0
      /\ \A j \in 1 .. end - (start + 1) + 1 : shown[j] = order[start + 1 + j - 1]
    BY <1>2, <1>3, SubSeqProperties
<1> HIDE DEF shown
<1>7. Len(shown) = end - start
    BY <1>2, <1>6
<1>8. ASSUME NEW j \in 1 .. Len(shown)
      PROVE  j <= size /\ b + j \in 1 .. n /\ shown[j] = order[b + j]
  <2>1. b < n
    BY <1>2, <1>4, <1>7
  <2>2. start = b /\ end <= b + size /\ end <= n
    BY <1>2, <1>4, <1>5, <2>1
  <2>3. shown[j] = order[start + 1 + j - 1] /\ start + 1 + j - 1 = b + j
    BY <1>2, <1>6, <1>7, <2>2
  <2> QED
    BY <1>2, <1>7, <2>2, <2>3
<1>9. ASSUME NEW a \in 1 .. n, b < a, a <= b + size
      PROVE  a - b \in 1 .. Len(shown)
    BY <1>2, <1>4, <1>5, <1>7, <1>9
<1> QED
    BY <1>1, <1>4, <1>6, <1>8, <1>9

LEMMA Product ==
    ASSUME NEW i \in Nat, NEW size \in Nat
    PROVE  i * size \in Nat /\ (i + 1) * size = i * size + size
OBVIOUS

\* Every result is on some page ...
LEMMA PageOf ==
    ASSUME NEW a \in Nat \ {0}, NEW size \in Nat \ {0}
    PROVE  \E i \in 1 .. a : (i - 1) * size < a /\ a <= (i - 1) * size + size
<1> DEFINE T == {i \in Nat : a <= i * size}
<1>1. a \in T
    OBVIOUS
<1>2. PICK i \in T : \A k \in T : i <= k
    BY <1>1, Least
<1>3. i # 0 /\ i <= a
    BY <1>1, <1>2
<1>4. i - 1 \in Nat /\ i - 1 \notin T
    BY <1>2, <1>3
<1>5. (i - 1) * size \in Nat /\ i * size = (i - 1) * size + size
    BY <1>4, Product
<1>6. (i - 1) * size < a
    BY <1>4, <1>5
<1> QED
    BY <1>2, <1>3, <1>5, <1>6

\* ... and pages do not overlap.
LEMMA PagesApart ==
    ASSUME NEW i \in Nat \ {0}, NEW k \in Nat \ {0}, i < k, NEW size \in Nat \ {0}
    PROVE  (i - 1) * size + size <= (k - 1) * size
<1>1. k - 1 - i \in Nat /\ i - 1 \in Nat
    OBVIOUS
<1>2. (k - 1 - i) * size \in Nat
    BY <1>1, Product
<1>3. (k - 1) * size = (i - 1) * size + size + (k - 1 - i) * size
    OBVIOUS
<1>4. (i - 1) * size \in Nat
    BY <1>1, Product
<1> QED
    BY <1>2, <1>3, <1>4

-----------------------------------------------------------------------------
(* What the guest sees *)

LEMMA HotelsFound ==
    ASSUME StorefrontTypeOK, Within, NEW S \in SUBSET Night, S # {}, IsFiniteSet(S),
           NEW guests, NEW where \in SUBSET Prop,
           NEW found \in QueryRows(S, guests, where)
    PROVE  LET ids == Grouped(found).ids
           IN  /\ ids \in Seq(Prop)
               /\ \A a \in 1 .. Len(ids) : ids[a] \in Hotels(S, guests, where)
               /\ \A p \in Hotels(S, guests, where) : \E a \in 1 .. Len(ids) : ids[a] = p
               /\ \A a, b \in 1 .. Len(ids) : a < b => /\ ids[a] # ids[b]
                                                      /\ Named[ids[a]] <= Named[ids[b]]
               /\ Len(ids) = Cardinality(Hotels(S, guests, where))
<1> DEFINE ids == Grouped(found).ids
           H   == Hotels(S, guests, where)
<1>1. /\ Sorted(found)
      /\ \A j \in 1 .. Len(found) : found[j] \in Hits(S, guests, where)
      /\ \A t \in Hits(S, guests, where) : \E j \in 1 .. Len(found) : found[j] = t
    BY QueryFinds
<1>2. Listed(Grouped(found), found, Len(found))
    BY <1>1, AllGrouped DEF Groups
<1>3. /\ ids \in Seq(Prop)
      /\ \A a \in 1 .. Len(ids) : \E j \in 1 .. Len(found) : ids[a] = Home[found[j]]
      /\ \A j \in 1 .. Len(found) : \E a \in 1 .. Len(ids) : ids[a] = Home[found[j]]
      /\ \A a, b \in 1 .. Len(ids) : a < b => /\ ids[a] # ids[b]
                                              /\ Named[ids[a]] <= Named[ids[b]]
    BY <1>2 DEF Listed
<1> HIDE DEF ids
<1>4. ASSUME NEW t \in Hits(S, guests, where)
      PROVE  Home[t] \in H
    BY DEF Hits, Hotels, Fitting, OfProperty
<1>5. ASSUME NEW p \in H
      PROVE  \E t \in Hits(S, guests, where) : Home[t] = p
    BY DEF Hits, Hotels, Fitting, OfProperty
<1> HIDE DEF H
<1>6. ASSUME NEW a \in 1 .. Len(ids)
      PROVE  ids[a] \in H
  <2>1. PICK j \in 1 .. Len(found) : ids[a] = Home[found[j]]
    BY <1>3
  <2> QED
    BY <1>1, <1>4, <2>1
<1>7. ASSUME NEW p \in H
      PROVE  \E a \in 1 .. Len(ids) : ids[a] = p
  <2>1. PICK t \in Hits(S, guests, where) : Home[t] = p
    BY <1>5
  <2>2. PICK j \in 1 .. Len(found) : found[j] = t
    BY <1>1
  <2> QED
    BY <1>3, <2>1, <2>2
<1>8. ASSUME NEW a \in 1 .. Len(ids), NEW b \in 1 .. Len(ids), a # b
      PROVE  ids[a] # ids[b]
  <2>1. a < b \/ b < a
    BY <1>8
  <2> QED
    BY <1>3, <2>1
<1>9. Len(ids) = Cardinality(H)
    BY <1>3, <1>6, <1>7, <1>8, AsMany
<1> QED
    BY <1>3, <1>6, <1>7, <1>9 DEF ids, H

LEMMA RoomsFound ==
    ASSUME StorefrontTypeOK, Within, NEW S \in SUBSET Night, S # {}, IsFiniteSet(S),
           NEW guests, NEW where \in SUBSET Prop,
           NEW found \in QueryRows(S, guests, where), NEW p \in Hotels(S, guests, where)
    PROVE  LET seq == Grouped(found).rooms[p]
               fit == Fitting(S, guests, p)
           IN  /\ seq \in Seq(RType)
               /\ \A a \in 1 .. Len(seq) : seq[a] \in fit
               /\ \A t \in fit : \E a \in 1 .. Len(seq) : seq[a] = t
               /\ \A a, b \in 1 .. Len(seq) : a < b => Rate[seq[a]] <= Rate[seq[b]]
               /\ Len(seq) = Cardinality(fit)
<1> DEFINE seq == Grouped(found).rooms[p]
           fit == Fitting(S, guests, p)
<1>1. /\ Sorted(found)
      /\ \A j \in 1 .. Len(found) : found[j] \in Hits(S, guests, where)
      /\ \A t \in Hits(S, guests, where) : \E j \in 1 .. Len(found) : found[j] = t
    BY QueryFinds
<1>2. p \in Prop
    BY DEF Hotels
<1>3. RoomsOf(seq, p, found, Len(found))
    BY <1>1, <1>2, AllGrouped DEF Groups
<1>4. /\ seq \in Seq(RType)
      /\ \A a \in 1 .. Len(seq) : \E j \in 1 .. Len(found) :
            seq[a] = found[j] /\ Home[found[j]] = p
      /\ \A j \in 1 .. Len(found) :
            Home[found[j]] = p => \E a \in 1 .. Len(seq) : seq[a] = found[j]
      /\ \A a, b \in 1 .. Len(seq) : a < b => /\ seq[a] # seq[b]
                                              /\ Rate[seq[a]] <= Rate[seq[b]]
    BY <1>3 DEF RoomsOf
<1> HIDE DEF seq
<1>5. \A t \in Hits(S, guests, where) : Home[t] = p => t \in fit
    BY DEF Hits, Fitting, OfProperty
<1>6. \A t \in fit : t \in Hits(S, guests, where) /\ Home[t] = p
    BY DEF Hits, Hotels, Fitting, OfProperty
<1> HIDE DEF fit
<1>7. ASSUME NEW a \in 1 .. Len(seq)
      PROVE  seq[a] \in fit
  <2>1. PICK j \in 1 .. Len(found) : seq[a] = found[j] /\ Home[found[j]] = p
    BY <1>4
  <2> QED
    BY <1>1, <1>5, <2>1
<1>8. ASSUME NEW t \in fit
      PROVE  \E a \in 1 .. Len(seq) : seq[a] = t
  <2>1. PICK j \in 1 .. Len(found) : found[j] = t
    BY <1>1, <1>6
  <2> QED
    BY <1>4, <1>6, <2>1
<1>9. ASSUME NEW a \in 1 .. Len(seq), NEW b \in 1 .. Len(seq), a # b
      PROVE  seq[a] # seq[b]
  <2>1. a < b \/ b < a
    BY <1>9
  <2> QED
    BY <1>4, <2>1
<1>10. Len(seq) = Cardinality(fit)
    BY <1>4, <1>7, <1>8, <1>9, AsMany
<1> QED
    BY <1>4, <1>7, <1>8, <1>10 DEF seq, fit

\* The room types of a result, with what is left of each.
TypesOf(seq, S) ==
    [j \in DOMAIN seq |-> [type |-> seq[j], units |-> Left(seq[j], S)]]

LEMMA TypesShown ==
    ASSUME StorefrontTypeOK, Within, NEW S \in SUBSET Night, S # {},
           NEW fit \in SUBSET RType, NEW seq \in Seq(RType),
           \A a \in 1 .. Len(seq) : seq[a] \in fit,
           \A t \in fit : \E a \in 1 .. Len(seq) : seq[a] = t,
           \A a, b \in 1 .. Len(seq) : a < b => Rate[seq[a]] <= Rate[seq[b]],
           Len(seq) = Cardinality(fit)
    PROVE  ExactTypes(TypesOf(seq, S), S, fit)
<1> DEFINE n     == Len(seq)
           shown == TypesOf(seq, S)
<1>1. /\ n \in Nat /\ DOMAIN seq = 1 .. n
      /\ \A j \in 1 .. n : seq[j] \in fit /\ seq[j] \in RType
    OBVIOUS
<1>2. /\ DOMAIN shown = 1 .. n
      /\ \A j \in 1 .. n : shown[j].type = seq[j] /\ shown[j].units = Left(seq[j], S)
    BY <1>1 DEF TypesOf
<1>3. Len(shown) = n
  <2>1. shown \in Seq({shown[j] : j \in 1 .. n})
    BY <1>1, <1>2 DEF TypesOf
  <2> QED
    BY <1>1, <1>2, <2>1
<1> HIDE DEF shown
<1>4. {shown[j].type : j \in DOMAIN shown} = fit
    BY <1>1, <1>2
<1>5. \A i, j \in DOMAIN shown : i < j => Rate[shown[i].type] <= Rate[shown[j].type]
    BY <1>2
<1>6. ASSUME NEW j \in DOMAIN shown
      PROVE  LET row(k) == rows[shown[j].type][k]
             IN  /\ \A k \in S : row(k).sold + shown[j].units <= row(k).total
                 /\ \E k \in S : row(k).sold + shown[j].units = row(k).total
  <2> DEFINE t == seq[j]
  <2>1. t \in RType /\ shown[j].type = t /\ shown[j].units = Left(t, S)
    BY <1>1, <1>2
  <2> HIDE DEF t
  <2>2. /\ Left(t, S) \in Nat
        /\ \A k \in S : Left(t, S) <= Remaining(t, k)
        /\ \E k \in S : Left(t, S) = Remaining(t, k)
    BY <2>1, LeftIsLeast
  <2>3. \A k \in S : rows[t][k].sold \in Nat /\ rows[t][k].total \in Nat
    BY <2>1 DEF StorefrontTypeOK, Row
  <2> DEFINE left == Left(t, S)
  <2>4. ASSUME NEW k \in S
        PROVE  /\ left <= Remaining(t, k) => rows[t][k].sold + left <= rows[t][k].total
               /\ left = Remaining(t, k) => rows[t][k].sold + left = rows[t][k].total
    <3>1. left \in Nat /\ rows[t][k].sold \in Nat /\ rows[t][k].total \in Nat
        BY <2>2, <2>3
    <3> HIDE DEF left
    <3> QED
        BY <3>1 DEF Remaining
  <2>5. \A k \in S : rows[t][k].sold + Left(t, S) <= rows[t][k].total
    BY <2>2, <2>4
  <2>6. \E k \in S : rows[t][k].sold + Left(t, S) = rows[t][k].total
    BY <2>2, <2>4
  <2> QED
    BY <2>1, <2>5, <2>6
<1>7. Len(shown) = Cardinality(fit)
    BY <1>3
<1>8. ExactTypes(shown, S, fit)
    BY <1>4, <1>5, <1>6, <1>7 DEF ExactTypes
<1> QED
    BY <1>8 DEF shown

\* A page that is asked for, with a number that is one.
LEMMA PageShows ==
    ASSUME NEW in \in Int, NEW out \in Int, in < out, today \in Int, today <= in,
           NEW i \in Nat \ {0}, NEW size \in Int, NEW found
    PROVE  LET g     == Grouped(found)
               shown == Slice(g.ids, i, PageSize(size))
               body  == SearchProperties(in, out, i, size, found).body
           IN  /\ body.results = [j \in DOMAIN shown |->
                                     [prop  |-> shown[j],
                                      types |-> TypesOf(g.rooms[shown[j]], in .. out - 1)]]
               /\ body.total = Len(g.ids)
<1>1. Page(i) = i
    BY DEF Page
<1>2. ~ (out <= in \/ in < today)
    OBVIOUS
<1> QED
    BY <1>1, <1>2 DEF SearchProperties, Available, TypesOf

LEMMA StayOfNights ==
    ASSUME StorefrontTypeOK, NEW in \in today .. LastNight,
           NEW out \in 1 .. LastNight + 1, in < out
    PROVE  /\ in .. out - 1 \in SUBSET Night /\ in .. out - 1 # {}
           /\ IsFiniteSet(in .. out - 1)
           /\ in \in Int /\ out \in Int /\ today \in Int /\ today <= in
<1> DEFINE S == in .. out - 1
<1>1. /\ S \in SUBSET Night /\ S # {} /\ IsFiniteSet(S)
      /\ in \in Int /\ out \in Int /\ today \in Int /\ today <= in
  <2>1. today \in 1 .. LastDay /\ today \in Int /\ LastNight \in Int
    BY DaysAssumption DEF StorefrontTypeOK, LastNight
  <2>2. in \in Int /\ out \in Int /\ 1 <= today /\ today <= in /\ out <= LastNight + 1
    BY <2>1
  <2>3. IsFiniteSet(S)
    BY <2>2, FS_Interval
  <2>4. in \in S /\ S \in SUBSET Night
    BY <2>1, <2>2 DEF Night
  <2> HIDE DEF S
  <2> QED
    BY <2>1, <2>2, <2>3, <2>4
<1> QED
    BY <1>1

\* What is before page i, and what is on it.
Start(i, size) == (i - 1) * PageSize(size)

Results(in, out, i, size, found) == SearchProperties(in, out, i, size, found).body.results

LEMMA PageIsCut ==
    ASSUME StorefrontTypeOK, NEW in \in today .. LastNight,
           NEW out \in 1 .. LastNight + 1, in < out, NEW size \in Int,
           NEW found, Grouped(found).ids \in Seq(Prop), NEW i \in Nat \ {0}
    PROVE  LET g   == Grouped(found)
               n   == Len(g.ids)
               res == Results(in, out, i, size, found)
               b   == Start(i, size)
               sz  == PageSize(size)
           IN  /\ DOMAIN res \subseteq Nat \ {0}
               /\ \A j \in DOMAIN res :
                     /\ j <= sz /\ b + j \in 1 .. n
                     /\ res[j].prop = g.ids[b + j]
                     /\ res[j].types = TypesOf(g.rooms[g.ids[b + j]], in .. out - 1)
               /\ \A a \in 1 .. n : b < a /\ a <= b + sz => a - b \in DOMAIN res
               /\ SearchProperties(in, out, i, size, found).body.total = n
<1> DEFINE g   == Grouped(found)
           ids == g.ids
           n   == Len(ids)
           res == Results(in, out, i, size, found)
           b   == Start(i, size)
           sz  == PageSize(size)
           S   == in .. out - 1
<1>1. in \in Int /\ out \in Int /\ today \in Int /\ today <= in
    BY StayOfNights
<1>2. sz \in Nat \ {0}
    BY LimitAssumption DEF PageSize
<1> DEFINE shown == Slice(ids, i, sz)
<1>3. /\ res = [j \in DOMAIN shown |-> [prop  |-> shown[j],
                                        types |-> TypesOf(g.rooms[shown[j]], S)]]
      /\ SearchProperties(in, out, i, size, found).body.total = n
  <2>1. LET h    == Grouped(found)
            cut  == Slice(h.ids, i, PageSize(size))
            body == SearchProperties(in, out, i, size, found).body
        IN  /\ body.results = [j \in DOMAIN cut |->
                                  [prop  |-> cut[j],
                                   types |-> TypesOf(h.rooms[cut[j]], in .. out - 1)]]
            /\ body.total = Len(h.ids)
    BY <1>1, PageShows
  <2> QED
    BY <2>1 DEF Results
<1>4. ids \in Seq(Prop) /\ n \in Nat /\ n = Len(ids)
    OBVIOUS
<1>5. b = (i - 1) * sz
    BY DEF Start
<1> HIDE DEF g, ids, n, res, b, sz, S
<1>6. b \in Nat
  <2>1. i - 1 \in Nat
    OBVIOUS
  <2> QED
    BY <1>2, <1>5, <2>1, Product
<1>7. /\ shown \in Seq(Prop)
      /\ \A j \in 1 .. Len(shown) : /\ j <= sz /\ b + j \in 1 .. n
                                   /\ shown[j] = ids[b + j]
      /\ \A a \in 1 .. n : b < a /\ a <= b + sz => a - b \in 1 .. Len(shown)
  <2>1. LET cut == Slice(ids, i, sz)
        IN  /\ cut \in Seq(Prop)
            /\ \A j \in 1 .. Len(cut) : /\ j <= sz /\ b + j \in 1 .. Len(ids)
                                       /\ cut[j] = ids[b + j]
            /\ \A a \in 1 .. Len(ids) :
                  b < a /\ a <= b + sz => a - b \in 1 .. Len(cut)
    BY <1>2, <1>4, <1>5, <1>6, SliceFrom
  <2> QED
    BY <1>4, <2>1
<1> HIDE DEF shown
<1>8. DOMAIN shown = 1 .. Len(shown) /\ Len(shown) \in Nat
    BY <1>7
<1>9. /\ DOMAIN res \subseteq Nat \ {0}
      /\ \A j \in DOMAIN res : /\ j <= sz /\ b + j \in 1 .. n
                                /\ res[j].prop = ids[b + j]
                                /\ res[j].types = TypesOf(g.rooms[ids[b + j]], S)
      /\ \A a \in 1 .. n : b < a /\ a <= b + sz => a - b \in DOMAIN res
    BY <1>3, <1>7, <1>8
<1> QED
    BY <1>3, <1>9 DEF g, ids, n, res, b, sz, S

LEMMA PagesAreExact ==
    ASSUME StorefrontTypeOK, Within, NEW in \in today .. LastNight,
           NEW out \in 1 .. LastNight + 1, in < out,
           NEW guests, NEW where \in SUBSET Prop, NEW size \in Int,
           NEW found \in QueryRows(in .. out - 1, guests, where)
    PROVE  ExactPages(in, out, guests, size, Hotels(in .. out - 1, guests, where), found)
<1> DEFINE S  == in .. out - 1
           H  == Hotels(S, guests, where)
           sz == PageSize(size)
<1>1. /\ S \in SUBSET Night /\ S # {} /\ IsFiniteSet(S)
      /\ in \in Int /\ out \in Int /\ today \in Int /\ today <= in
    BY StayOfNights
<1>2. sz \in Nat \ {0}
    BY LimitAssumption DEF PageSize
<1>3. IsFiniteSet(Prop) /\ Cardinality(Prop) \in Nat
    BY CatalogueAssumption, FS_CardinalityType
<1>4. H \in SUBSET Prop /\ Cardinality(H) \in Nat /\ Cardinality(H) <= Cardinality(Prop)
    BY <1>3, FS_Subset, FS_CardinalityType DEF Hotels
<1>5. found \in QueryRows(S, guests, where) /\ H = Hotels(S, guests, where)
    OBVIOUS
<1>6. sz = PageSize(size) /\ S = in .. out - 1
    OBVIOUS
<1> HIDE DEF S, H, sz
<1> DEFINE pages == Pages
           g     == Grouped(found)
           ids   == g.ids
           n     == Len(ids)
           res(i) == Results(in, out, i, size, found)
           b(i)  == (i - 1) * sz
<1>7. pages = 1 .. Cardinality(Prop) + 1
    BY DEF Pages
<1> HIDE DEF pages
<1>8. /\ ids \in Seq(Prop) /\ n \in Nat
      /\ \A a \in 1 .. n : ids[a] \in H
      /\ \A p \in H : \E a \in 1 .. n : ids[a] = p
      /\ \A a, c \in 1 .. n : a < c => ids[a] # ids[c] /\ Named[ids[a]] <= Named[ids[c]]
      /\ n = Cardinality(H)
  <2>1. LET l == Grouped(found).ids
        IN  /\ l \in Seq(Prop)
            /\ \A a \in 1 .. Len(l) : l[a] \in H
            /\ \A p \in H : \E a \in 1 .. Len(l) : l[a] = p
            /\ \A a, c \in 1 .. Len(l) : a < c => /\ l[a] # l[c]
                                                  /\ Named[l[a]] <= Named[l[c]]
            /\ Len(l) = Cardinality(H)
    BY <1>1, <1>5, HotelsFound
  <2>2. ids = Grouped(found).ids /\ n = Len(ids)
    OBVIOUS
  <2>3. ids \in Seq(Prop) /\ n \in Nat
    BY <2>1, <2>2
  <2> HIDE DEF g, ids, n
  <2>4. /\ \A a \in 1 .. n : ids[a] \in H
        /\ \A p \in H : \E a \in 1 .. n : ids[a] = p
        /\ \A a, c \in 1 .. n : a < c => ids[a] # ids[c] /\ Named[ids[a]] <= Named[ids[c]]
        /\ n = Cardinality(H)
    BY <2>1, <2>2
  <2> QED
    BY <2>3, <2>4
<1>9. ASSUME NEW p \in H
      PROVE  ExactTypes(TypesOf(g.rooms[p], S), S, Fitting(S, guests, p))
  <2> DEFINE seq == g.rooms[p]
             fit == Fitting(S, guests, p)
  <2>1. /\ seq \in Seq(RType)
        /\ \A a \in 1 .. Len(seq) : seq[a] \in fit
        /\ \A t \in fit : \E a \in 1 .. Len(seq) : seq[a] = t
        /\ \A a, c \in 1 .. Len(seq) : a < c => Rate[seq[a]] <= Rate[seq[c]]
        /\ Len(seq) = Cardinality(fit)
    BY <1>1, <1>5, RoomsFound
  <2>2. fit \in SUBSET RType
    BY DEF Fitting, OfProperty, StorefrontTypeOK
  <2> HIDE DEF seq, fit
  <2>3. ExactTypes(TypesOf(seq, S), S, fit)
    BY <1>1, <2>1, <2>2, TypesShown
  <2> QED
    BY <2>3 DEF seq, fit
<1>10. ASSUME NEW i \in Nat \ {0}
      PROVE  SearchProperties(in, out, i, size, found).body.total = n
  <2>1. SearchProperties(in, out, i, size, found).body.total = Len(Grouped(found).ids)
    BY <1>8, PageIsCut DEF Start
  <2> QED
    BY <2>1
<1>11. ASSUME NEW i \in Nat \ {0}
      PROVE  /\ DOMAIN res(i) \subseteq Nat \ {0}
             /\ \A j \in DOMAIN res(i) :
                   /\ j <= sz /\ b(i) + j \in 1 .. n
                   /\ res(i)[j].prop = ids[b(i) + j]
                   /\ res(i)[j].types = TypesOf(g.rooms[ids[b(i) + j]], S)
             /\ \A a \in 1 .. n : b(i) < a /\ a <= b(i) + sz => a - b(i) \in DOMAIN res(i)
    BY <1>8, PageIsCut DEF Start, S, sz
<1> HIDE DEF g, ids, n, res
<1> DEFINE onPage(i) == {<<i, j, res(i)[j]>> : j \in DOMAIN res(i)}
           seen      == UNION {onPage(i) : i \in pages}
           turned(x, y) == x[1] < y[1] \/ (x[1] = y[1] /\ x[2] < y[2])
           place(x)  == b(x[1]) + x[2]
<1>12. \A i \in pages : i \in Nat \ {0}
    BY <1>3, <1>7
<1>13. ASSUME NEW i \in Nat \ {0}
       PROVE  b(i) \in Nat
  <2>1. i - 1 \in Nat
    OBVIOUS
  <2> QED
    BY <1>2, <2>1, Product
<1>14. ASSUME NEW i \in pages, NEW j \in DOMAIN res(i)
       PROVE  <<i, j, res(i)[j]>> \in seen
    OBVIOUS
<1>15. ASSUME NEW x \in seen
       PROVE  /\ x[1] \in Nat \ {0} /\ x[2] \in Nat \ {0} /\ x[2] <= sz
              /\ place(x) \in 1 .. n
              /\ x[3].prop = ids[place(x)]
              /\ x[3].types = TypesOf(g.rooms[ids[place(x)]], S)
  <2>1. PICK i \in pages : x \in onPage(i)
    OBVIOUS
  <2>2. PICK j \in DOMAIN res(i) : x = <<i, j, res(i)[j]>>
    BY <2>1
  <2>3. i \in Nat \ {0}
    BY <1>12
  <2>4. /\ j \in Nat \ {0} /\ j <= sz /\ b(i) + j \in 1 .. n
        /\ res(i)[j].prop = ids[b(i) + j]
        /\ res(i)[j].types = TypesOf(g.rooms[ids[b(i) + j]], S)
    BY <1>11, <2>2, <2>3
  <2>5. x[1] = i /\ x[2] = j /\ x[3] = res(i)[j]
    BY <2>2
  <2> QED
    BY <2>3, <2>4, <2>5
<1>16. ASSUME NEW a \in 1 .. n
       PROVE  \E x \in seen : x[3].prop = ids[a]
  <2>1. a \in Nat \ {0} /\ a <= Cardinality(Prop)
    BY <1>3, <1>4, <1>8
  <2>2. PICK i \in 1 .. a : b(i) < a /\ a <= b(i) + sz
    BY <1>2, <2>1, PageOf
  <2>3. i \in pages /\ i \in Nat \ {0}
    BY <1>3, <1>7, <2>1, <2>2
  <2>4. a - b(i) \in DOMAIN res(i)
    BY <1>11, <2>2, <2>3
  <2>5. b(i) + (a - b(i)) = a
    BY <1>13, <2>1, <2>3
  <2>6. res(i)[a - b(i)].prop = ids[a]
    BY <1>11, <2>3, <2>4, <2>5
  <2> DEFINE x == <<i, a - b(i), res(i)[a - b(i)]>>
  <2>7. x \in seen /\ x[3] = res(i)[a - b(i)]
    BY <1>14, <2>3, <2>4
  <2> QED
    BY <2>6, <2>7
<1> HIDE DEF seen
<1>17. ASSUME NEW x \in seen, NEW y \in seen, turned(x, y)
       PROVE  place(x) < place(y)
  <2>1. /\ x[1] \in Nat \ {0} /\ x[2] \in Nat \ {0} /\ x[2] <= sz
        /\ y[1] \in Nat \ {0} /\ y[2] \in Nat \ {0}
    BY <1>15
  <2>2. b(x[1]) \in Nat /\ b(y[1]) \in Nat
    BY <1>13, <2>1
  <2>3. x[1] < y[1] => b(x[1]) + sz <= b(y[1])
    BY <1>2, <2>1, PagesApart
  <2> HIDE DEF b
  <2>4. CASE x[1] < y[1]
    BY <1>2, <2>1, <2>2, <2>3, <2>4
  <2>5. CASE x[1] = y[1] /\ x[2] < y[2]
    BY <2>1, <2>2, <2>5
  <2> QED
    BY <1>17, <2>4, <2>5
<1> HIDE DEF place
<1>18. {x[3].prop : x \in seen} = H
  <2>1. ASSUME NEW x \in seen
        PROVE  x[3].prop \in H
    BY <1>8, <1>15
  <2>2. ASSUME NEW p \in H
        PROVE  \E x \in seen : x[3].prop = p
    <3>1. PICK a \in 1 .. n : ids[a] = p
        BY <1>8
    <3> QED
        BY <1>16, <3>1
  <2> QED
    BY <2>1, <2>2
<1>19. ASSUME NEW x \in seen, NEW y \in seen, turned(x, y)
       PROVE  x[3].prop # y[3].prop /\ Named[x[3].prop] <= Named[y[3].prop]
  <2>1. /\ place(x) \in 1 .. n /\ place(y) \in 1 .. n /\ place(x) < place(y)
        /\ x[3].prop = ids[place(x)] /\ y[3].prop = ids[place(y)]
    BY <1>15, <1>17, <1>19
  <2> QED
    BY <1>8, <2>1
<1>20. ASSUME NEW x \in seen
       PROVE  ExactTypes(x[3].types, S, Fitting(S, guests, x[3].prop))
  <2>1. /\ ids[place(x)] \in H /\ x[3].prop = ids[place(x)]
        /\ x[3].types = TypesOf(g.rooms[ids[place(x)]], S)
    BY <1>8, <1>15
  <2> QED
    BY <1>9, <2>1
<1>21. ASSUME NEW i \in pages
       PROVE  SearchProperties(in, out, i, size, found).body.total = Cardinality(H)
  BY <1>8, <1>10, <1>12
<1> DEFINE answer(i) == SearchProperties(in, out, i, size, found).body
           answers   == {<<i, answer(i)>> : i \in pages}
           read(a)   == {<<a[1], j, a[2].results[j]>> : j \in DOMAIN a[2].results}
<1>22. \A a \in answers : a[2].total = Cardinality(H)
  BY <1>21
<1>23. seen = UNION {read(a) : a \in answers}
  <2>1. \A i \in pages : onPage(i) = read(<<i, answer(i)>>)
    BY DEF res, Results
  <2> HIDE DEF onPage, read, answer, pages
  <2>2. {read(a) : a \in answers} = {onPage(i) : i \in pages}
    BY <2>1
  <2> QED
    BY <2>2 DEF seen
<1>24. LET all == UNION {read(a) : a \in answers}
       IN  /\ {x[3].prop : x \in all} = H
           /\ \A x, y \in all : turned(x, y) => /\ x[3].prop # y[3].prop
                                                /\ Named[x[3].prop] <= Named[y[3].prop]
           /\ \A x \in all : ExactTypes(x[3].types, S, Fitting(S, guests, x[3].prop))
           /\ \A a \in answers : a[2].total = Cardinality(H)
    BY <1>18, <1>19, <1>20, <1>22, <1>23
<1> QED
    BY <1>24 DEF ExactPages, S, H, pages

-----------------------------------------------------------------------------
(* Two answers of one query *)

\* In a list without repetitions that has no other element before one of T, the
\* elements of T come first.
LEMMA ComeFirst ==
    ASSUME NEW X, NEW q \in Seq(X), NEW T,
           \A x \in T : \E a \in 1 .. Len(q) : q[a] = x,
           \A a, b \in 1 .. Len(q) : a < b => q[a] # q[b],
           \A a, b \in 1 .. Len(q) : a < b /\ q[b] \in T => q[a] \in T
    PROVE  /\ Cardinality(T) \in 0 .. Len(q)
           /\ \A a \in 1 .. Len(q) : q[a] \in T <=> a <= Cardinality(T)
<1> DEFINE n == Len(q)
           N == {a \in 1 .. n + 1 : a = n + 1 \/ q[a] \notin T}
<1>1. n \in Nat /\ n = Len(q)
    OBVIOUS
<1>2. PICK m \in N : \A a \in N : m <= a
  <2>1. N \in SUBSET Nat /\ n + 1 \in N
    BY <1>1
  <2> HIDE DEF N
  <2> QED
    BY <2>1, Least
<1> DEFINE k == m - 1
           r == SubSeq(q, 1, k)
<1>3. k \in 0 .. n /\ m = k + 1
    BY <1>1, <1>2
<1>4. ASSUME NEW a \in 1 .. n
      PROVE  q[a] \in T <=> a <= k
  <2>1. CASE a <= k
    <3>1. a \notin N
        BY <1>2, <1>3, <2>1
    <3> QED
        BY <1>1, <2>1, <3>1
  <2>2. CASE a > k
    <3>1. m \in 1 .. n /\ m <= a /\ q[m] \notin T
        BY <1>1, <1>2, <1>3, <2>2
    <3>2. q[a] \notin T
        BY <3>1
    <3> QED
        BY <2>2, <1>3, <3>2
  <2> QED
    BY <1>3, <2>1, <2>2
<1> HIDE DEF n, N, k
<1>5. r \in Seq(X) /\ Len(r) = k /\ \A a \in 1 .. k : r[a] = q[a] /\ a \in 1 .. n
    BY <1>1, <1>3
<1> HIDE DEF r
<1>6. \A a \in 1 .. Len(r) : r[a] \in T
    BY <1>4, <1>5
<1>7. \A x \in T : \E a \in 1 .. Len(r) : r[a] = x
  <2> SUFFICES ASSUME NEW x \in T
               PROVE  \E a \in 1 .. Len(r) : r[a] = x
    OBVIOUS
  <2>1. PICK a \in 1 .. n : q[a] = x
    BY <1>1
  <2>2. a \in 1 .. k
    BY <1>3, <1>4, <2>1
  <2> QED
    BY <1>5, <2>1, <2>2
<1>8. ASSUME NEW a \in 1 .. Len(r), NEW b \in 1 .. Len(r), a # b
      PROVE  r[a] # r[b]
  <2>1. /\ a \in 1 .. n /\ b \in 1 .. n /\ (a < b \/ b < a)
        /\ r[a] = q[a] /\ r[b] = q[b]
    BY <1>3, <1>5, <1>8
  <2> QED
    BY <1>1, <2>1
<1>9. k = Cardinality(T)
    BY <1>5, <1>6, <1>7, <1>8, AsMany
<1> QED
    BY <1>1, <1>3, <1>4, <1>9

\* In every answer the properties of a name have the same places: those after
\* the properties whose names come before it.
Earlier(H, name) == {q \in H : Named[q] < name}
NotLater(H, name) == {q \in H : Named[q] <= name}

LEMMA PlacesOfName ==
    ASSUME NEW H \in SUBSET Prop, NEW ids \in Seq(Prop), NEW name \in Nat,
           \A a \in 1 .. Len(ids) : ids[a] \in H,
           \A p \in H : \E a \in 1 .. Len(ids) : ids[a] = p,
           \A a, b \in 1 .. Len(ids) : a < b => /\ ids[a] # ids[b]
                                                /\ Named[ids[a]] <= Named[ids[b]]
    PROVE  /\ Cardinality(Earlier(H, name)) \in 0 .. Len(ids)
           /\ Cardinality(NotLater(H, name)) \in 0 .. Len(ids)
           /\ \A a \in 1 .. Len(ids) :
                 Named[ids[a]] = name <=> /\ Cardinality(Earlier(H, name)) < a
                                         /\ a <= Cardinality(NotLater(H, name))
<1> DEFINE T == Earlier(H, name)
           U == NotLater(H, name)
<1>1. \A p \in H : Named[p] \in Nat
    BY CatalogueAssumption
<1>2. /\ \A a \in 1 .. Len(ids) : ids[a] \in T <=> Named[ids[a]] < name
      /\ \A a \in 1 .. Len(ids) : ids[a] \in U <=> Named[ids[a]] <= name
      /\ T \subseteq H /\ U \subseteq H
    BY DEF Earlier, NotLater
<1> HIDE DEF T, U
<1>3. ASSUME NEW a \in 1 .. Len(ids), NEW b \in 1 .. Len(ids), a < b
      PROVE  (ids[b] \in T => ids[a] \in T) /\ (ids[b] \in U => ids[a] \in U)
  <2>1. /\ Named[ids[a]] \in Nat /\ Named[ids[b]] \in Nat
        /\ Named[ids[a]] <= Named[ids[b]]
    BY <1>1, <1>3
  <2> QED
    BY <1>2, <2>1
<1>4. /\ Cardinality(T) \in 0 .. Len(ids)
      /\ \A a \in 1 .. Len(ids) : ids[a] \in T <=> a <= Cardinality(T)
    BY <1>2, <1>3, ComeFirst
<1>5. /\ Cardinality(U) \in 0 .. Len(ids)
      /\ \A a \in 1 .. Len(ids) : ids[a] \in U <=> a <= Cardinality(U)
    BY <1>2, <1>3, ComeFirst
<1>6. ASSUME NEW a \in 1 .. Len(ids)
      PROVE  Named[ids[a]] = name <=> Cardinality(T) < a /\ a <= Cardinality(U)
  <2>1. Named[ids[a]] \in Nat
    BY <1>1
  <2> QED
    BY <1>2, <1>4, <1>5, <2>1
<1> QED
    BY <1>4, <1>5, <1>6 DEF T, U

\* The property at a place of an answer is shown on the page of that place.
LEMMA ShownAtPlace ==
    ASSUME StorefrontTypeOK, NEW in \in today .. LastNight,
           NEW out \in 1 .. LastNight + 1, in < out, NEW size \in Int,
           NEW found, Grouped(found).ids \in Seq(Prop),
           \A a, b \in 1 .. Len(Grouped(found).ids) :
               a < b => Grouped(found).ids[a] # Grouped(found).ids[b],
           NEW i \in Nat \ {0}
    PROVE  /\ \A p \in Shown(in, out, i, size, found) :
                 \E a \in 1 .. Len(Grouped(found).ids) : p = Grouped(found).ids[a]
           /\ \A a \in 1 .. Len(Grouped(found).ids) :
                 Grouped(found).ids[a] \in Shown(in, out, i, size, found)
                     <=> Start(i, size) < a /\ a <= Start(i, size) + PageSize(size)
<1> DEFINE ids == Grouped(found).ids
           n   == Len(ids)
           res == Results(in, out, i, size, found)
           b   == Start(i, size)
           sz  == PageSize(size)
           here == Shown(in, out, i, size, found)
<1>1. /\ DOMAIN res \subseteq Nat \ {0}
      /\ \A j \in DOMAIN res : /\ j <= sz /\ b + j \in 1 .. n
                                /\ res[j].prop = ids[b + j]
      /\ \A a \in 1 .. n : b < a /\ a <= b + sz => a - b \in DOMAIN res
    BY PageIsCut
<1>2. sz \in Nat \ {0} /\ n \in Nat
    BY LimitAssumption DEF PageSize
<1>3. b \in Nat
  <2>1. i - 1 \in Nat
    OBVIOUS
  <2> QED
    BY <1>2, <2>1, Product DEF Start
<1>4. here = {res[j].prop : j \in DOMAIN res}
    BY DEF Shown, Results
<1>5. \A a, c \in 1 .. n : a < c => ids[a] # ids[c]
    OBVIOUS
<1> HIDE DEF ids, n, res, b, sz, here
<1>6. ASSUME NEW a \in 1 .. n, ids[a] \in here
      PROVE  b < a /\ a <= b + sz
  <2>1. PICK j \in DOMAIN res : res[j].prop = ids[a]
    BY <1>4, <1>6
  <2>2. b + j \in 1 .. n /\ j \in Nat \ {0} /\ j <= sz /\ ids[b + j] = ids[a]
    BY <1>1, <2>1
  <2>3. b + j = a
    BY <1>2, <1>5, <2>2
  <2> QED
    BY <1>2, <1>3, <2>2, <2>3
<1>7. ASSUME NEW a \in 1 .. n, b < a, a <= b + sz
      PROVE  ids[a] \in here
  <2>1. a - b \in DOMAIN res
    BY <1>1, <1>7
  <2>2. b + (a - b) = a
    BY <1>2, <1>3
  <2>3. res[a - b].prop = ids[a]
    BY <1>1, <2>1, <2>2
  <2> QED
    BY <1>4, <2>1, <2>3
<1>8. \A p \in here : \E a \in 1 .. n : p = ids[a]
    BY <1>1, <1>4
<1>9. \A a \in 1 .. n : ids[a] \in here <=> b < a /\ a <= b + sz
    BY <1>6, <1>7
<1> QED
    BY <1>8, <1>9 DEF ids, n, b, sz, here

\* The namesakes on page i have places on it; these are the places that they
\* have in the other answer, too.
LEMMA AnswersAgree ==
    ASSUME StorefrontTypeOK, Within, NEW in \in today .. LastNight,
           NEW out \in 1 .. LastNight + 1, in < out,
           NEW guests, NEW where \in SUBSET Prop, NEW size \in Int,
           NEW found \in QueryRows(in .. out - 1, guests, where),
           NEW other \in QueryRows(in .. out - 1, guests, where)
    PROVE  PagesAgree(in, out, size, Hotels(in .. out - 1, guests, where), found, other)
<1> DEFINE S  == in .. out - 1
           H  == Hotels(S, guests, where)
           f  == Grouped(found).ids
           o  == Grouped(other).ids
           sz == PageSize(size)
           b(i) == Start(i, size)
<1>1. /\ S \in SUBSET Night /\ S # {} /\ IsFiniteSet(S)
      /\ found \in QueryRows(S, guests, where) /\ other \in QueryRows(S, guests, where)
    BY StayOfNights
<1> HIDE DEF S
<1>2. H \in SUBSET Prop /\ \A p \in Prop : Named[p] \in Nat
    BY CatalogueAssumption DEF Hotels
<1>3. ASSUME NEW answer \in QueryRows(S, guests, where)
      PROVE  LET l == Grouped(answer).ids
             IN  /\ l \in Seq(Prop)
                 /\ \A a \in 1 .. Len(l) : l[a] \in H
                 /\ \A p \in H : \E a \in 1 .. Len(l) : l[a] = p
                 /\ \A a, c \in 1 .. Len(l) : a < c => /\ l[a] # l[c]
                                                       /\ Named[l[a]] <= Named[l[c]]
    BY <1>1, HotelsFound
<1> HIDE DEF H
<1>4. /\ f \in Seq(Prop)
      /\ \A a \in 1 .. Len(f) : f[a] \in H
      /\ \A p \in H : \E a \in 1 .. Len(f) : f[a] = p
      /\ \A a, c \in 1 .. Len(f) : a < c => f[a] # f[c] /\ Named[f[a]] <= Named[f[c]]
    BY <1>1, <1>3
<1>5. /\ o \in Seq(Prop)
      /\ \A a \in 1 .. Len(o) : o[a] \in H
      /\ \A p \in H : \E a \in 1 .. Len(o) : o[a] = p
      /\ \A a, c \in 1 .. Len(o) : a < c => o[a] # o[c] /\ Named[o[a]] <= Named[o[c]]
    BY <1>1, <1>3
<1>6. sz \in Nat \ {0}
    BY LimitAssumption DEF PageSize
<1>7. ASSUME NEW i \in Nat \ {0}
      PROVE  b(i) \in Nat /\ b(i) = (i - 1) * sz
  <2>1. i - 1 \in Nat
    OBVIOUS
  <2> QED
    BY <1>6, <2>1, Product DEF Start
<1>8. ASSUME NEW i \in Nat \ {0}, NEW k \in Nat \ {0}, i < k
      PROVE  b(i) + sz <= b(k)
    BY <1>6, <1>8, PagesApart DEF Start
<1>9. Pages \subseteq Nat \ {0}
    BY CatalogueAssumption, FS_CardinalityType DEF Pages
<1>10. ASSUME NEW i \in Nat \ {0}
      PROVE  /\ \A p \in Shown(in, out, i, size, found) :
                   \E a \in 1 .. Len(f) : p = f[a]
             /\ \A a \in 1 .. Len(f) : f[a] \in Shown(in, out, i, size, found)
                                           <=> b(i) < a /\ a <= b(i) + sz
             /\ \A a \in 1 .. Len(o) : o[a] \in Shown(in, out, i, size, other)
                                           <=> b(i) < a /\ a <= b(i) + sz
  <2>1. /\ \A p \in Shown(in, out, i, size, found) :
              \E a \in 1 .. Len(f) : p = f[a]
        /\ \A a \in 1 .. Len(f) : f[a] \in Shown(in, out, i, size, found)
                                      <=> b(i) < a /\ a <= b(i) + sz
    <3>1. \A a, c \in 1 .. Len(f) : a < c => f[a] # f[c]
        BY <1>4
    <3> QED
        BY <1>4, <3>1, ShownAtPlace
  <2>2. \A a \in 1 .. Len(o) : o[a] \in Shown(in, out, i, size, other)
                                  <=> b(i) < a /\ a <= b(i) + sz
    <3>1. \A a, c \in 1 .. Len(o) : a < c => o[a] # o[c]
        BY <1>5
    <3> QED
        BY <1>5, <3>1, ShownAtPlace
  <2> QED
    BY <2>1, <2>2
<1> HIDE DEF f, o, sz, b
<1>11. ASSUME NEW i \in Pages, NEW p \in Shown(in, out, i, size, found),
              {q \in H : Named[q] = Named[p]} \subseteq Shown(in, out, i, size, found),
              NEW k \in Pages
       PROVE  p \in Shown(in, out, k, size, other) <=> k = i
  <2> DEFINE lo == Cardinality(Earlier(H, Named[p]))
             hi == Cardinality(NotLater(H, Named[p]))
  <2>1. i \in Nat \ {0} /\ k \in Nat \ {0}
    BY <1>9
  <2>2. PICK c \in 1 .. Len(f) : f[c] = p
    BY <1>10, <2>1
  <2>3. p \in H /\ Named[p] \in Nat
    BY <1>2, <1>4, <2>2
  <2>4. PICK d \in 1 .. Len(o) : o[d] = p
    BY <1>5, <2>3
  <2>5. /\ lo \in 0 .. Len(f) /\ hi \in 0 .. Len(f)
        /\ \A a \in 1 .. Len(f) : Named[f[a]] = Named[p] <=> lo < a /\ a <= hi
    BY <1>2, <1>4, <2>3, PlacesOfName
  <2>6. \A a \in 1 .. Len(o) : Named[o[a]] = Named[p] <=> lo < a /\ a <= hi
    BY <1>2, <1>5, <2>3, PlacesOfName
  <2> HIDE DEF lo, hi
  <2>7. lo < c /\ c <= hi /\ lo < d /\ d <= hi
    BY <2>2, <2>4, <2>5, <2>6
  <2>8. Len(f) \in Nat /\ Len(o) \in Nat
    BY <1>4, <1>5
  <2>9. lo + 1 \in 1 .. Len(f) /\ hi \in 1 .. Len(f) /\ lo < hi /\ lo + 1 <= hi
    BY <2>5, <2>7, <2>8
  <2>10. ASSUME NEW a \in 1 .. Len(f), lo < a, a <= hi
         PROVE  b(i) < a /\ a <= b(i) + sz
    <3>1. f[a] \in H /\ Named[f[a]] = Named[p]
        BY <1>4, <2>5, <2>10
    <3> QED
        BY <1>10, <1>11, <2>1, <3>1
  <2>11. b(i) < lo + 1 /\ hi <= b(i) + sz
    <3>1. lo < lo + 1
        BY <2>5
    <3>2. b(i) < lo + 1
        BY <2>9, <2>10, <3>1
    <3>3. hi <= hi
        BY <2>5
    <3>4. hi <= b(i) + sz
        BY <2>9, <2>10, <3>3
    <3> QED
        BY <3>2, <3>4
  <2>12. b(i) < d /\ d <= b(i) + sz
    <3>1. b(i) \in Nat
        BY <1>7, <2>1
    <3> QED
        BY <1>6, <2>5, <2>7, <2>8, <2>11, <3>1
  <2>13. p \in Shown(in, out, k, size, other) <=> b(k) < d /\ d <= b(k) + sz
    BY <1>10, <2>1, <2>4
  <2>14. CASE k = i
    BY <2>12, <2>13, <2>14
  <2>15. CASE k # i
    <3>1. b(i) + sz <= b(k) \/ b(k) + sz <= b(i)
        BY <1>8, <2>1, <2>15
    <3>2. b(i) \in Nat /\ b(k) \in Nat
        BY <1>7, <2>1
    <3> QED
        BY <1>6, <2>12, <2>13, <2>15, <3>1, <3>2
  <2> QED
    BY <2>14, <2>15
<1> QED
    BY <1>11 DEF PagesAgree, H, S

-----------------------------------------------------------------------------
(* The query has an answer *)

\* The row that comes first.
LEMMA FirstOf ==
    ASSUME NEW T \in SUBSET RType, T # {}
    PROVE  \E t \in T : \A u \in T : InOrder(t, u)
<1> DEFINE names == {Named[Home[t]] : t \in T}
<1>1. /\ \A t \in T : Named[Home[t]] \in Nat /\ Rate[t] \in Nat
      /\ names \in SUBSET Nat /\ names # {}
    BY CatalogueAssumption
<1>2. PICK n \in names : \A m \in names : n <= m
  <2> HIDE DEF names
  <2> QED
    BY <1>1, Least
<1> DEFINE first == {t \in T : Named[Home[t]] = n}
           rates == {Rate[t] : t \in first}
<1>3. rates \in SUBSET Nat /\ rates # {}
    BY <1>1
<1>4. PICK r \in rates : \A m \in rates : r <= m
  <2> HIDE DEF rates
  <2> QED
    BY <1>3, Least
<1>5. PICK t \in first : Rate[t] = r
    OBVIOUS
<1>6. ASSUME NEW u \in T
      PROVE  InOrder(t, u)
  <2>1. Named[Home[t]] = n /\ n <= Named[Home[u]] /\ n \in Nat /\ Named[Home[u]] \in Nat
    BY <1>1, <1>2, <1>5
  <2>2. CASE Named[Home[u]] = n
    BY <1>4, <1>5, <2>1, <2>2 DEF InOrder
  <2>3. CASE Named[Home[u]] # n
    BY <2>1, <2>3 DEF InOrder
  <2> QED
    BY <2>2, <2>3
<1> QED
    BY <1>5, <1>6

InQueryOrder(q) == \A i, j \in DOMAIN q : i < j => InOrder(q[i], q[j])

LEMMA Prepended ==
    ASSUME NEW T \in SUBSET RType, IsFiniteSet(T), NEW t \in T,
           \A u \in T : InOrder(t, u),
           NEW q \in SX!SetToSeqs(T \ {t}), InQueryOrder(q)
    PROVE  \E r \in SX!SetToSeqs(T) : InQueryOrder(r)
<1> DEFINE n == Cardinality(T)
           r == [i \in 1 .. n |-> IF i = 1 THEN t ELSE q[i - 1]]
<1>1. /\ n \in Nat \ {0} /\ IsFiniteSet(T \ {t})
      /\ Cardinality(T \ {t}) = n - 1
  <2>1. n \in Nat /\ IsFiniteSet(T \ {t}) /\ Cardinality(T \ {t}) = n - 1
    BY FS_RemoveElement, FS_CardinalityType
  <2>2. n # 0
    BY FS_EmptySet
  <2> QED
    BY <2>1, <2>2
<1>2. /\ q \in [1 .. n - 1 -> T \ {t}]
      /\ \A i, j \in 1 .. n - 1 : i # j => q[i] # q[j]
    BY <1>1, SameCardinality DEF SX!SetToSeqs
<1> HIDE DEF n
<1>3. ASSUME NEW i \in 2 .. n
      PROVE  r[i] = q[i - 1] /\ i - 1 \in 1 .. n - 1 /\ r[i] \in T \ {t}
    BY <1>1, <1>2
<1>4. r[1] = t /\ \A i \in 1 .. n : i = 1 \/ i \in 2 .. n
    BY <1>1
<1>5. DOMAIN r = 1 .. n /\ r = [i \in 1 .. n |-> r[i]]
    OBVIOUS
<1> HIDE DEF r
<1>6. r \in [1 .. n -> T]
    BY <1>3, <1>4, <1>5
<1>7. ASSUME NEW i \in 1 .. n, NEW j \in 1 .. n, i # j
      PROVE  r[i] # r[j]
  <2>1. CASE i = 1 \/ j = 1
    BY <1>3, <1>4, <1>7, <2>1
  <2>2. CASE i \in 2 .. n /\ j \in 2 .. n
    <3>1. i - 1 # j - 1
        BY <1>7
    <3> QED
        BY <1>2, <1>3, <2>2, <3>1
  <2> QED
    BY <1>4, <2>1, <2>2
<1>8. ASSUME NEW i \in 1 .. n, NEW j \in 1 .. n, i < j
      PROVE  InOrder(r[i], r[j])
  <2>1. CASE i = 1
    BY <1>4, <1>6, <2>1
  <2>2. CASE i \in 2 .. n
    <3>1. j \in 2 .. n /\ i - 1 < j - 1
        BY <1>8, <2>2
    <3>2. InOrder(q[i - 1], q[j - 1])
        BY <1>2, <1>3, <2>2, <3>1 DEF InQueryOrder
    <3> QED
        BY <1>3, <2>2, <3>1, <3>2
  <2> QED
    BY <1>4, <2>1, <2>2
<1>9. r \in SX!SetToSeqs(T)
    BY <1>6, <1>7, SameCardinality DEF SX!SetToSeqs, n
<1> QED
    BY <1>5, <1>8, <1>9 DEF InQueryOrder

LEMMA Sortable ==
    ASSUME NEW T \in SUBSET RType
    PROVE  \E q \in SX!SetToSeqs(T) : InQueryOrder(q)
<1> DEFINE Unsorted(X) == ~ \E q \in SX!SetToSeqs(X) : InQueryOrder(q)
           C == {Cardinality(X) : X \in {X \in SUBSET RType : Unsorted(X)}}
<1>1. SUFFICES ASSUME C # {}
               PROVE  FALSE
    OBVIOUS
<1>2. \A X \in SUBSET RType : IsFiniteSet(X) /\ Cardinality(X) \in Nat
    BY CatalogueAssumption, FS_Subset, FS_CardinalityType
<1>3. C \in SUBSET Nat
    BY <1>2
<1>4. PICK n \in C : \A m \in C : n <= m
  <2> HIDE DEF C
  <2> QED
    BY <1>1, <1>3, Least
<1>5. PICK X \in SUBSET RType : Unsorted(X) /\ Cardinality(X) = n
    BY <1>4
<1>6. CASE X = {}
  <2>1. Cardinality({}) = 0
    BY FS_EmptySet
  <2>2. <<>> \in [1 .. 0 -> {}]
    OBVIOUS
  <2>3. <<>> \in SX!SetToSeqs({})
    BY <2>1, <2>2, SameCardinality DEF SX!SetToSeqs
  <2>4. InQueryOrder(<<>>)
    BY DEF InQueryOrder
  <2> QED
    BY <1>5, <1>6, <2>3, <2>4
<1>7. CASE X # {}
  <2>1. PICK t \in X : \A u \in X : InOrder(t, u)
    BY <1>7, FirstOf
  <2> DEFINE Y == X \ {t}
  <2>2. IsFiniteSet(X) /\ Cardinality(Y) = n - 1 /\ n \in Nat /\ Y \in SUBSET RType
    BY <1>2, <1>5, FS_RemoveElement
  <2>3. ~ Unsorted(Y)
    <3>1. n - 1 \notin C
        BY <1>4, <2>2
    <3> HIDE DEF Unsorted
    <3> QED
        BY <2>2, <3>1
  <2>4. PICK q \in SX!SetToSeqs(Y) : InQueryOrder(q)
    BY <2>3
  <2>5. \E r \in SX!SetToSeqs(X) : InQueryOrder(r)
    BY <2>1, <2>2, <2>4, Prepended
  <2> QED
    BY <1>5, <2>5
<1> QED
    BY <1>6, <1>7

LEMMA QueryAnswers ==
    ASSUME StorefrontTypeOK, NEW S, NEW guests, NEW where
    PROVE  QueryRows(S, guests, where) # {}
<1> DEFINE hits == {t \in offered : /\ Home[t] \in where /\ status[Home[t]] = "ACTIVE"
                                    /\ Beds[t] >= guests
                                    /\ Matches(t, S)}
<1>1. hits \in SUBSET RType
    BY DEF StorefrontTypeOK
<1>2. QueryRows(S, guests, where) = {q \in SX!SetToSeqs(hits) : InQueryOrder(q)}
    BY DEF QueryRows, InQueryOrder
<1> HIDE DEF hits
<1> QED
    BY <1>1, <1>2, Sortable

-----------------------------------------------------------------------------
(* Theorems *)

\* The numbers of guests that fit the query's SMALLINT; the others are errors.
MaxGuests == 32767

\* Whatever is asked for, whatever the state of catalogue, sales and sweep: the
\* query has an answer, and however the database breaks its ties, the pages of one
\* answer show every property where CommitAllocation would accept the stay, once,
\* in the order of names, with the room types that fit, the cheapest first, and the
\* number of times each could be sold; and a property is on the same page of every
\* answer where one page has all properties of its name.
EverySearchIsExact ==
    \A in \in today .. LastNight, out \in 1 .. LastNight + 1,
       guests \in Int, where \in SUBSET Prop, size \in Int :
        in < out /\ guests <= MaxGuests =>
            /\ QueryRows(in .. out - 1, Guests(guests), where) # {}
            /\ ExactSearch(in, out, Guests(guests), where, size)

THEOREM EverySearchExact == Spec => []EverySearchIsExact
<1>1. StorefrontTypeOK /\ Within => EverySearchIsExact
  <2> SUFFICES ASSUME StorefrontTypeOK, Within,
                      NEW in \in today .. LastNight, NEW out \in 1 .. LastNight + 1,
                      NEW guests \in Int, NEW where \in SUBSET Prop, NEW size \in Int,
                      in < out
               PROVE  /\ QueryRows(in .. out - 1, Guests(guests), where) # {}
                      /\ ExactSearch(in, out, Guests(guests), where, size)
    BY DEF EverySearchIsExact
  <2> DEFINE S == in .. out - 1
             G == Guests(guests)
  <2>1. QueryRows(S, G, where) # {}
    BY QueryAnswers
  <2> HIDE DEF G
  <2>2. ASSUME NEW found \in QueryRows(S, G, where)
        PROVE  ExactPages(in, out, G, size, Hotels(S, G, where), found)
    BY PagesAreExact
  <2>3. ASSUME NEW found \in QueryRows(S, G, where), NEW other \in QueryRows(S, G, where)
        PROVE  PagesAgree(in, out, size, Hotels(S, G, where), found, other)
    BY AnswersAgree
  <2>4. ExactSearch(in, out, G, where, size)
    BY <2>2, <2>3 DEF ExactSearch
  <2> QED
    BY <2>1, <2>4 DEF G
<1> QED
    BY <1>1, StorefrontTypeCorrect, WithinHolds, PTL

\* queryAvailableProperties as the run checks it, for every page size, zero
\* guests (the default) and one, and the search everywhere.
THEOREM SearchExact == Spec => []SearchIsExact
<1>1. EverySearchIsExact => SearchIsExact
  <2>1. SizeMax \in Nat
    BY LimitAssumption
  <2>2. /\ 0 .. 1 \subseteq Int /\ 1 .. SizeMax + 1 \subseteq Int
        /\ \A guests \in 0 .. 1 : guests <= MaxGuests
    BY <2>1 DEF MaxGuests
  <2> QED
    BY <2>2 DEF EverySearchIsExact, SearchIsExact
<1> QED
    BY <1>1, EverySearchExact, PTL
=============================================================================
