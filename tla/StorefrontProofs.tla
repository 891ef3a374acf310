-------------------------- MODULE StorefrontProofs ---------------------------
(***************************************************************************)
(* Theorems about Storefront for any catalogue, horizon, limits and number *)
(* of days.                                                                *)
(*                                                                         *)
(* A sweep that returns nil has worked through what it listed.  Each room  *)
(* type it is to serve is on sale already, or ahead of it (Kept): among    *)
(* the types of the property it is at, or at home in a property behind     *)
(* that in its queue.  Rows that are there stay there.                     *)
(***************************************************************************)
EXTENDS Storefront, FiniteSetTheorems, SequenceTheorems, TLAPS

USE DaysAssumption, LimitAssumption

\* Still to come in the sweep that is going on.
Ahead(t) ==
    \/ at = "types" /\ \E i \in 1 .. Len(queue) : queue[i] = Home[t]
    \/ at = "generate" /\ \/ \E i \in 1 .. Len(types) : types[i] = t
                          \/ \E i \in 2 .. Len(queue) : queue[i] = Home[t]

OnSale(t) == \A k \in today .. began + Horizon - 1 : rows[t][k] # NoRow

Kept ==
    /\ began <= today
    /\ at \in Resting => promised = {}
    /\ at = "types" => queue # <<>>
    /\ at = "generate" => queue # <<>> /\ types # <<>>
    /\ promised \subseteq offered
    /\ \A t \in promised : OnSale(t) \/ Ahead(t)

StoreInv == StorefrontTypeOK /\ Kept

-----------------------------------------------------------------------------
(* Lists *)

LEMMA SameCardinality ==
    ASSUME NEW S
    PROVE  SX!Cardinality(S) = Cardinality(S)
BY DEF SX!Cardinality, Cardinality

\* A list of a finite set has its elements, all of them.
LEMMA Listing ==
    ASSUME NEW S, IsFiniteSet(S), NEW q \in SX!SetToSeqs(S)
    PROVE  /\ q \in Seq(S) /\ Len(q) = Cardinality(S)
           /\ \A x \in S : \E i \in 1 .. Len(q) : q[i] = x
           /\ \A i, j \in 1 .. Len(q) : i # j => q[i] # q[j]
<1> DEFINE D == 1 .. Cardinality(S)
<1>1. Cardinality(S) \in Nat
    BY FS_CardinalityType
<1>2. q \in [D -> S] /\ \A i, j \in D : i # j => q[i] # q[j]
    BY SameCardinality DEF SX!SetToSeqs
<1>3. q \in Injection(D, S)
    BY <1>2 DEF Injection, IsInjective
<1>4. IsFiniteSet(D) /\ Cardinality(D) = Cardinality(S)
    BY <1>1, FS_Interval
<1>5. q \in Surjection(D, S)
    BY <1>3, <1>4, FS_Injection
<1>6. q \in Seq(S) /\ Len(q) = Cardinality(S)
    BY <1>1, <1>2
<1> QED
    BY <1>2, <1>5, <1>6 DEF Surjection

LEMMA RoomTypesListed ==
    ASSUME offered \subseteq RType, NEW p, NEW q \in ListRoomTypes(p)
    PROVE  /\ q \in Seq(RType)
           /\ \A t \in offered : Home[t] = p => \E i \in 1 .. Len(q) : q[i] = t
           /\ OfProperty(p) # {} => q # <<>>
<1>1. OfProperty(p) \subseteq RType /\ IsFiniteSet(OfProperty(p))
    BY CatalogueAssumption, FS_Subset DEF OfProperty
<1>2. q \in SX!SetToSeqs(OfProperty(p))
    BY DEF ListRoomTypes
<1>3. /\ q \in Seq(OfProperty(p))
      /\ \A t \in OfProperty(p) : \E i \in 1 .. Len(q) : q[i] = t
    BY <1>1, <1>2, Listing
<1> QED
    BY <1>1, <1>3 DEF OfProperty

LEMMA PropertiesListed ==
    ASSUME NEW s, NEW asked \in Nat, NEW q \in ListProperties(s, asked)
    PROVE  q \in Seq(Prop)
<1> DEFINE all == {p \in Prop : status[p] = s}
           n   == Cardinality(all)
           m   == IF n < Limit(asked) THEN n ELSE Limit(asked)
<1>1. all \subseteq Prop /\ IsFiniteSet(all) /\ n \in Nat
    BY CatalogueAssumption, FS_Subset, FS_CardinalityType
<1>2. PICK r \in SX!SetToSeqs(all) : q = SubSeq(r, 1, m)
    BY DEF ListProperties
<1>3. r \in Seq(all) /\ Len(r) = n
    BY <1>1, <1>2, Listing
<1>4. m \in 0 .. n
    BY <1>1 DEF Limit
<1> HIDE DEF m, n, all
<1>5. \A i \in 1 .. m : r[i] \in all
    BY <1>3, <1>4
<1>6. SubSeq(r, 1, m) \in Seq(all)
    BY <1>4, <1>5, SubSeqProperties
<1> QED
    BY <1>1, <1>2, <1>6

-----------------------------------------------------------------------------
(* Rows *)

LEMMA Nights ==
    /\ LastNight \in Nat /\ LastNight = LastDay + Horizon - 1
    /\ \A S \in Stays : S \subseteq Night
    /\ today \in 1 .. LastDay => Window \subseteq Night
BY DEF LastNight, Night, Stays, Window

\* What Provided(t, S) has for a night.
LEMMA ProvidedRow ==
    ASSUME rows \in [RType -> [Night -> Row]], NEW t \in RType, NEW S
    PROVE  /\ Provided(t, S) \in [RType -> [Night -> Row]]
           /\ \A u \in RType \ {t} : Provided(t, S)[u] = rows[u]
           /\ \A k \in Night :
                 Provided(t, S)[t][k] = IF k \in S /\ rows[t][k].sold = 0
                                        THEN [total |-> Units[t], sold |-> 0]
                                        ELSE rows[t][k]
<1> DEFINE new == [k \in Night |->
                     IF k \in S /\ rows[t][k].sold = 0
                     THEN [total |-> Units[t], sold |-> 0] ELSE rows[t][k]]
<1>1. Provided(t, S) = [rows EXCEPT ![t] = new]
    BY DEF Provided
<1>2. new \in [Night -> Row]
    BY CatalogueAssumption DEF Row
<1>3. \A k \in Night : new[k] = IF k \in S /\ rows[t][k].sold = 0
                                THEN [total |-> Units[t], sold |-> 0]
                                ELSE rows[t][k]
    OBVIOUS
<1> HIDE DEF new
<1>4. [rows EXCEPT ![t] = new] \in [RType -> [Night -> Row]]
    BY <1>2
<1>5. /\ \A u \in RType \ {t} : [rows EXCEPT ![t] = new][u] = rows[u]
      /\ [rows EXCEPT ![t] = new][t] = new
    OBVIOUS
<1> QED
    BY <1>1, <1>3, <1>4, <1>5

\* Nights that are provided are on sale after it, and those that were stay so.
LEMMA ProvidedNights ==
    ASSUME rows \in [RType -> [Night -> Row]], NEW t \in RType, NEW S
    PROVE  /\ \A k \in S \cap Night : Provided(t, S)[t][k] # NoRow
           /\ \A u \in RType, k \in Night :
                 rows[u][k] # NoRow => Provided(t, S)[u][k] # NoRow
<1>1. ASSUME NEW k \in Night
      PROVE  /\ k \in S => Provided(t, S)[t][k] # NoRow
             /\ rows[t][k] # NoRow => Provided(t, S)[t][k] # NoRow
  <2>1. Provided(t, S)[t][k] = IF k \in S /\ rows[t][k].sold = 0
                               THEN [total |-> Units[t], sold |-> 0]
                               ELSE rows[t][k]
    BY <1>1, ProvidedRow
  <2>2. [total |-> Units[t], sold |-> 0] # NoRow
    <3>1. [total |-> Units[t], sold |-> 0].total # NoRow.total
        BY CatalogueAssumption DEF NoRow
    <3> QED
        BY <3>1
  <2>3. rows[t][k].sold # 0 => rows[t][k] # NoRow
    BY DEF NoRow
  <2> QED
    BY <2>1, <2>2, <2>3
<1>2. ASSUME NEW u \in RType, NEW k \in Night, rows[u][k] # NoRow
      PROVE  Provided(t, S)[u][k] # NoRow
  <2>1. CASE u = t
    BY <1>1, <1>2, <2>1
  <2>2. CASE u # t
    <3>1. \A v \in RType \ {t} : Provided(t, S)[v] = rows[v]
        BY ProvidedRow
    <3> QED
        BY <1>2, <2>2, <3>1
  <2> QED
    BY <2>1, <2>2
<1> QED
    BY <1>1, <1>2

LEMMA SoldRow ==
    ASSUME rows \in [RType -> [Night -> Row]], NEW t \in RType, NEW S
    PROVE  /\ Allocated(t, S, 1) \in [Night -> Row]
           /\ \A k \in Night : rows[t][k] # NoRow => Allocated(t, S, 1)[k] # NoRow
<1>1. Allocated(t, S, 1) \in [Night -> Row]
    BY DEF Allocated, Row
<1>2. ASSUME NEW k \in Night, rows[t][k] # NoRow
      PROVE  Allocated(t, S, 1)[k] # NoRow
  <2> DEFINE more == [rows[t][k] EXCEPT !.sold = @ + 1]
  <2>1. Allocated(t, S, 1)[k] = IF k \in S THEN more ELSE rows[t][k]
    BY <1>2 DEF Allocated
  <2>2. more.sold = rows[t][k].sold + 1 /\ rows[t][k].sold \in Nat
    BY <1>2 DEF Row
  <2>3. NoRow.sold = 0
    BY DEF NoRow
  <2> HIDE DEF more
  <2> QED
    BY <1>2, <2>1, <2>2, <2>3
<1> QED
    BY <1>1, <1>2

LEMMA SoldNights ==
    ASSUME rows \in [RType -> [Night -> Row]], NEW t \in RType, NEW S, Sell(t, S)
    PROVE  /\ rows' \in [RType -> [Night -> Row]]
           /\ \A u \in RType, k \in Night : rows[u][k] # NoRow => rows'[u][k] # NoRow
<1>1. rows' = [rows EXCEPT ![t] = Allocated(t, S, 1)]
    BY DEF Sell
<1> QED
    BY <1>1, SoldRow

-----------------------------------------------------------------------------
(* The steps of a sweep *)

\* On sale for what the sweep is to provide, once this step is done.
OnSaleAfter(t) == \A k \in today .. began + Horizon - 1 : rows'[t][k] # NoRow

LEMMA SweepNights ==
    ASSUME StorefrontTypeOK, Kept
    PROVE  /\ today .. began + Horizon - 1 \subseteq Window
           /\ Window \subseteq Night
           /\ today' = today + 1 =>
                 today' .. began + Horizon - 1 \subseteq today .. began + Horizon - 1
BY Nights DEF StorefrontTypeOK, Kept, Window, Night

\* The first element of a list, and the others.
LEMMA Parts ==
    ASSUME NEW S, NEW q \in Seq(S), q # <<>>
    PROVE  /\ Head(q) \in S /\ Head(q) = q[1]
           /\ Tail(q) \in Seq(S) /\ Len(Tail(q)) = Len(q) - 1
           /\ Len(q) \in Nat /\ Len(q) >= 1
           /\ \A i \in 1 .. Len(q) - 1 : Tail(q)[i] = q[i + 1]
           /\ \A i \in 2 .. Len(q) : Tail(q)[i - 1] = q[i]
BY HeadTailProperties

\* Rows that are there stay there.
RowsStay == \A t \in RType, k \in Night : rows[t][k] # NoRow => rows'[t][k] # NoRow

\* A property without room types is none that a room type is promised at.
LEMMA PassedOver ==
    ASSUME StoreInv, NEW p \in Prop, ListTypes(p), OfProperty(p) = {}
    PROVE  /\ GoOn(Tail(queue)) /\ Tail(queue) \in Seq(Prop)
           /\ \A t \in promised : \/ OnSaleAfter(t)
                                 \/ \E i \in 1 .. Len(Tail(queue)) :
                                       Tail(queue)[i] = Home[t]
<1>1. queue \in Seq(Prop) /\ queue # <<>> /\ p = Head(queue) /\ at = "types"
    BY DEF StoreInv, StorefrontTypeOK, Kept, ListTypes
<1>2. GoOn(Tail(queue))
    BY <1>1 DEF ListTypes, AfterContinue
<1>3. ASSUME NEW t \in promised
      PROVE  \/ OnSaleAfter(t)
             \/ \E i \in 1 .. Len(Tail(queue)) : Tail(queue)[i] = Home[t]
  <2>1. CASE OnSale(t)
    BY <2>1 DEF OnSale, OnSaleAfter, ListTypes
  <2>2. CASE Ahead(t)
    <3>1. PICK i \in 1 .. Len(queue) : queue[i] = Home[t]
        BY <1>1, <2>2 DEF Ahead
    <3>2. Home[t] # p
        BY DEF StoreInv, Kept, OfProperty
    <3>3. i \in 2 .. Len(queue)
        BY <1>1, <3>1, <3>2, Parts
    <3>4. i - 1 \in 1 .. Len(Tail(queue)) /\ Tail(queue)[i - 1] = Home[t]
        BY <1>1, <3>1, <3>3, Parts
    <3> QED
        BY <3>4
  <2> QED
    BY <2>1, <2>2 DEF StoreInv, Kept
<1> QED
    BY <1>1, <1>2, <1>3, Parts

\* What is left to do once a room type is done.
LEMMA GenerateServes ==
    ASSUME StoreInv, NEW u \in RType, Generate(u), NEW t \in promised
    PROVE  \/ OnSaleAfter(t)
           \/ \E i \in 1 .. Len(Tail(types)) : Tail(types)[i] = t
           \/ \E i \in 1 .. Len(Tail(queue)) : Tail(queue)[i] = Home[t]
<1>1. /\ queue \in Seq(Prop) /\ queue # <<>> /\ types \in Seq(RType)
      /\ types # <<>> /\ at = "generate" /\ u = Head(types)
      /\ rows' = Provided(u, Window)
      /\ rows \in [RType -> [Night -> Row]] /\ t \in RType
    BY DEF StoreInv, StorefrontTypeOK, Kept, Generate
<1>2. /\ today .. began + Horizon - 1 \subseteq Window
      /\ Window \subseteq Night
    BY SweepNights DEF StoreInv
<1>3. CASE OnSale(t) \/ t = u
    BY <1>1, <1>2, <1>3, ProvidedNights DEF OnSale, OnSaleAfter
<1>4. CASE \E i \in 1 .. Len(types) : types[i] = t /\ t # u
  <2>1. PICK i \in 1 .. Len(types) : types[i] = t /\ t # u
    BY <1>4
  <2>2. i \in 2 .. Len(types)
    BY <1>1, <2>1, Parts
  <2>3. i - 1 \in 1 .. Len(Tail(types)) /\ Tail(types)[i - 1] = t
    BY <1>1, <2>1, <2>2, Parts
  <2> QED
    BY <2>3
<1>5. CASE \E i \in 2 .. Len(queue) : queue[i] = Home[t]
  <2>1. PICK i \in 2 .. Len(queue) : queue[i] = Home[t]
    BY <1>5
  <2>2. i - 1 \in 1 .. Len(Tail(queue)) /\ Tail(queue)[i - 1] = Home[t]
    BY <1>1, <2>1, Parts
  <2> QED
    BY <2>2
<1> QED
    BY <1>1, <1>3, <1>4, <1>5 DEF StoreInv, Kept, Ahead

-----------------------------------------------------------------------------
(* Types and rows *)

LEMMA StoreInitially == Init => StoreInv
<1> SUFFICES ASSUME Init
             PROVE  StoreInv
    OBVIOUS
<1>1. NoRow \in Row
    BY DEF NoRow, Row
<1>2. StorefrontTypeOK
    BY <1>1 DEF Init, StorefrontTypeOK, Status
<1>3. Kept
    BY DEF Init, Kept, Resting
<1> QED
    BY <1>2, <1>3 DEF StoreInv

LEMMA RowsStep ==
    ASSUME StoreInv, [Next]_vars
    PROVE  RowsStay /\ rows' \in [RType -> [Night -> Row]]
<1>1. rows \in [RType -> [Night -> Row]]
    BY DEF StoreInv, StorefrontTypeOK
<1>2. CASE UNCHANGED rows
    BY <1>1, <1>2 DEF RowsStay
<1>3. ASSUME NEW t \in RType, NEW S \in Stays, Sell(t, S)
      PROVE  RowsStay /\ rows' \in [RType -> [Night -> Row]]
    BY <1>1, <1>3, SoldNights DEF RowsStay
<1>4. ASSUME NEW t \in RType, NEW S, rows' = Provided(t, S)
      PROVE  RowsStay /\ rows' \in [RType -> [Night -> Row]]
  <2>1. Provided(t, S) \in [RType -> [Night -> Row]]
    BY <1>1, <1>4, ProvidedRow
  <2>2. \A u \in RType, k \in Night :
           rows[u][k] # NoRow => Provided(t, S)[u][k] # NoRow
    BY <1>1, <1>4, ProvidedNights
  <2> QED
    BY <1>4, <2>1, <2>2 DEF RowsStay
<1>5. ASSUME NEW t \in RType, Generate(t)
      PROVE  RowsStay /\ rows' \in [RType -> [Night -> Row]]
    BY <1>4, <1>5 DEF Generate
<1>6. CASE SweepFails
  <2>1. CASE at = "generate"
    <3>1. Head(types) \in RType
        BY <2>1, Parts DEF StoreInv, StorefrontTypeOK, Kept
    <3>2. PICK k \in Window \cup {0} :
                rows' = Provided(Head(types), {j \in Window : j <= k})
        BY <1>6, <2>1 DEF SweepFails
    <3> QED
        BY <1>4, <3>1, <3>2
  <2>2. CASE at # "generate"
    BY <1>2, <1>6, <2>2 DEF SweepFails
  <2> QED
    BY <2>1, <2>2
<1>7. \/ UNCHANGED rows
      \/ \E t \in RType, S \in Stays : Sell(t, S)
      \/ \E t \in RType : Generate(t)
      \/ SweepFails
    BY DEF Next, SweepStep, SetStatus, AddRoomType, ListActive, ListTypes,
           NextDay, vars, catalogue
<1> QED
    BY <1>2, <1>3, <1>5, <1>6, <1>7

\* The variables of a sweep after GoOn.
LEMMA GoesOn ==
    ASSUME NEW q \in Seq(Prop), GoOn(q)
    PROVE  /\ queue' \in Seq(Prop) /\ types' \in Seq(RType)
           /\ at' \in {"idle", "types"}
           /\ at' = "idle" => q = <<>>
           /\ at' = "types" => q # <<>> /\ queue' = q
BY DEF GoOn

SweepType ==
    /\ at \in {"idle", "types", "generate", "failed"}
    /\ queue \in Seq(Prop)
    /\ types \in Seq(RType)
    /\ promised \subseteq RType
    /\ began \in 0 .. LastDay

LEMMA RemembersType ==
    ASSUME NEW P \in SUBSET RType, NEW day \in 0 .. LastDay, Remembering(P, day)
    PROVE  promised' \in SUBSET RType /\ began' \in 0 .. LastDay
BY DEF Remembering

LEMMA SweepTypes ==
    ASSUME StoreInv, [Next]_vars
    PROVE  SweepType'
<1>1. /\ queue \in Seq(Prop) /\ types \in Seq(RType)
      /\ promised \in SUBSET RType /\ began \in 0 .. LastDay
      /\ offered \in SUBSET RType /\ today \in 0 .. LastDay
    BY DEF StoreInv, StorefrontTypeOK
<1>2. CASE ListActive
  <2>1. PICK q \in ListProperties("ACTIVE", SweepLimit) :
           /\ GoOn(q)
           /\ Remembering({t \in offered : Home[t] \in SX!ToSet(q)}, today)
    BY <1>2 DEF ListActive
  <2>2. q \in Seq(Prop)
    BY PropertiesListed
  <2>3. {t \in offered : Home[t] \in SX!ToSet(q)} \in SUBSET RType
    BY <1>1
  <2> QED
    BY <1>1, <2>1, <2>2, <2>3, GoesOn, RemembersType DEF SweepType
<1>3. ASSUME NEW p \in Prop, ListTypes(p)
      PROVE  SweepType'
  <2>1. promised' \in SUBSET RType /\ began' \in 0 .. LastDay
    BY <1>1, <1>3, RemembersType DEF ListTypes
  <2>2. CASE OfProperty(p) = {}
    BY <1>3, <2>1, <2>2, PassedOver, GoesOn DEF SweepType
  <2>3. CASE OfProperty(p) # {}
    BY <1>1, <1>3, <2>1, <2>3, RoomTypesListed DEF SweepType, ListTypes
  <2> QED
    BY <2>2, <2>3
<1>4. ASSUME NEW t \in RType, Generate(t)
      PROVE  SweepType'
  <2>1. promised' \in SUBSET RType /\ began' \in 0 .. LastDay
    BY <1>1, <1>4, RemembersType DEF Generate
  <2>2. queue # <<>> /\ types # <<>> /\ at = "generate"
    BY <1>4 DEF StoreInv, Kept, Generate
  <2>3. Tail(queue) \in Seq(Prop) /\ Tail(types) \in Seq(RType)
    BY <1>1, <2>2, Parts
  <2>4. CASE Len(types) > 1
    BY <1>1, <1>4, <2>1, <2>2, <2>3, <2>4 DEF SweepType, Generate
  <2>5. CASE ~ (Len(types) > 1)
    BY <1>4, <2>1, <2>3, <2>5, GoesOn DEF SweepType, Generate
  <2> QED
    BY <2>4, <2>5
<1>5. CASE SweepFails
  <2>1. promised' \in SUBSET RType /\ began' \in 0 .. LastDay
    BY <1>5, RemembersType DEF SweepFails
  <2> QED
    BY <1>5, <2>1 DEF SweepType, SweepFails
<1>6. CASE UNCHANGED sweep
    BY <1>1, <1>6 DEF SweepType, sweep, StoreInv, StorefrontTypeOK
<1>7. \/ ListActive \/ \E p \in Prop : ListTypes(p)
      \/ \E t \in RType : Generate(t)
      \/ SweepFails \/ UNCHANGED sweep
    BY DEF Next, SweepStep, SetStatus, AddRoomType, Sell, NextDay, vars, sweep
<1> QED
    BY <1>2, <1>3, <1>4, <1>5, <1>6, <1>7

LEMMA StoreTypes ==
    ASSUME StoreInv, [Next]_vars
    PROVE  StorefrontTypeOK'
<1>1. rows' \in [RType -> [Night -> Row]] /\ SweepType'
    BY RowsStep, SweepTypes
<1>2. status' \in [Prop -> Status] /\ offered' \subseteq RType
  <2>1. \/ UNCHANGED catalogue
        \/ \E q \in Prop, s \in Status : SetStatus(q, s)
        \/ \E t \in RType : AddRoomType(t)
    BY DEF Next, SweepStep, Sell, ListActive, ListTypes, Generate, SweepFails,
           NextDay, vars
  <2>2. status \in [Prop -> Status] /\ offered \subseteq RType
    BY DEF StoreInv, StorefrontTypeOK
  <2>3. ASSUME NEW q \in Prop, NEW s \in Status, SetStatus(q, s)
        PROVE  status' \in [Prop -> Status] /\ offered' \subseteq RType
    BY <2>2, <2>3 DEF SetStatus
  <2> QED
    BY <2>1, <2>2, <2>3 DEF catalogue, AddRoomType
<1>3. sales' \in 0 .. MaxSales
  <2>1. \/ UNCHANGED sales
        \/ \E t \in RType, S \in Stays : Sell(t, S)
    BY DEF Next, SweepStep, SetStatus, AddRoomType, ListActive, ListTypes,
           Generate, SweepFails, NextDay, vars
  <2> QED
    BY <2>1 DEF StoreInv, StorefrontTypeOK, Sell
<1>4. today' \in 1 .. LastDay
  <2>1. UNCHANGED today \/ NextDay
    BY DEF Next, SweepStep, SetStatus, AddRoomType, Sell, ListActive, ListTypes,
           Generate, SweepFails, vars
  <2> QED
    BY <2>1 DEF StoreInv, StorefrontTypeOK, NextDay
<1> QED
    BY <1>1, <1>2, <1>3, <1>4 DEF StorefrontTypeOK, SweepType

-----------------------------------------------------------------------------
(* Whatever a sweep has promised is on sale or ahead of it *)

\* The sweep goes on behind a property, with all it has promised on sale or at
\* home in a property of q.
LEMMA KeptGoingOn ==
    ASSUME StoreInv, NEW q \in Seq(Prop), GoOn(q), Remembering(promised, began),
           UNCHANGED <<offered, today>>,
           \A t \in promised : OnSaleAfter(t) \/ \E i \in 1 .. Len(q) : q[i] = Home[t]
    PROVE  Kept' /\ (at' = "idle" => \A t \in promised : OnSaleAfter(t))
<1>1. began <= today /\ 0 <= today /\ promised \subseteq offered
    BY DEF StoreInv, Kept, StorefrontTypeOK
<1>2. CASE q = <<>>
  <2>1. at' = "idle" /\ promised' = {} /\ began' = 0
    BY <1>2 DEF GoOn, Remembering, Resting
  <2>2. \A t \in promised : OnSaleAfter(t)
    BY <1>2
  <2> QED
    BY <1>1, <2>1, <2>2 DEF Kept, Resting
<1>3. CASE q # <<>>
  <2>1. at' = "types" /\ queue' = q /\ promised' = promised /\ began' = began
    BY <1>3 DEF GoOn, Remembering, Resting
  <2>2. ASSUME NEW t \in promised
        PROVE  OnSale(t)' \/ Ahead(t)'
    BY <2>1 DEF OnSale, OnSaleAfter, Ahead
  <2> QED
    BY <1>1, <1>3, <2>1, <2>2 DEF Kept, Resting
<1> QED
    BY <1>2, <1>3

\* The steps after which the sweep has done with a property.
LEMMA KeptListTypes ==
    ASSUME StoreInv, NEW p \in Prop, ListTypes(p)
    PROVE  Kept' /\ (at' = "idle" => \A t \in promised : OnSaleAfter(t))
<1>1. CASE OfProperty(p) = {}
    BY <1>1, PassedOver, KeptGoingOn DEF ListTypes, catalogue
<1>2. CASE OfProperty(p) # {}
  <2>1. /\ at' = "generate" /\ types' \in ListRoomTypes(p)
        /\ UNCHANGED <<queue, rows, today, offered>>
        /\ at = "types" /\ p = Head(queue)
        /\ promised' = promised /\ began' = began
    BY <1>2 DEF ListTypes, catalogue, Remembering, Resting
  <2>2. /\ queue \in Seq(Prop) /\ queue # <<>> /\ began <= today
        /\ promised \subseteq offered /\ offered \subseteq RType
    BY <2>1 DEF StoreInv, StorefrontTypeOK, Kept
  <2>3. /\ types' # <<>>
        /\ \A t \in offered : Home[t] = p =>
              \E i \in 1 .. Len(types') : types'[i] = t
    BY <1>2, <2>1, <2>2, RoomTypesListed
  <2>4. ASSUME NEW t \in promised
        PROVE  OnSale(t)' \/ Ahead(t)'
    <3>1. CASE OnSale(t)
        BY <2>1, <3>1 DEF OnSale
    <3>2. CASE Ahead(t)
      <4>1. PICK i \in 1 .. Len(queue) : queue[i] = Home[t]
        BY <2>1, <3>2 DEF Ahead
      <4>2. CASE i = 1
        <5>1. Home[t] = p
            BY <2>1, <2>2, <4>1, <4>2, Parts
        <5> QED
            BY <2>1, <2>2, <2>3, <5>1 DEF Ahead
      <4>3. CASE i # 1
        BY <2>1, <2>2, <4>1, <4>3, Parts DEF Ahead
      <4> QED
        BY <4>2, <4>3
    <3> QED
        BY <3>1, <3>2 DEF StoreInv, Kept
  <2> QED
    BY <2>1, <2>2, <2>3, <2>4 DEF Kept, Resting
<1> QED
    BY <1>1, <1>2

LEMMA KeptGenerate ==
    ASSUME StoreInv, NEW u \in RType, Generate(u)
    PROVE  Kept' /\ (at' = "idle" => \A t \in promised : OnSaleAfter(t))
<1>1. /\ queue \in Seq(Prop) /\ queue # <<>> /\ types \in Seq(RType)
      /\ types # <<>> /\ at = "generate" /\ UNCHANGED <<offered, today>>
      /\ Remembering(promised, began)
      /\ promised \subseteq offered /\ began <= today
    BY DEF StoreInv, StorefrontTypeOK, Kept, Generate, catalogue
<1>2. CASE Len(types) > 1
  <2>1. /\ types' = Tail(types) /\ at' = "generate" /\ queue' = queue
        /\ promised' = promised /\ began' = began
    BY <1>1, <1>2 DEF Generate, Remembering, Resting
  <2>2. Tail(types) # <<>>
    <3> DEFINE others == Tail(types)
    <3>1. Len(others) = Len(types) - 1 /\ Len(types) \in Nat
        BY <1>1, Parts
    <3> HIDE DEF others
    <3>2. Len(others) # 0
        BY <1>2, <3>1
    <3>3. others # <<>>
        BY <3>2
    <3> QED
        BY <3>3 DEF others
  <2>3. ASSUME NEW t \in promised
        PROVE  OnSale(t)' \/ Ahead(t)'
    <3>1. CASE OnSaleAfter(t)
        BY <1>1, <2>1, <3>1 DEF OnSale, OnSaleAfter
    <3>2. CASE \E i \in 1 .. Len(Tail(types)) : Tail(types)[i] = t
        BY <2>1, <3>2 DEF Ahead
    <3>3. CASE \E i \in 1 .. Len(Tail(queue)) : Tail(queue)[i] = Home[t]
      <4>1. PICK i \in 1 .. Len(Tail(queue)) : Tail(queue)[i] = Home[t]
        BY <3>3
      <4>2. i + 1 \in 2 .. Len(queue) /\ queue[i + 1] = Home[t]
        BY <1>1, <4>1, Parts
      <4> QED
        BY <2>1, <4>2 DEF Ahead
    <3> QED
        BY <3>1, <3>2, <3>3, GenerateServes
  <2> QED
    BY <1>1, <2>1, <2>2, <2>3 DEF Kept, Resting
<1>3. CASE ~ (Len(types) > 1)
  <2>1. GoOn(Tail(queue)) /\ Tail(queue) \in Seq(Prop)
    BY <1>1, <1>3, Parts DEF Generate
  <2>2. Len(Tail(types)) = 0
    <3> DEFINE others == Tail(types)
    <3>1. Len(others) = Len(types) - 1 /\ Len(types) \in Nat /\ Len(types) >= 1
        BY <1>1, Parts
    <3> HIDE DEF others
    <3>2. Len(others) = 0
        BY <1>3, <3>1
    <3> QED
        BY <3>2 DEF others
  <2>3. \A t \in promised : \/ OnSaleAfter(t)
                           \/ \E i \in 1 .. Len(Tail(queue)) : Tail(queue)[i] = Home[t]
    <3>1. ~ \E i \in 1 .. Len(Tail(types)) : Tail(types)[i] \in RType
        BY <2>2
    <3>2. promised \subseteq RType
        BY DEF StoreInv, StorefrontTypeOK
    <3> QED
        BY <3>1, <3>2, GenerateServes
  <2> QED
    BY <1>1, <2>1, <2>3, KeptGoingOn
<1> QED
    BY <1>2, <1>3

LEMMA KeptListActive ==
    ASSUME StoreInv, ListActive
    PROVE  Kept' /\ promised = {}
<1>1. PICK q \in ListProperties("ACTIVE", SweepLimit) :
         /\ GoOn(q)
         /\ Remembering({t \in offered : Home[t] \in SX!ToSet(q)}, today)
    BY DEF ListActive
<1>2. q \in Seq(Prop)
    BY PropertiesListed
<1>3. /\ promised = {} /\ UNCHANGED <<offered, today, rows>>
      /\ today \in 1 .. LastDay
    BY DEF ListActive, StoreInv, StorefrontTypeOK, Kept, catalogue
<1>4. CASE q = <<>>
  <2>1. at' = "idle" /\ promised' = {} /\ began' = 0
    BY <1>1, <1>4 DEF GoOn, Remembering, Resting
  <2> QED
    BY <1>3, <2>1 DEF Kept, Resting
<1>5. CASE q # <<>>
  <2>1. /\ at' = "types" /\ queue' = q /\ began' = today
        /\ promised' = {t \in offered : Home[t] \in SX!ToSet(q)}
    BY <1>1, <1>5 DEF GoOn, Remembering, Resting
  <2>2. ASSUME NEW t \in promised'
        PROVE  Ahead(t)'
    BY <1>2, <2>1, <2>2 DEF Ahead, SX!ToSet
  <2> QED
    BY <1>3, <1>5, <2>1, <2>2 DEF Kept, Resting
<1> QED
    BY <1>3, <1>4, <1>5

\* The sweep stands still: days pass, and others change the catalogue and sell.
LEMMA KeptMeanwhile ==
    ASSUME StoreInv, RowsStay, UNCHANGED sweep, offered \subseteq offered',
           today' \in {today, today + 1}
    PROVE  Kept'
<1>1. /\ began <= today /\ began \in Nat /\ today \in 1 .. LastDay
      /\ promised \subseteq RType
    BY DEF StoreInv, StorefrontTypeOK, Kept
<1>2. today' .. began + Horizon - 1 \subseteq Night
    BY <1>1, Nights DEF Night
<1>3. ASSUME NEW t \in promised
      PROVE  OnSale(t)' \/ Ahead(t)'
  <2>1. CASE OnSale(t)
    <3>1. ASSUME NEW k \in today' .. began + Horizon - 1
          PROVE  rows'[t][k] # NoRow
      <4>1. k \in today .. began + Horizon - 1
        BY <1>1, <3>1
      <4> QED
        BY <1>1, <1>2, <2>1, <3>1, <4>1 DEF OnSale, RowsStay
    <3> QED
        BY <3>1 DEF OnSale, sweep
  <2>2. CASE Ahead(t)
    BY <2>2 DEF Ahead, sweep
  <2> QED
    BY <2>1, <2>2 DEF StoreInv, Kept
<1> QED
    BY <1>1, <1>3 DEF StoreInv, Kept, sweep, Resting

LEMMA StoreStep ==
    ASSUME StoreInv, [Next]_vars
    PROVE  StoreInv'
<1>1. CASE SweepFails
  <2>1. at' = "failed" /\ promised' = {} /\ began' = 0 /\ UNCHANGED today
    BY <1>1 DEF SweepFails, Remembering, Resting
  <2>2. Kept'
    BY <2>1 DEF StoreInv, StorefrontTypeOK, Kept, Resting
  <2> QED
    BY <2>2, StoreTypes DEF StoreInv
<1>2. CASE SweepStep
    BY <1>2, KeptListActive, KeptListTypes, KeptGenerate, StoreTypes
       DEF SweepStep, StoreInv
<1>3. CASE UNCHANGED sweep /\ offered \subseteq offered' /\ today' \in {today, today + 1}
    BY <1>3, KeptMeanwhile, RowsStep, StoreTypes DEF StoreInv
<1> QED
    BY <1>1, <1>2, <1>3
       DEF Next, SetStatus, AddRoomType, Sell, NextDay, vars, catalogue

-----------------------------------------------------------------------------
(* Theorems *)

LEMMA StoreInvHolds == Spec => []StoreInv
<1>1. Init => StoreInv
    BY StoreInitially
<1>2. StoreInv /\ [Next]_vars => StoreInv'
    BY StoreStep
<1> QED
    BY <1>1, <1>2, PTL DEF Spec

\* Lists, rows, clock and counters keep their types: what a sweep works on is
\* properties and room types, and nothing is allocated below zero.
THEOREM StorefrontTypeCorrect == Spec => []StorefrontTypeOK
<1>1. StoreInv => StorefrontTypeOK
    BY DEF StoreInv
<1> QED
    BY <1>1, StoreInvHolds, PTL

\* ProcessAllActiveProperties: when it returns nil, every room type it was to
\* serve is on sale for the whole horizon, whatever happened meanwhile.
THEOREM SweepsProvide == Spec => SweepProvides
<1>1. StoreInv /\ [Next]_vars =>
         [SweepStep /\ at' = "idle" =>
            \A t \in promised : \A k \in today .. began + Horizon - 1 :
                rows'[t][k] # NoRow]_vars
  <2> SUFFICES ASSUME StoreInv, SweepStep, at' = "idle", NEW t \in promised
               PROVE  OnSaleAfter(t)
    BY DEF OnSaleAfter
  <2> QED
    BY KeptListActive, KeptListTypes, KeptGenerate DEF SweepStep
<1> QED
    BY <1>1, StoreInvHolds, PTL DEF Spec, SweepProvides

\* BatchUpsertDailyAllocations and CommitAllocation on many room types: every
\* step is one of each room type's ledger, or leaves it alone.
THEOREM BooksKept == Spec => BooksAreKept
<1>1. ASSUME StoreInv, [Next]_vars
      PROVE  \A t \in RType : Books(t)!Next \/ UNCHANGED rows[t]
  <2> DEFINE ledgers == \A t \in RType : Books(t)!Next \/ UNCHANGED rows[t]
  <2>1. rows \in [RType -> [Night -> Row]] /\ Window \subseteq Night
    BY <1>1, Nights DEF StoreInv, StorefrontTypeOK
  <2>2. ASSUME NEW t \in RType, NEW S \in SUBSET Night, rows' = Provided(t, S)
        PROVE  ledgers
    <3>1. Books(t)!Provide(S, Units[t])
        BY <2>1, <2>2 DEF Provided, Books!Provide, Night
    <3>2. \A u \in RType \ {t} : Provided(t, S)[u] = rows[u]
        BY <2>1, ProvidedRow
    <3> QED
        BY <2>2, <3>1, <3>2 DEF Books!Next, Night
  <2>3. ASSUME NEW t \in RType, NEW S \in Stays, Sell(t, S)
        PROVE  ledgers
    <3>1. PICK in \in Night, out \in 2 .. LastNight + 1 : S = in .. out - 1
        BY DEF Stays
    <3>2. in \in 1 .. LastNight /\ out - 1 \in 1 .. LastNight
        BY Nights DEF Night
    <3>3. rows' = [rows EXCEPT ![t] = Allocated(t, S, 1)] /\ Sellable(t, S)
        BY <2>3 DEF Sell
    <3>4. Books(t)!Sell(S)
        BY <2>1, <3>3 DEF Allocated, Sellable, Books!Sell, Night
    <3>5. Books(t)!Next
        BY <3>1, <3>2, <3>4 DEF Books!Next
    <3>6. \A u \in RType \ {t} : rows'[u] = rows[u]
        BY <2>1, <3>3
    <3> QED
        BY <3>5, <3>6
  <2>4. ASSUME NEW t \in RType, Generate(t)
        PROVE  ledgers
    BY <2>1, <2>2, <2>4 DEF Generate
  <2>5. CASE SweepFails /\ at = "generate"
    <3>1. Head(types) \in RType
        BY <1>1, <2>5, Parts DEF StoreInv, StorefrontTypeOK, Kept
    <3>2. PICK k \in Window \cup {0} :
                rows' = Provided(Head(types), {j \in Window : j <= k})
        BY <2>5 DEF SweepFails
    <3>3. {j \in Window : j <= k} \in SUBSET Night
        BY <2>1
    <3> QED
        BY <2>2, <3>1, <3>2, <3>3
  <2>6. CASE UNCHANGED rows
    BY <2>6
  <2>7. \/ UNCHANGED rows
        \/ \E t \in RType, S \in Stays : Sell(t, S)
        \/ \E t \in RType : Generate(t)
        \/ SweepFails /\ at = "generate"
    BY <1>1 DEF Next, SweepStep, SetStatus, AddRoomType, ListActive, ListTypes,
           SweepFails, NextDay, vars, catalogue
  <2>8. CASE \E t \in RType, S \in Stays : Sell(t, S)
    <3>1. PICK t \in RType, S \in Stays : Sell(t, S)
        BY <2>8
    <3> QED
        BY <2>3, <3>1
  <2>9. CASE \E t \in RType : Generate(t)
    <3>1. PICK t \in RType : Generate(t)
        BY <2>9
    <3> QED
        BY <2>4, <3>1
  <2> QED
    BY <2>5, <2>6, <2>7, <2>8, <2>9
<1> QED
    BY <1>1, StoreInvHolds, PTL DEF Spec, BooksAreKept

\* Behind catalogue, sweep and sales the allocations of every room type behave
\* as its ledger promises, so that a sale counts on the same books as the
\* transactions of module Allocation, which implement that ledger as well.
THEOREM StorefrontKeepsLedger ==
    ASSUME NEW u \in RType
    PROVE  Spec => Books(u)!Spec
<1> DEFINE Start == Books(u)!Init
           Step  == Books(u)!Next
           row   == rows[u]
           Each  == \A t \in RType : Books(t)!Next \/ UNCHANGED rows[t]
<1>1. Init => Start
    BY DEF Init, Books!Init, NoRow, Books!NoRow, Night
<1>2. [Each]_vars => [Step]_row
    BY DEF vars
<1>3. Spec => [][Each]_vars
    BY BooksKept DEF BooksAreKept
<1>4. Start /\ [][Step]_row => Books(u)!Spec
    BY DEF Books!Spec
<1> HIDE DEF Start, Step, row, Each
<1>5. Spec => Start /\ [][Step]_row
    BY <1>1, <1>2, <1>3, PTL DEF Spec
<1> QED
    BY <1>4, <1>5
=============================================================================
