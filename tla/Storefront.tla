----------------------------- MODULE Storefront -----------------------------
(***************************************************************************)
(* What is on sale: the properties and room types that administration      *)
(* offers, the worker that extends their daily allocations day by day      *)
(* (AllocationSweeper and ProcessAllActiveProperties), and the search that *)
(* shows guests what is left.                                              *)
(*                                                                         *)
(* A transaction on the ledger of one room type is one step here; module   *)
(* Allocation has the transactions, and shows that they allow this.        *)
(***************************************************************************)
EXTENDS Integers, FiniteSets, Sequences

SX == INSTANCE SequencesExt      \* its Last is not that of Ledger

CONSTANTS
    Prop,         \* properties
    RType,        \* room types
    Named,        \* [Prop -> Nat], the place of a property's name in the alphabet
    Home,         \* [RType -> Prop]
    Rate,         \* [RType -> Nat], base_rate_minor, the rate of all its nights
    Beds,         \* [RType -> Nat], capacity
    Units,        \* [RType -> Nat], total_inventory
    LastDay,      \* the days on which this happens are 1 .. LastDay
    Horizon,      \* daysAhead
    ListDefault, ListMax,     \* 20 and 100: the limits of ListProperties
    SweepLimit,               \* 1000: the limit the sweep asks for
    SizeDefault, SizeMax,     \* 20 and 50: the page sizes of the search
    MaxSales      \* bound: stays sold in a behaviour

LastNight == LastDay + Horizon - 1
Night == 1 .. LastNight
Stays == {in .. out - 1 : in \in Night, out \in 2 .. LastNight + 1} \ {{}}

ASSUME CatalogueAssumption == /\ IsFiniteSet(Prop)
                              /\ IsFiniteSet(RType)
                              /\ Named \in [Prop -> Nat]
                              /\ Home \in [RType -> Prop]
                              /\ Rate \in [RType -> Nat]
                              /\ Beds \in [RType -> Nat \ {0}]
                              /\ Units \in [RType -> Nat \ {0}]
ASSUME DaysAssumption  == LastDay \in Nat \ {0} /\ Horizon \in Nat \ {0}
ASSUME LimitAssumption == /\ ListDefault \in Nat \ {0} /\ ListMax \in Nat
                          /\ SizeDefault \in Nat \ {0} /\ SizeMax \in Nat
                          /\ SweepLimit \in Nat /\ MaxSales \in Nat

VARIABLES
    status,       \* [Prop -> Status]
    offered,      \* the room types that have been created
    rows,         \* [RType -> [Night -> Row]], daily_allocations
    sales,        \* stays sold so far
    today,        \* the day on the clock
    at,           \* where the sweep is
    queue,        \* properties the sweep has listed and not done
    types,        \* room types of the first of them, still to do
    promised,     \* history: the room types the sweep is to serve
    began         \* history: the day the sweep began

catalogue == <<status, offered>>
sweep     == <<at, queue, types, promised, began>>
vars      == <<catalogue, rows, sales, today, sweep>>

Status == {"DRAFT", "ACTIVE"}      \* the others are like DRAFT here
Row    == [total : Nat, sold : Nat]
NoRow  == [total |-> 0, sold |-> 0]

StorefrontTypeOK ==
    /\ status \in [Prop -> Status]
    /\ offered \subseteq RType
    /\ rows \in [RType -> [Night -> Row]]
    /\ sales \in 0 .. MaxSales
    /\ today \in 1 .. LastDay
    /\ at \in {"idle", "types", "generate", "failed"}
    /\ queue \in Seq(Prop)
    /\ types \in Seq(RType)
    /\ promised \subseteq RType
    /\ began \in 0 .. LastDay

Init ==
    /\ status = [p \in Prop |-> "DRAFT"]
    /\ offered = {}
    /\ rows = [t \in RType |-> [k \in Night |-> NoRow]]
    /\ sales = 0
    /\ today = 1
    /\ at = "idle"
    /\ queue = <<>>
    /\ types = <<>>
    /\ promised = {}
    /\ began = 0

-----------------------------------------------------------------------------
(* The catalogue and the sales *)

\* UpdateProperty; module BackOffice has its two statements.
SetStatus(p, s) ==
    /\ status[p] # s
    /\ status' = [status EXCEPT ![p] = s]
    /\ UNCHANGED <<offered, rows, sales, today, sweep>>

\* CreateRoomType gives a room type no allocations: SeedNewRoomTypeInventory,
\* "triggered when a new room type is created", is called by nobody.
AddRoomType(t) ==
    /\ t \notin offered
    /\ offered' = offered \cup {t}
    /\ UNCHANGED <<status, rows, sales, today, sweep>>

Sellable(t, S) == \A k \in S : rows[t][k].sold < rows[t][k].total

\* The UPDATE of a stay: n units more are allocated on each of its nights.
Allocated(t, S, n) ==
    [k \in Night |-> IF k \in S THEN [rows[t][k] EXCEPT !.sold = @ + n]
                                ELSE rows[t][k]]

\* Mutation: an allocation is counted down.
SellDown(t, S) ==
    /\ sales < MaxSales
    /\ Sellable(t, S)
    /\ rows' = [rows EXCEPT ![t] = Allocated(t, S, -1)]
    /\ sales' = sales + 1
    /\ UNCHANGED <<catalogue, today, sweep>>

\* CommitAllocation of a stay.
Sell(t, S) ==
    /\ sales < MaxSales
    /\ Sellable(t, S)
    /\ rows' = [rows EXCEPT ![t] = Allocated(t, S, 1)]
    /\ sales' = sales + 1
    /\ UNCHANGED <<catalogue, today, sweep>>

-----------------------------------------------------------------------------
(* The allocation sweep *)

\* "if limit <= 0 || limit > 100 { limit = 20 }"
Limit(asked) == IF asked \in 1 .. ListMax THEN asked ELSE ListDefault

\* ListProperties with a status and a limit: ORDER BY name, and names are not
\* UNIQUE, so that namesakes come in any order.
ListProperties(s, asked) ==
    LET all == {p \in Prop : status[p] = s}
        n   == Cardinality(all)
    IN  {SubSeq(q, 1, IF n < Limit(asked) THEN n ELSE Limit(asked)) :
            q \in {q \in SX!SetToSeqs(all) : \A i, j \in 1 .. n :
                      i < j => Named[q[i]] <= Named[q[j]]}}

OfProperty(p) == {t \in offered : Home[t] = p}

\* ListRoomTypesByProperty: ORDER BY base_rate_minor, equal rates in any order.
ListRoomTypes(p) ==
    LET all == OfProperty(p)
    IN  {q \in SX!SetToSeqs(all) :
            \A i, j \in 1 .. Cardinality(all) : i < j => Rate[q[i]] <= Rate[q[j]]}

\* Mutation: a property without room types ends the loop.
AfterBreaking(q) == IF OfProperty(Head(q)) = {} THEN <<>> ELSE q

\* A property without room types is passed over.
AfterContinue(q) == IF OfProperty(Head(q)) = {} THEN Tail(q) ELSE q

\* The worker waits for its ticker; the sweep before returned nil or an error.
Resting == {"idle", "failed"}

\* The sweep goes on with the properties in q, or returns nil.
GoOn(q) ==
    /\ queue' = q
    /\ types' = <<>>
    /\ at' = IF q = <<>> THEN "idle" ELSE "types"

\* When the sweep is over nothing is left to be remembered of it.
Remembering(P, day) ==
    /\ promised' = IF at' \in Resting THEN {} ELSE P
    /\ began' = IF at' \in Resting THEN 0 ELSE day

\* The worker's first sweep, and one for every tick.  Nothing is skipped when
\* the sweep before it failed: it starts from the beginning.
ListActive ==
    /\ at \in Resting
    /\ \E q \in ListProperties("ACTIVE", SweepLimit) :
          /\ GoOn(q)
          /\ Remembering({t \in offered : Home[t] \in SX!ToSet(q)}, today)
    /\ UNCHANGED <<catalogue, rows, sales, today>>

\* The room types of the next property are read.
ListTypes(p) ==
    /\ at = "types"
    /\ p = Head(queue)
    /\ IF OfProperty(p) = {}
       THEN GoOn(AfterContinue(queue))
       ELSE /\ at' = "generate"
            /\ types' \in ListRoomTypes(p)
            /\ UNCHANGED queue
    /\ Remembering(promised, began)
    /\ UNCHANGED <<catalogue, rows, sales, today>>

\* GenerateRollingAllocations reads the clock itself.
Window == today .. today + Horizon - 1

\* Mutation: what was sold is forgotten.
ProvidedAnew(t, S) ==
    [rows EXCEPT ![t] = [k \in Night |->
        IF k \in S THEN [total |-> Units[t], sold |-> 0] ELSE @[k]]]

\* The upsert of the nights S; sold nights are left alone.
Provided(t, S) ==
    [rows EXCEPT ![t] = [k \in Night |->
        IF k \in S /\ @[k].sold = 0 THEN [total |-> Units[t], sold |-> 0]
                                    ELSE @[k]]]

Generate(t) ==
    /\ at = "generate"
    /\ t = Head(types)
    /\ rows' = Provided(t, Window)
    /\ IF Len(types) > 1 THEN types' = Tail(types) /\ UNCHANGED <<at, queue>>
                         ELSE GoOn(Tail(queue))
    /\ Remembering(promised, began)
    /\ UNCHANGED <<catalogue, sales, today>>

\* A statement fails, or the process dies at it: Run drops the error of sweep,
\* and what was not done is left to the next tick.  Of a room type's nights the
\* chunks before the one that failed are there.  (A ListProperties that fails
\* changes nothing else.)
SweepFails ==
    /\ at' = "failed"
    /\ queue' = <<>>
    /\ types' = <<>>
    /\ IF at = "generate"
       THEN \E k \in Window \cup {0} :
               rows' = Provided(Head(types), {j \in Window : j <= k})
       ELSE UNCHANGED rows
    /\ Remembering({}, 0)
    /\ UNCHANGED <<catalogue, sales, today>>

NextDay ==
    /\ today < LastDay
    /\ today' = today + 1
    /\ UNCHANGED <<catalogue, rows, sales, sweep>>

SweepStep ==
    \/ ListActive
    \/ \E p \in Prop : ListTypes(p)
    \/ \E t \in RType : Generate(t)

Next ==
    \/ \E p \in Prop, s \in Status : SetStatus(p, s)
    \/ \E t \in RType : AddRoomType(t)
    \/ \E t \in RType, S \in Stays : Sell(t, S)
    \/ SweepStep
    \/ SweepFails
    \/ NextDay

\* The ticker of a running worker fires again and again and a sweep that has
\* begun goes on.  Nothing helps a sweep that is made to fail for ever: a time
\* comes after which none fails.
Fairness ==
    /\ WF_vars(SweepStep)
    /\ <>[][~SweepFails]_vars

Spec == Init /\ [][Next]_vars /\ Fairness

-----------------------------------------------------------------------------
(* The search *)

Remaining(t, k) == rows[t][k].total - rows[t][k].sold

\* MIN over the nights of a stay.
Left(t, S) ==
    CHOOSE n \in {Remaining(t, k) : k \in S} : \A k \in S : n <= Remaining(t, k)

\* Mutation: HAVING does not count the nights.
MatchesSomeNights(t, S) ==
    LET found == {k \in S : rows[t][k] # NoRow}
    IN  found # {} /\ Left(t, found) > 0

\* The join with daily_allocations, and HAVING COUNT(..) = stayNights AND
\* MIN(..) > 0.
Matches(t, S) ==
    LET found == {k \in S : rows[t][k] # NoRow}
    IN  Cardinality(found) = Cardinality(S) /\ Left(t, found) > 0

\* ORDER BY property_name, avg_rate_minor.
InOrder(t, u) ==
    \/ Named[Home[t]] < Named[Home[u]]
    \/ Named[Home[t]] = Named[Home[u]] /\ Rate[t] <= Rate[u]

\* The query's rows for a stay, a number of guests and the properties whose
\* region and city match; rows of one name and rate come in any order.
QueryRows(S, guests, where) ==
    LET hits == {t \in offered :
                    /\ Home[t] \in where /\ status[Home[t]] = "ACTIVE"
                    /\ Beds[t] >= guests
                    /\ Matches(t, S)}
    IN  {q \in SX!SetToSeqs(hits) :
            \A i, j \in DOMAIN q : i < j => InOrder(q[i], q[j])}

\* Mutation: a property is the same only as that of the row before.
AfterRowOfRun(g, t) ==
    [ids   |-> IF g.ids = <<>> \/ g.ids[Len(g.ids)] # Home[t]
               THEN Append(g.ids, Home[t]) ELSE g.ids,
     rooms |-> [g.rooms EXCEPT ![Home[t]] = Append(@, t)]]

\* A row: a property that is not in propertyMap is put there and at the end of
\* orderedPropertyIDs, and the room type is added to its property.  Rows of
\* two properties of one name may alternate.
AfterRow(g, t) ==
    [ids   |-> IF g.rooms[Home[t]] = <<>> THEN Append(g.ids, Home[t]) ELSE g.ids,
     rooms |-> [g.rooms EXCEPT ![Home[t]] = Append(@, t)]]

\* for rows.Next().
Grouped(found) ==
    LET after[i \in 0 .. Len(found)] ==
            IF i = 0 THEN [ids |-> <<>>, rooms |-> [p \in Prop |-> <<>>]]
                     ELSE AfterRow(after[i - 1], found[i])
    IN  after[Len(found)]

\* results[start:end] of the page, both cut to the number of results.
Slice(order, page, size) ==
    LET cut(n) == IF n > Len(order) THEN Len(order) ELSE n
        start  == cut((page - 1) * size)
    IN  SubSeq(order, start + 1, cut(start + size))

\* What queryAvailableProperties makes of the query's rows: a page of the
\* properties found, each with those of its room types that were found.
Available(found, S, page, size) ==
    LET g         == Grouped(found)
        result(p) == [prop  |-> p,
                      types |-> [j \in DOMAIN g.rooms[p] |->
                                    [type  |-> g.rooms[p][j],
                                     units |-> Left(g.rooms[p][j], S)]]]
        shown     == Slice(g.ids, page, size)
    IN  [results |-> [i \in DOMAIN shown |-> result(shown[i])], total |-> Len(g.ids)]

\* What the query string does not say, or says with a number out of range.
Guests(asked)   == IF asked > 0 THEN asked ELSE 2
Page(asked)     == IF asked > 0 THEN asked ELSE 1
PageSize(asked) == IF asked \in 1 .. SizeMax THEN asked ELSE SizeDefault

\* GET /v1/properties/search, when the query answers with the rows found.
SearchProperties(in, out, page, size, found) ==
    IF out <= in \/ in < today THEN [status |-> 400]
    ELSE [status |-> 200,
          body   |-> Available(found, in .. out - 1, Page(page), PageSize(size))]

-----------------------------------------------------------------------------
(* Properties *)

\* allocation_service.go: "extend their 365-day booking horizon": when a sweep
\* has returned nil, the room types that the properties it listed had when it
\* began can be sold on every night from today to its horizon, whatever was
\* sold, failed or passed midnight meanwhile.
SweepProvides ==
    [][SweepStep /\ at' = "idle" =>
          \A t \in promised : \A k \in today .. began + Horizon - 1 :
              rows'[t][k] # NoRow]_vars

\* Every step is one that the ledgers of all room types allow (module Ledger):
\* the sweep never takes a unit that was sold.
Books(t) == INSTANCE Ledger WITH rows <- rows[t], Last <- LastNight,
                                 Sizes <- {Units[t]}

BooksAreKept == [][\A t \in RType : Books(t)!Next \/ UNCHANGED rows[t]]_vars

\* What is to be shown: the room types that CommitAllocation would sell, and the
\* properties that have some.
Fitting(S, guests, p) ==
    {t \in OfProperty(p) : Beds[t] >= guests /\ Sellable(t, S)}

Hotels(S, guests, where) ==
    {p \in where : status[p] = "ACTIVE" /\ Fitting(S, guests, p) # {}}

ExactTypes(shown, S, fit) ==
    /\ Len(shown) = Cardinality(fit)
    /\ {shown[j].type : j \in DOMAIN shown} = fit
    /\ \A i, j \in DOMAIN shown : i < j => Rate[shown[i].type] <= Rate[shown[j].type]
    /\ \A j \in DOMAIN shown :
          LET row(k) == rows[shown[j].type][k]
          IN  /\ \A k \in S : row(k).sold + shown[j].units <= row(k).total
              /\ \E k \in S : row(k).sold + shown[j].units = row(k).total

\* Enough to see all properties, and one page more.
Pages == 1 .. Cardinality(Prop) + 1

\* The pages that are cut from one answer of the query.
ExactPages(in, out, guests, size, hotels, found) ==
    LET answers == {<<i, SearchProperties(in, out, i, size, found).body>> : i \in Pages}
        onPage(i, results) == {<<i, j, results[j]>> : j \in DOMAIN results}
        seen == UNION {onPage(a[1], a[2].results) : a \in answers}
        turned(x, y) == x[1] < y[1] \/ (x[1] = y[1] /\ x[2] < y[2])
    IN  /\ {x[3].prop : x \in seen} = hotels
        /\ \A x, y \in seen : turned(x, y) =>
              /\ x[3].prop # y[3].prop
              /\ Named[x[3].prop] <= Named[y[3].prop]
        /\ \A x \in seen :
              ExactTypes(x[3].types, in .. out - 1,
                         Fitting(in .. out - 1, guests, x[3].prop))
        /\ \A a \in answers : a[2].total = Cardinality(hotels)

Shown(in, out, page, size, found) ==
    LET results == SearchProperties(in, out, page, size, found).body.results
    IN  {results[j].prop : j \in DOMAIN results}

\* Pages that are cut from two answers.  Where all properties of a name are on one
\* page of the first, each is on that page of the other, and on no other page.
PagesAgree(in, out, size, hotels, found, other) ==
    \A i \in Pages :
        LET here == Shown(in, out, i, size, found)
        IN  \A p \in here : {q \in hotels : Named[q] = Named[p]} \subseteq here =>
                \A k \in Pages : p \in Shown(in, out, k, size, other) <=> k = i

ExactSearch(in, out, guests, where, size) ==
    LET hotels  == Hotels(in .. out - 1, guests, where)
        answers == QueryRows(in .. out - 1, guests, where)
    IN  \A found \in answers :
            /\ ExactPages(in, out, guests, size, hotels, found)
            /\ \A other \in answers \ {found} :
                  PagesAgree(in, out, size, hotels, found, other)

\* README "availability search": whatever page size is asked for, the pages of one
\* answer of the query show every property where CommitAllocation would accept the
\* stay, once, in the order of their names, and no other; and of every room type,
\* the cheapest first, the number of times the stay could still be sold.  But every
\* page is a query of its own, whose answer may break ties in another way: a guest
\* who turns the pages while nothing changes sees each property once except where
\* a page ends between properties of one name, of which one may come twice and
\* another not at all.
SearchIsExact ==
    \A in \in today .. LastNight, out \in 1 .. LastNight + 1,
       guests \in 0 .. 1, size \in 1 .. SizeMax + 1 :
        in < out => ExactSearch(in, out, Guests(guests), Prop, size)

\* A room type that stays offered by an active property on the sweep's first
\* page is sooner or later on sale for the whole horizon of every day that
\* lasts, whatever statements of whatever sweeps fail.
Served(t) ==
    /\ t \in offered
    /\ \A page \in ListProperties("ACTIVE", SweepLimit) : Home[t] \in SX!ToSet(page)

HorizonMoves ==
    \A t \in RType : <>[]Served(t) => <>[](\A k \in Window : rows[t][k] # NoRow)
=============================================================================
