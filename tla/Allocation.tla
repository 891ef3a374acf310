----------------------------- MODULE Allocation -----------------------------
(***************************************************************************)
(* Layer 2 of the booking engine: the daily allocation ledger of ONE room  *)
(* type in PostgreSQL, and the transactions that run on it:                *)
(* CommitAllocation sells a stay, GenerateRollingAllocations upserts the   *)
(* nights of the booking horizon in chunks, one transaction per chunk.     *)
(*                                                                         *)
(* PostgreSQL runs at READ COMMITTED.  A row a transaction has locked,     *)
(* updated or inserted belongs to it until it ends; others wait for it and *)
(* then see the row as committed.  What a transaction wrote is its own     *)
(* version until COMMIT, and is gone after ROLLBACK.                       *)
(*                                                                         *)
(* blocked_count is left out: no statement of the program sets it.         *)
(***************************************************************************)
EXTENDS Integers, FiniteSets

CONSTANTS
    Seller,       \* calls of CommitAllocation, each for one stay
    Generator,    \* processes that run GenerateRollingAllocations
    LastDay,      \* the days on which this happens are 1 .. LastDay
    Horizon,      \* daysAhead
    ChunkSize,    \* AllocationBatchChunkSize
    Sizes,        \* the total_inventory a room type may be read with
    Faults        \* what may go wrong

Tx    == Seller \cup Generator
Last  == LastDay + Horizon - 1
Night == 1 .. Last

ASSUME TxAssumption     == /\ IsFiniteSet(Seller)
                           /\ Seller \cap Generator = {}
ASSUME HorizonAssumption == /\ LastDay \in Nat \ {0}
                            /\ Horizon \in Nat \ {0}
                            /\ ChunkSize \in Nat \ {0}
\* property/service.go:121 refuses a total_inventory that is not positive.
ASSUME SizesAssumption  == Sizes \subseteq Nat \ {0}
\* "down": a statement fails, or the connection or the process dies, and the
\* server rolls back; "lost": COMMIT is done but the caller sees an error.
ASSUME FaultsAssumption == Faults \subseteq {"down", "lost"}

VARIABLES
    ledger,       \* [Night -> Row], the committed rows
    today,        \* the day on the clock
    pc,           \* where the call is
    span,         \* seller: nights of the stay; generator: of the horizon
    todo,         \* nights the current transaction has yet to lock
    held,         \* nights whose row it has locked, updated or inserted
    wrote,        \* its versions of rows, NoRow where it wrote none
    fits,         \* seller: is there a row for every night, and has every row
                  \* scanned so far a unit left?
    units         \* generator: the total_units it upserts

vars == <<ledger, today, pc, span, todo, held, wrote, fits, units>>

Row     == [total : Nat, sold : Nat]
NoRow   == [total |-> 0, sold |-> 0]      \* no row for this night
Nothing == [k \in Night |-> NoRow]
Stay    == {from .. to : from \in Night, to \in Night} \ {{}}
Open    == {"lock", "update", "commit", "upsert"}
Ended   == {"sold", "refused", "failed", "done"}

AllocTypeOK ==
    /\ ledger \in [Night -> Row]
    /\ today \in 1 .. LastDay
    /\ pc \in [Tx -> {"idle"} \cup Open \cup Ended]
    /\ span \in [Tx -> SUBSET Night]
    /\ todo \in [Tx -> SUBSET Night]
    /\ held \in [Tx -> SUBSET Night]
    /\ wrote \in [Tx -> [Night -> Row]]
    /\ fits \in [Seller -> BOOLEAN]
    /\ units \in [Generator -> Sizes \cup {0}]

Init ==
    /\ ledger = Nothing
    /\ today = 1
    /\ pc = [p \in Tx |-> "idle"]
    /\ span = [p \in Tx |-> {}]
    /\ todo = [p \in Tx |-> {}]
    /\ held = [p \in Tx |-> {}]
    /\ wrote = [p \in Tx |-> Nothing]
    /\ fits = [s \in Seller |-> TRUE]
    /\ units = [g \in Generator |-> 0]

-----------------------------------------------------------------------------
(* Rows, locks and the end of a transaction *)

Full(k)    == ledger[k].sold + 1 > ledger[k].total
Free(p, k) == \A q \in Tx \ {p} : k \notin held[q]

\* Mutation: rows are locked in any order.
AnyNight(p, k) == k \in todo[p]

\* Both kinds of transaction lock in the order of stay_date.
NextNight(p, k) ==
    /\ k \in todo[p]
    /\ \A j \in todo[p] : k <= j

\* COMMIT publishes the transaction's versions.
Publish(p) ==
    ledger' = [k \in Night |-> IF wrote[p][k] = NoRow THEN ledger[k]
                                                      ELSE wrote[p][k]]

\* Mutation: the transaction is left open on an error.
EndLeavingLocks(p, outcome) ==
    /\ pc' = [pc EXCEPT ![p] = outcome]
    /\ todo' = [todo EXCEPT ![p] = {}]
    /\ wrote' = [wrote EXCEPT ![p] = Nothing]
    /\ UNCHANGED <<held, today, span, fits, units>>

\* The transaction is over, by COMMIT or by the deferred ROLLBACK.
End(p, outcome) ==
    /\ pc' = [pc EXCEPT ![p] = outcome]
    /\ todo' = [todo EXCEPT ![p] = {}]
    /\ held' = [held EXCEPT ![p] = {}]
    /\ wrote' = [wrote EXCEPT ![p] = Nothing]
    /\ UNCHANGED <<today, span, fits, units>>

-----------------------------------------------------------------------------
(* CommitAllocation *)

\* BEGIN, and the snapshot of SELECT .. FOR UPDATE: rows inserted later are
\* not among those it will lock.
Begin(s) ==
    /\ pc[s] = "idle"
    /\ \E S \in Stay :
          /\ span' = [span EXCEPT ![s] = S]
          /\ todo' = [todo EXCEPT ![s] = {k \in S : ledger[k] # NoRow}]
          /\ fits' = [fits EXCEPT ![s] = \A k \in S : ledger[k] # NoRow]
    /\ pc' = [pc EXCEPT ![s] = "lock"]
    /\ UNCHANGED <<ledger, today, held, wrote, units>>

\* Mutation: a plain SELECT, without FOR UPDATE.
ReadRow(s, k) ==
    /\ pc[s] = "lock"
    /\ NextNight(s, k)
    /\ todo' = [todo EXCEPT ![s] = @ \ {k}]
    /\ fits' = [fits EXCEPT ![s] = @ /\ ~Full(k)]
    /\ UNCHANGED <<ledger, today, pc, span, held, wrote, units>>

\* The next row of the SELECT is locked, returned and compared.
LockRow(s, k) ==
    /\ pc[s] = "lock"
    /\ NextNight(s, k)
    /\ Free(s, k)
    /\ todo' = [todo EXCEPT ![s] = @ \ {k}]
    /\ held' = [held EXCEPT ![s] = @ \cup {k}]
    /\ fits' = [fits EXCEPT ![s] = @ /\ ~Full(k)]
    /\ UNCHANGED <<ledger, today, pc, span, wrote, units>>

\* The SELECT is through: a full or a missing night refuses the stay.
Check(s) ==
    /\ pc[s] = "lock"
    /\ todo[s] = {}
    /\ UNCHANGED ledger
    /\ IF fits[s]
       THEN /\ pc' = [pc EXCEPT ![s] = "update"]
            /\ UNCHANGED <<today, span, todo, held, wrote, fits, units>>
       ELSE End(s, "refused")

\* The UPDATE takes a new snapshot.  chk_inventory_bounds makes it fail when a
\* row is full, and the code compares the number of rows it changed.
Update(s) ==
    LET rows == {k \in span[s] : ledger[k] # NoRow}
    IN  /\ pc[s] = "update"
        /\ \A k \in rows : Free(s, k)
        /\ UNCHANGED ledger
        /\ IF rows = span[s] /\ \A k \in rows : ~Full(k)
           THEN /\ pc' = [pc EXCEPT ![s] = "commit"]
                /\ held' = [held EXCEPT ![s] = @ \cup rows]
                /\ wrote' = [wrote EXCEPT ![s] = [k \in Night |->
                      IF k \in rows THEN [ledger[k] EXCEPT !.sold = @ + 1]
                                    ELSE NoRow]]
                /\ UNCHANGED <<today, span, todo, fits, units>>
           ELSE End(s, IF \E k \in rows : Full(k) THEN "refused" ELSE "failed")

Commit(s) ==
    /\ pc[s] = "commit"
    /\ Publish(s)
    /\ End(s, "sold")

-----------------------------------------------------------------------------
(* GenerateRollingAllocations and BatchUpsertDailyAllocations *)

FirstFew(S) == {k \in S : Cardinality({j \in S : j < k}) < ChunkSize}

\* Mutation: a last chunk that is not full is never flushed.
RestInFullChunks(g) ==
    LET rest == {k \in span[g] : \A j \in held[g] : j < k}
    IN  IF Cardinality(rest) < ChunkSize THEN {} ELSE rest

\* What is left of the horizon behind the chunk in hand.
Rest(g) == {k \in span[g] : \A j \in held[g] : j < k}

\* The call reads the clock and the room type's total_inventory, and then the
\* first chunk's transaction begins.
Generate(g) ==
    /\ pc[g] \in {"idle", "done", "failed"}
    /\ \E n \in Sizes : units' = [units EXCEPT ![g] = n]
    /\ span' = [span EXCEPT ![g] = today .. today + Horizon - 1]
    /\ todo' = [todo EXCEPT ![g] = FirstFew(today .. today + Horizon - 1)]
    /\ pc' = [pc EXCEPT ![g] = "upsert"]
    /\ UNCHANGED <<ledger, today, held, wrote, fits>>

\* Mutation: DO UPDATE without its WHERE clause.
UpsertedAlways(g, k) == [total |-> units[g], sold |-> ledger[k].sold]

\* Mutation: the conflict also overwrites allocated_count.
UpsertedBlindly(g, k) == [total |-> units[g], sold |-> 0]

\* INSERT .. ON CONFLICT DO UPDATE .. WHERE allocated_count = 0: inserted when
\* there is no row, updated when nothing is sold, else only locked.
Upserted(g, k) ==
    IF ledger[k].sold = 0 THEN [total |-> units[g], sold |-> 0] ELSE NoRow

Upsert(g, k) ==
    /\ pc[g] = "upsert"
    /\ NextNight(g, k)
    /\ Free(g, k)
    /\ todo' = [todo EXCEPT ![g] = @ \ {k}]
    /\ held' = [held EXCEPT ![g] = @ \cup {k}]
    /\ wrote' = [wrote EXCEPT ![g][k] = Upserted(g, k)]
    /\ UNCHANGED <<ledger, today, pc, span, fits, units>>

\* COMMIT of a chunk; the next one begins, or the call returns.
CommitChunk(g) ==
    /\ pc[g] = "upsert"
    /\ todo[g] = {}
    /\ Publish(g)
    /\ pc' = [pc EXCEPT ![g] = IF Rest(g) = {} THEN "done" ELSE "upsert"]
    /\ todo' = [todo EXCEPT ![g] = FirstFew(Rest(g))]
    /\ held' = [held EXCEPT ![g] = {}]
    /\ wrote' = [wrote EXCEPT ![g] = Nothing]
    /\ UNCHANGED <<today, span, fits, units>>

-----------------------------------------------------------------------------
(* Faults and time *)

Fail(p) ==
    /\ "down" \in Faults
    /\ pc[p] \in Open
    /\ UNCHANGED ledger
    /\ End(p, "failed")

CommitUnheard(p) ==
    /\ "lost" \in Faults
    /\ \/ pc[p] = "commit"
       \/ pc[p] = "upsert" /\ todo[p] = {}
    /\ Publish(p)
    /\ End(p, "failed")

NextDay ==
    /\ today < LastDay
    /\ today' = today + 1
    /\ UNCHANGED <<ledger, pc, span, todo, held, wrote, fits, units>>

SellStep(s) ==
    \/ Begin(s)
    \/ \E k \in Night : LockRow(s, k)
    \/ Check(s)
    \/ Update(s)
    \/ Commit(s)

GenerateStep(g) ==
    \/ Generate(g)
    \/ \E k \in Night : Upsert(g, k)
    \/ CommitChunk(g)

Next ==
    \/ \E s \in Seller : SellStep(s)
    \/ \E g \in Generator : GenerateStep(g)
    \/ \E p \in Tx : Fail(p) \/ CommitUnheard(p)
    \/ NextDay

Spec == Init /\ [][Next]_vars

\* A call that has begun goes on, and the server's lock queue is fair: a row
\* that becomes free again and again is granted.  A call is not made to fail.
Fairness ==
    /\ \A s \in Seller :
          /\ WF_vars(Check(s) \/ Update(s) \/ Commit(s))
          /\ \A k \in Night : SF_vars(LockRow(s, k))
    /\ \A g \in Generator :
          /\ WF_vars(CommitChunk(g))
          /\ \A k \in Night : SF_vars(Upsert(g, k))

FairSpec == Spec /\ Fairness

-----------------------------------------------------------------------------
(* Properties *)

\* The application's check holds until the UPDATE: between the SELECT and the
\* UPDATE no other transaction takes a unit or lowers total_units, so that
\* chk_inventory_bounds is never violated (CommitAllocation's branch for
\* SQLSTATE 23514 is a second line of defence only) and no row is missing.
CheckHolds ==
    \A s \in Seller : pc[s] = "update" =>
        \A k \in span[s] : ledger[k].sold < ledger[k].total

Returned(outcome) == {s \in Seller : pc[s] = outcome}

\* CommitAllocation sells a whole stay or nothing: ONE set of calls explains
\* allocated_count on every night.  It has all calls that returned nil, and of
\* the others only those whose COMMIT was done and its answer lost.
AllOrNothing ==
    \E Calls \in SUBSET Seller :
        /\ Returned("sold") \subseteq Calls
        /\ Calls \subseteq Returned("sold") \cup Returned("failed")
        /\ "lost" \notin Faults => Calls = Returned("sold")
        /\ \A k \in Night :
              ledger[k].sold = Cardinality({s \in Calls : k \in span[s]})

\* "Sort rows strictly by stay_date ASC to prevent deadlocks": no transactions
\* wait for each other in a circle, sales and upserts alike.
WaitsFor(p, q) ==
    /\ pc[p] \in {"lock", "upsert"}
    /\ p # q
    /\ \E k \in held[q] : NextNight(p, k)

NoWaitCycle ==
    \A P \in (SUBSET Tx) \ {{}} : \E p \in P : \A q \in P : ~WaitsFor(p, q)

\* When GenerateRollingAllocations returns nil, every night from its start to
\* its horizon is there to be sold, whatever else ran and failed meanwhile.
HorizonProvided ==
    \A g \in Generator : pc[g] = "done" =>
        \A k \in span[g] : ledger[k].total > 0

\* Every call takes effect at one instant, as module Ledger says: with their
\* row locks the transactions are serializable although they run at READ
\* COMMITTED, and the upsert leaves sold nights alone.
Abstract == INSTANCE Ledger WITH rows <- ledger

ImplementsLedger == Abstract!Spec

\* A call that has opened a transaction returns.
CallsEnd == \A p \in Tx : pc[p] \in Open ~> pc[p] \notin Open
=============================================================================
