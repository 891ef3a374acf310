-------------------------- MODULE AllocationProofs --------------------------
(***************************************************************************)
(* Theorems about Allocation, for every number of calls, nights and units  *)
(* and for all faults.                                                     *)
(*                                                                         *)
(* The inductive invariant AInv says of each transaction what it has       *)
(* locked, and what it knows of the rows it has locked.  Locks exclude     *)
(* each other, and a transaction changes only rows it has locked, so what  *)
(* one knows is not disturbed by the others (lemma Compose).               *)
(***************************************************************************)
EXTENDS Allocation, FiniteSetTheorems, WellFoundedInduction, TLAPS

-----------------------------------------------------------------------------
(* The inductive invariant *)

Room(k)     == ledger[k].sold < ledger[k].total
Bounds      == \A k \in Night : ledger[k].sold <= ledger[k].total
Exclusive   == \A p, q \in Tx : p # q => held[p] \cap held[q] = {}

\* Locks are taken upwards, and none are left when a call is over.
TxInv(p) ==
    /\ held[p] \cup todo[p] \subseteq span[p]
    /\ \A h \in held[p], t \in todo[p] : h < t
    /\ pc[p] \notin Open => held[p] = {} /\ todo[p] = {} /\ wrote[p] = Nothing

OneMore(s) ==
    [k \in Night |-> IF k \in span[s] THEN [ledger[k] EXCEPT !.sold = @ + 1]
                                      ELSE NoRow]

SellerInv(s) ==
    /\ pc[s] \in {"idle", "lock", "update", "commit", "sold", "refused", "failed"}
    /\ pc[s] \in {"lock", "update", "commit"} => span[s] \in Stay
    /\ pc[s] = "lock" =>
          /\ wrote[s] = Nothing
          /\ fits[s] => /\ held[s] \cup todo[s] = span[s]
                        /\ \A k \in held[s] : Room(k)
    /\ pc[s] \in {"update", "commit"} =>
          /\ todo[s] = {}
          /\ held[s] = span[s]
          /\ \A k \in span[s] : Room(k)
    /\ pc[s] = "update" => wrote[s] = Nothing
    /\ pc[s] = "commit" => wrote[s] = OneMore(s)

Provided(g) ==
    [k \in Night |-> IF k \in held[g] /\ ledger[k].sold = 0
                     THEN [total |-> units[g], sold |-> 0] ELSE NoRow]

GeneratorInv(g) ==
    /\ pc[g] \in {"idle", "upsert", "done", "failed"}
    /\ pc[g] = "upsert" =>
          /\ units[g] \in Sizes
          /\ wrote[g] = Provided(g)
          /\ \A k \in span[g] : \/ k \in held[g] \cup todo[g]
                                \/ \A j \in held[g] \cup todo[g] : j < k
                                \/ ledger[k].total > 0
    /\ pc[g] = "done" => \A k \in span[g] : ledger[k].total > 0

AInv ==
    /\ AllocTypeOK
    /\ Bounds
    /\ Exclusive
    /\ \A p \in Tx : TxInv(p)
    /\ \A s \in Seller : SellerInv(s)
    /\ \A g \in Generator : GeneratorInv(g)

-----------------------------------------------------------------------------
(* One transaction moves, the others keep what they know *)

Others(p) ==
    /\ \A q \in Tx \ {p} : /\ pc'[q] = pc[q]
                           /\ span'[q] = span[q]
                           /\ todo'[q] = todo[q]
                           /\ held'[q] = held[q]
                           /\ wrote'[q] = wrote[q]
    /\ \A s \in Seller \ {p} : fits'[s] = fits[s]
    /\ \A g \in Generator \ {p} : units'[g] = units[g]

\* A step of p changes only rows that p has locked, and no row goes away.
LedgerMoves(p) ==
    \A k \in Night : /\ k \notin held[p] => ledger'[k] = ledger[k]
                     /\ ledger[k].total > 0 => ledger'[k].total > 0
                     /\ ledger'[k].sold <= ledger'[k].total

\* Last is a natural number, and nights are.
LEMMA NightsAreNaturals == Last \in Nat \ {0} /\ Night \subseteq Nat
  BY HorizonAssumption DEF Last, Night

\* What a seller knows survives the steps of others.
LEMMA SellerKeeps ==
  ASSUME AInv, NEW p \in Tx, NEW s \in Seller \ {p}, Others(p), LedgerMoves(p)
  PROVE  SellerInv(s)'
<1>1. s \in Tx
  BY DEF Tx
<1>2. /\ pc'[s] = pc[s] /\ span'[s] = span[s] /\ todo'[s] = todo[s]
      /\ held'[s] = held[s] /\ wrote'[s] = wrote[s] /\ fits'[s] = fits[s]
  BY <1>1 DEF Others
<1>3. \A k \in held[s] : k \in Night /\ ledger'[k] = ledger[k]
  BY <1>1 DEF AInv, Exclusive, AllocTypeOK, LedgerMoves
<1>4. SellerInv(s)
  BY DEF AInv
<1>5. ASSUME pc[s] = "commit" PROVE wrote'[s] = OneMore(s)'
  <2>1. wrote[s] = OneMore(s) /\ span[s] = held[s]
    BY <1>4, <1>5 DEF SellerInv
  <2>2. \A k \in span[s] : ledger'[k] = ledger[k]
    BY <2>1, <1>3
  <2>3. OneMore(s)' = OneMore(s)
    BY <2>2, <1>2 DEF OneMore
  <2>4. QED  BY <2>1, <2>3, <1>2
<1>6. ASSUME pc[s] \in {"update", "commit"} PROVE \A k \in span[s] : Room(k)'
  BY <1>3, <1>4, <1>6 DEF SellerInv, Room
<1>7. ASSUME pc[s] = "lock", fits[s] PROVE \A k \in held[s] : Room(k)'
  BY <1>3, <1>4, <1>7 DEF SellerInv, Room
<1>8. QED
  BY <1>2, <1>4, <1>5, <1>6, <1>7 DEF SellerInv, Nothing

\* And so does what a generator knows.
LEMMA GeneratorKeeps ==
  ASSUME AInv, NEW p \in Tx, NEW g \in Generator \ {p}, Others(p), LedgerMoves(p)
  PROVE  GeneratorInv(g)'
<1>1. g \in Tx
  BY DEF Tx
<1>2. /\ pc'[g] = pc[g] /\ span'[g] = span[g] /\ todo'[g] = todo[g]
      /\ held'[g] = held[g] /\ wrote'[g] = wrote[g] /\ units'[g] = units[g]
  BY <1>1 DEF Others
<1>3. \A k \in held[g] : k \in Night /\ ledger'[k] = ledger[k]
  BY <1>1 DEF AInv, Exclusive, AllocTypeOK, LedgerMoves
<1>4. GeneratorInv(g) /\ span[g] \subseteq Night
  BY <1>1 DEF AInv, AllocTypeOK
<1>5. Provided(g)' = Provided(g)
  BY <1>2, <1>3 DEF Provided
<1>6. \A k \in span[g] : ledger[k].total > 0 => ledger'[k].total > 0
  BY <1>4 DEF LedgerMoves
<1>7. QED
  BY <1>2, <1>4, <1>5, <1>6 DEF GeneratorInv

\* So the invariant is preserved by a step of p that preserves p's own part.
LEMMA Compose ==
  ASSUME AInv, NEW p \in Tx, AllocTypeOK', Others(p), LedgerMoves(p), TxInv(p)',
         p \in Seller => SellerInv(p)',
         p \in Generator => GeneratorInv(p)',
         \A q \in Tx \ {p} : held'[p] \cap held[q] = {}
  PROVE  AInv'
<1>1. Bounds'
  BY DEF LedgerMoves, Bounds
<1>2. Exclusive'
  BY DEF AInv, Exclusive, Others
<1>3. ASSUME NEW q \in Tx PROVE TxInv(q)'
  BY DEF AInv, TxInv, Others, Nothing
<1>4. ASSUME NEW s \in Seller PROVE SellerInv(s)'
  BY SellerKeeps
<1>5. ASSUME NEW g \in Generator PROVE GeneratorInv(g)'
  BY GeneratorKeeps
<1>6. QED
  BY <1>1, <1>2, <1>3, <1>4, <1>5 DEF AInv

-----------------------------------------------------------------------------
(* Types *)

LEMMA InitType == Init => AllocTypeOK
  BY NightsAreNaturals, HorizonAssumption
  DEF Init, AllocTypeOK, Nothing, NoRow, Row, Open, Ended

LEMMA ChunkIsPart == \A S : FirstFew(S) \subseteq S
  BY DEF FirstFew

LEMMA RowsAreRows == NoRow \in Row /\ Nothing \in [Night -> Row]
  BY DEF NoRow, Row, Nothing

LEMMA StaysAreNights == \A S \in Stay : S \subseteq Night
  BY NightsAreNaturals DEF Stay, Night

LEMMA PublishType ==
  ASSUME AllocTypeOK, NEW p \in Tx, Publish(p)
  PROVE  ledger' \in [Night -> Row]
  BY DEF AllocTypeOK, Publish

LEMMA EndType ==
  ASSUME AllocTypeOK, NEW p \in Tx, NEW outcome \in Ended, End(p, outcome),
         ledger' \in [Night -> Row]
  PROVE  AllocTypeOK'
  BY RowsAreRows DEF AllocTypeOK, End

\* The horizon that a generator sees lies within the nights.
LEMMA HorizonIsNights ==
  ASSUME AllocTypeOK
  PROVE  today .. today + Horizon - 1 \subseteq Night
  BY HorizonAssumption DEF AllocTypeOK, Night, Last

LEMMA SellType ==
  ASSUME AllocTypeOK, NEW s \in Seller, SellStep(s)
  PROVE  AllocTypeOK'
<1>0. s \in Tx
  BY DEF Tx
<1>1. CASE Begin(s)
  <2>1. PICK S \in Stay :
           /\ span' = [span EXCEPT ![s] = S]
           /\ todo' = [todo EXCEPT ![s] = {k \in S : ledger[k] # NoRow}]
           /\ fits' = [fits EXCEPT ![s] = \A k \in S : ledger[k] # NoRow]
    BY <1>1 DEF Begin
  <2>2. S \subseteq Night
    BY StaysAreNights
  <2>3. {k \in S : ledger[k] # NoRow} \subseteq Night
    BY <2>2
  <2>4. span' \in [Tx -> SUBSET Night] /\ todo' \in [Tx -> SUBSET Night]
    BY <2>1, <2>2, <2>3 DEF AllocTypeOK
  <2>5. fits' \in [Seller -> BOOLEAN]
    BY <2>1 DEF AllocTypeOK
  <2>6. pc' \in [Tx -> {"idle"} \cup Open \cup Ended]
    BY <1>1 DEF Begin, AllocTypeOK, Open
  <2>7. QED
    BY <1>1, <2>4, <2>5, <2>6 DEF Begin, AllocTypeOK
<1>2. ASSUME NEW k \in Night, LockRow(s, k) PROVE AllocTypeOK'
  BY <1>0, <1>2 DEF LockRow, AllocTypeOK
<1>3. CASE Check(s)
  <2>1. CASE fits[s]
    BY <1>3, <2>1 DEF Check, AllocTypeOK, Open
  <2>2. CASE ~ fits[s]
    BY <1>0, <1>3, <2>2, EndType DEF Check, AllocTypeOK, Ended
  <2>3. QED  BY <2>1, <2>2
<1>4. CASE Update(s)
  <2> DEFINE rows == {k \in span[s] : ledger[k] # NoRow}
             good == rows = span[s] /\ \A k \in rows : ~Full(k)
  <2>1. CASE good
    <3>1. /\ pc' = [pc EXCEPT ![s] = "commit"]
          /\ held' = [held EXCEPT ![s] = @ \cup rows]
          /\ wrote' = [wrote EXCEPT ![s] = [k \in Night |->
                  IF k \in rows THEN [ledger[k] EXCEPT !.sold = @ + 1]
                                ELSE NoRow]]
          /\ UNCHANGED <<ledger, today, span, todo, fits, units>>
      BY <1>4, <2>1 DEF Update
    <3>2. rows \subseteq Night
      BY <1>0 DEF AllocTypeOK
    <3>3. ASSUME NEW k \in Night PROVE [ledger[k] EXCEPT !.sold = @ + 1] \in Row
      <4>1. ledger[k] \in Row
        BY DEF AllocTypeOK
      <4>2. QED  BY <4>1 DEF Row
    <3>4. [k \in Night |-> IF k \in rows THEN [ledger[k] EXCEPT !.sold = @ + 1]
                                          ELSE NoRow] \in [Night -> Row]
      BY <3>3, RowsAreRows
    <3>5. QED
      BY <3>1, <3>2, <3>4, <1>0 DEF AllocTypeOK, Open
  <2>2. CASE ~ good
    <3>1. End(s, "refused") \/ End(s, "failed")
      BY <1>4, <2>2 DEF Update
    <3>2. QED
      BY <3>1, <1>0, <1>4, EndType DEF Update, AllocTypeOK, Ended
  <2>3. QED  BY <2>1, <2>2
<1>5. CASE Commit(s)
  BY <1>0, <1>5, EndType, PublishType DEF Commit, Ended
<1>6. QED
  BY <1>1, <1>2, <1>3, <1>4, <1>5 DEF SellStep

LEMMA GenerateType ==
  ASSUME AllocTypeOK, NEW g \in Generator, GenerateStep(g)
  PROVE  AllocTypeOK'
<1>0. g \in Tx
  BY DEF Tx
<1>1. CASE Generate(g)
  <2>1. FirstFew(today .. today + Horizon - 1) \subseteq Night
    BY HorizonIsNights, ChunkIsPart
  <2>2. span' \in [Tx -> SUBSET Night] /\ todo' \in [Tx -> SUBSET Night]
    BY <1>1, <2>1, HorizonIsNights DEF Generate, AllocTypeOK
  <2>3. units' \in [Generator -> Sizes \cup {0}]
    BY <1>1 DEF Generate, AllocTypeOK
  <2>4. QED
    BY <1>1, <2>2, <2>3 DEF Generate, AllocTypeOK, Open
<1>2. ASSUME NEW k \in Night, Upsert(g, k) PROVE AllocTypeOK'
  <2>1. [total |-> units[g], sold |-> 0] \in Row
    <3>1. units[g] \in Nat
      <4>1. units[g] \in Sizes \cup {0}
        BY DEF AllocTypeOK
      <4>2. \A n \in Sizes : n \in Nat
        BY SizesAssumption
      <4>3. QED  BY <4>1, <4>2
    <3>2. QED  BY <3>1 DEF Row
  <2>2. Upserted(g, k) \in Row
    BY <2>1, RowsAreRows DEF Upserted
  <2>3. wrote' \in [Tx -> [Night -> Row]]
    BY <1>0, <1>2, <2>2 DEF Upsert, AllocTypeOK
  <2>4. QED
    BY <1>0, <1>2, <2>3 DEF Upsert, AllocTypeOK
<1>3. CASE CommitChunk(g)
  <2>1. FirstFew(Rest(g)) \subseteq Night
    BY <1>0, ChunkIsPart DEF Rest, AllocTypeOK
  <2>2. ledger' \in [Night -> Row]
    BY <1>0, <1>3, PublishType DEF CommitChunk
  <2>3. wrote' \in [Tx -> [Night -> Row]]
    BY <1>3, RowsAreRows DEF CommitChunk, AllocTypeOK
  <2>4. QED
    BY <1>3, <2>1, <2>2, <2>3 DEF CommitChunk, AllocTypeOK, Open, Ended
<1>4. QED
  BY <1>1, <1>2, <1>3 DEF GenerateStep

LEMMA TypeStep == AllocTypeOK /\ [Next]_vars => AllocTypeOK'
<1> SUFFICES ASSUME AllocTypeOK, [Next]_vars PROVE AllocTypeOK'
  OBVIOUS
<1>1. ASSUME NEW s \in Seller, SellStep(s) PROVE AllocTypeOK'
  BY <1>1, SellType
<1>2. ASSUME NEW g \in Generator, GenerateStep(g) PROVE AllocTypeOK'
  BY <1>2, GenerateType
<1>3. ASSUME NEW p \in Tx, Fail(p) PROVE AllocTypeOK'
  BY <1>3, EndType DEF Fail, AllocTypeOK, Ended
<1>4. ASSUME NEW p \in Tx, CommitUnheard(p) PROVE AllocTypeOK'
  BY <1>4, EndType, PublishType DEF CommitUnheard, Ended
<1>5. CASE NextDay
  BY <1>5, HorizonAssumption DEF NextDay, AllocTypeOK
<1>6. CASE UNCHANGED vars
  BY <1>6 DEF vars, AllocTypeOK
<1>7. QED
  BY <1>1, <1>2, <1>3, <1>4, <1>5, <1>6 DEF Next

\* Every variable keeps its type.
THEOREM AllocTypeCorrect == Spec => []AllocTypeOK
<1>1. QED
  BY InitType, TypeStep, PTL DEF Spec

-----------------------------------------------------------------------------
(* The steps *)

LEMMA LedgerStays ==
  ASSUME AInv, NEW p \in Tx, UNCHANGED ledger
  PROVE  LedgerMoves(p)
  BY DEF AInv, Bounds, LedgerMoves

\* What COMMIT publishes are rows that the transaction has locked, with units.
LEMMA WrittenRows ==
  ASSUME AInv, NEW p \in Tx, pc[p] \in {"commit", "upsert"}, NEW k \in Night,
         wrote[p][k] # NoRow
  PROVE  /\ k \in held[p]
         /\ wrote[p][k].total > 0
         /\ wrote[p][k].sold <= wrote[p][k].total
         /\ p \in Generator => wrote[p][k].sold = ledger[k].sold
<1>1. ledger[k] \in Row
  BY DEF AInv, AllocTypeOK
<1>2. CASE p \in Seller
  <2>1. SellerInv(p) /\ p \notin Generator
    BY <1>2, TxAssumption DEF AInv
  <2>2. wrote[p] = OneMore(p) /\ held[p] = span[p] /\ \A j \in span[p] : Room(j)
    BY <2>1 DEF SellerInv
  <2>3. k \in span[p] /\ wrote[p][k] = [ledger[k] EXCEPT !.sold = @ + 1]
    BY <2>2 DEF OneMore
  <2>4. wrote[p][k].total = ledger[k].total /\ wrote[p][k].sold = ledger[k].sold + 1
    BY <2>3, <1>1 DEF Row
  <2>5. ledger[k].sold < ledger[k].total
    BY <2>2, <2>3 DEF Room
  <2>6. ledger[k].sold \in Nat /\ ledger[k].total \in Nat
    BY <1>1 DEF Row
  <2>7. QED
    BY <2>1, <2>2, <2>3, <2>4, <2>5, <2>6
<1>3. CASE p \in Generator
  <2>1. GeneratorInv(p)
    BY <1>3 DEF AInv
  <2>2. wrote[p] = Provided(p) /\ units[p] \in Sizes
    BY <2>1 DEF GeneratorInv
  <2>3. /\ k \in held[p]
        /\ ledger[k].sold = 0
        /\ wrote[p][k] = [total |-> units[p], sold |-> 0]
    BY <2>2 DEF Provided
  <2>4. units[p] \in Nat \ {0}
    BY <2>2, SizesAssumption
  <2>5. QED
    BY <2>3, <2>4
<1>4. QED
  BY <1>2, <1>3 DEF Tx

LEMMA PublishMoves ==
  ASSUME AInv, NEW p \in Tx, pc[p] \in {"commit", "upsert"}, Publish(p)
  PROVE  LedgerMoves(p)
<1> SUFFICES ASSUME NEW k \in Night
             PROVE  /\ k \notin held[p] => ledger'[k] = ledger[k]
                    /\ ledger[k].total > 0 => ledger'[k].total > 0
                    /\ ledger'[k].sold <= ledger'[k].total
  BY DEF LedgerMoves
<1>1. ledger'[k] = IF wrote[p][k] = NoRow THEN ledger[k] ELSE wrote[p][k]
  BY DEF Publish
<1>2. ledger[k].sold <= ledger[k].total
  BY DEF AInv, Bounds
<1>3. QED
  BY <1>1, <1>2, WrittenRows

\* The end of a transaction, with or without its versions published.
LEMMA EndKeeps ==
  ASSUME AInv, NEW p \in Tx, NEW outcome \in {"sold", "refused", "failed"},
         p \in Generator => outcome = "failed", End(p, outcome), LedgerMoves(p),
         ledger' \in [Night -> Row]
  PROVE  AInv'
<1>1. AllocTypeOK /\ outcome \in Ended
  BY DEF AInv, Ended
<1>2. AllocTypeOK'
  BY <1>1, EndType
<1>3. /\ pc'[p] = outcome /\ todo'[p] = {} /\ held'[p] = {}
      /\ wrote'[p] = Nothing /\ span'[p] = span[p]
  BY <1>1 DEF End, AllocTypeOK
<1>4. Others(p)
  BY <1>1 DEF End, Others, AllocTypeOK
<1>5. TxInv(p)'
  BY <1>3 DEF TxInv, Nothing
<1>6. p \in Seller => SellerInv(p)'
  BY <1>3 DEF SellerInv
<1>7. p \in Generator => GeneratorInv(p)'
  BY <1>3 DEF GeneratorInv
<1>8. QED
  BY <1>2, <1>3, <1>4, <1>5, <1>6, <1>7, Compose

LEMMA LockRowKeeps ==
  ASSUME AInv, NEW s \in Seller, NEW k \in Night, LockRow(s, k), AllocTypeOK'
  PROVE  AInv'
<1>0. s \in Tx /\ s \notin Generator /\ AllocTypeOK /\ SellerInv(s) /\ TxInv(s)
  BY TxAssumption DEF AInv, Tx
<1>1. /\ pc[s] = "lock" /\ pc'[s] = "lock" /\ span'[s] = span[s]
      /\ todo'[s] = todo[s] \ {k} /\ held'[s] = held[s] \cup {k}
      /\ wrote'[s] = wrote[s] /\ fits'[s] = (fits[s] /\ ~Full(k))
      /\ ledger' = ledger
  BY <1>0 DEF LockRow, AllocTypeOK
<1>2. /\ k \in todo[s]
      /\ \A j \in todo[s] : k <= j
      /\ \A q \in Tx \ {s} : k \notin held[q]
  BY DEF LockRow, NextNight, Free
<1>3. Others(s)
  BY <1>0 DEF LockRow, Others, AllocTypeOK
<1>4. LedgerMoves(s)
  BY <1>0, <1>1, LedgerStays
<1>5. TxInv(s)'
  <2>1. todo[s] \subseteq Nat /\ k \in Nat
    BY <1>0, NightsAreNaturals DEF AllocTypeOK
  <2>2. \A h \in held[s] \cup {k}, t \in todo[s] \ {k} : h < t
    BY <1>0, <1>2, <2>1 DEF TxInv
  <2>3. QED
    BY <1>0, <1>1, <1>2, <2>2 DEF TxInv, Open
<1>6. SellerInv(s)'
  <2>1. ~Full(k) => Room(k)'
    <3>1. ledger[k] \in Row
      BY <1>0 DEF AllocTypeOK
    <3>2. QED  BY <3>1, <1>1 DEF Full, Room, Row
  <2>2. \A j \in held[s] : Room(j)' <=> Room(j)
    BY <1>1 DEF Room
  <2>3. (held[s] \cup {k}) \cup (todo[s] \ {k}) = held[s] \cup todo[s]
    BY <1>2
  <2>4. ASSUME fits'[s]
        PROVE  held'[s] \cup todo'[s] = span'[s] /\ \A j \in held'[s] : Room(j)'
    <3>1. fits[s] /\ ~Full(k)
      BY <1>1, <2>4
    <3>2. held[s] \cup todo[s] = span[s] /\ \A j \in held[s] : Room(j)
      BY <3>1, <1>0, <1>1 DEF SellerInv
    <3>3. QED
      BY <3>1, <3>2, <1>1, <2>1, <2>2, <2>3
  <2>5. QED
    BY <1>0, <1>1, <2>4 DEF SellerInv, Nothing
<1>7. \A q \in Tx \ {s} : held'[s] \cap held[q] = {}
  BY <1>0, <1>1, <1>2 DEF AInv, Exclusive
<1>8. QED
  BY <1>0, <1>3, <1>4, <1>5, <1>6, <1>7, Compose

LEMMA UpdateKeeps ==
  ASSUME AInv, NEW s \in Seller, Update(s), AllocTypeOK'
  PROVE  AInv' /\ pc'[s] = "commit"
<1>0. s \in Tx /\ s \notin Generator /\ AllocTypeOK /\ SellerInv(s) /\ TxInv(s)
  BY TxAssumption DEF AInv, Tx
<1> DEFINE rows == {k \in span[s] : ledger[k] # NoRow}
<1>1. /\ pc[s] = "update" /\ todo[s] = {} /\ held[s] = span[s]
      /\ \A k \in span[s] : Room(k)
  BY <1>0 DEF Update, SellerInv
<1>2. \A k \in span[s] : ledger[k] \in Row
  BY <1>0 DEF AllocTypeOK
<1>3. rows = span[s]
  BY <1>1 DEF Room, NoRow
<1>4. \A k \in rows : ~Full(k)
  BY <1>1, <1>2 DEF Room, Full, Row
<1>5. /\ pc' = [pc EXCEPT ![s] = "commit"]
      /\ held' = [held EXCEPT ![s] = @ \cup rows]
      /\ wrote' = [wrote EXCEPT ![s] = [k \in Night |->
              IF k \in rows THEN [ledger[k] EXCEPT !.sold = @ + 1]
                            ELSE NoRow]]
      /\ UNCHANGED <<ledger, today, span, todo, fits, units>>
  BY <1>3, <1>4 DEF Update
<1>6. /\ pc'[s] = "commit" /\ held'[s] = held[s] /\ todo'[s] = todo[s]
      /\ span'[s] = span[s] /\ ledger' = ledger
  BY <1>0, <1>1, <1>3, <1>5 DEF AllocTypeOK
<1>7. wrote'[s] = OneMore(s)'
  <2>1. wrote'[s] = [k \in Night |->
              IF k \in rows THEN [ledger[k] EXCEPT !.sold = @ + 1] ELSE NoRow]
    BY <1>0, <1>5 DEF AllocTypeOK
  <2>2. QED  BY <2>1, <1>3, <1>6 DEF OneMore
<1>8. Others(s)
  BY <1>0, <1>5 DEF Others, AllocTypeOK
<1>9. LedgerMoves(s)
  BY <1>0, <1>6, LedgerStays
<1>10. TxInv(s)'
  BY <1>0, <1>6 DEF TxInv, Open
<1>11. SellerInv(s)'
  <2>1. \A k \in span[s] : Room(k)'
    BY <1>1, <1>6 DEF Room
  <2>2. span[s] \in Stay
    BY <1>0, <1>1 DEF SellerInv
  <2>3. QED
    BY <1>1, <1>6, <1>7, <2>1, <2>2 DEF SellerInv
<1>12. \A q \in Tx \ {s} : held'[s] \cap held[q] = {}
  BY <1>0, <1>6 DEF AInv, Exclusive
<1>13. QED
  BY <1>0, <1>6, <1>8, <1>9, <1>10, <1>11, <1>12, Compose

LEMMA SellKeeps ==
  ASSUME AInv, NEW s \in Seller, SellStep(s)
  PROVE  AInv'
<1>0. /\ s \in Tx /\ s \notin Generator /\ AllocTypeOK
      /\ SellerInv(s) /\ TxInv(s) /\ AllocTypeOK'
  BY TxAssumption, SellType DEF AInv, Tx
<1>1. CASE Begin(s)
  <2>1. PICK S \in Stay :
           /\ span' = [span EXCEPT ![s] = S]
           /\ todo' = [todo EXCEPT ![s] = {k \in S : ledger[k] # NoRow}]
           /\ fits' = [fits EXCEPT ![s] = \A k \in S : ledger[k] # NoRow]
    BY <1>1 DEF Begin
  <2>2. /\ pc[s] = "idle" /\ held[s] = {} /\ wrote[s] = Nothing
    BY <1>0, <1>1 DEF Begin, TxInv, Open
  <2>3. /\ span'[s] = S /\ todo'[s] = {k \in S : ledger[k] # NoRow}
        /\ pc'[s] = "lock" /\ held'[s] = {} /\ wrote'[s] = Nothing
        /\ fits'[s] = (\A k \in S : ledger[k] # NoRow)
        /\ ledger' = ledger
    BY <1>0, <1>1, <2>1, <2>2 DEF Begin, AllocTypeOK
  <2>4. Others(s)
    BY <1>0, <1>1, <2>1 DEF Begin, Others, AllocTypeOK
  <2>5. LedgerMoves(s)
    BY <1>0, <2>3, LedgerStays
  <2>6. TxInv(s)'
    BY <2>3 DEF TxInv, Open
  <2>7. SellerInv(s)'
    BY <2>3 DEF SellerInv, Nothing
  <2>8. QED
    BY <1>0, <2>3, <2>4, <2>5, <2>6, <2>7, Compose
<1>2. ASSUME NEW k \in Night, LockRow(s, k) PROVE AInv'
  BY <1>0, <1>2, LockRowKeeps
<1>3. CASE Check(s)
  <2>1. pc[s] = "lock" /\ todo[s] = {} /\ UNCHANGED ledger
    BY <1>3 DEF Check
  <2>2. LedgerMoves(s) /\ ledger' \in [Night -> Row]
    BY <1>0, <2>1, LedgerStays DEF AllocTypeOK
  <2>3. CASE fits[s]
    <3>1. /\ pc' = [pc EXCEPT ![s] = "update"]
          /\ UNCHANGED <<today, span, todo, held, wrote, fits, units>>
      BY <1>3, <2>3 DEF Check
    <3>2. pc'[s] = "update"
      BY <1>0, <3>1 DEF AllocTypeOK
    <3>3. Others(s)
      BY <1>0, <3>1 DEF Others, AllocTypeOK
    <3>4. TxInv(s)'
      BY <1>0, <3>1, <3>2 DEF TxInv, Open
    <3>5. held[s] = span[s] /\ \A k \in span[s] : Room(k)
      BY <1>0, <2>1, <2>3 DEF SellerInv
    <3>6. \A k \in span[s] : Room(k)'
      BY <3>5, <2>1 DEF Room
    <3>7. SellerInv(s)'
      BY <1>0, <2>1, <3>1, <3>2, <3>5, <3>6 DEF SellerInv, Nothing
    <3>8. QED
      BY <1>0, <2>2, <3>1, <3>3, <3>4, <3>7, Compose DEF AInv, Exclusive
  <2>4. CASE ~ fits[s]
    <3>1. End(s, "refused")
      BY <1>3, <2>4 DEF Check
    <3>2. QED
      BY <1>0, <2>2, <3>1, EndKeeps
  <2>5. QED  BY <2>3, <2>4
<1>4. CASE Update(s)
  BY <1>0, <1>4, UpdateKeeps
<1>5. CASE Commit(s)
  <2>1. LedgerMoves(s) /\ ledger' \in [Night -> Row]
    BY <1>0, <1>5, PublishMoves DEF Commit, AllocTypeOK
  <2>2. QED
    BY <1>0, <1>5, <2>1, EndKeeps DEF Commit
<1>6. QED
  BY <1>1, <1>2, <1>3, <1>4, <1>5 DEF SellStep

\* A chunk has all nights up to its last one.
LEMMA ChunkIsInitial ==
  ASSUME NEW S \in SUBSET Night, NEW k \in S, NEW j \in FirstFew(S), k <= j
  PROVE  k \in FirstFew(S)
<1>1. j \in Nat /\ k \in Nat /\ S \subseteq Nat /\ IsFiniteSet(S)
  <2>1. j \in S /\ S \subseteq Nat
    BY NightsAreNaturals, ChunkIsPart
  <2>2. IsFiniteSet(Night)
    BY NightsAreNaturals, FS_Interval DEF Night
  <2>3. IsFiniteSet(S)
    BY <2>2, FS_Subset
  <2>4. QED  BY <2>1, <2>3
<1>2. {i \in S : i < k} \subseteq {i \in S : i < j}
  <2>1. ASSUME NEW i \in S, i < k PROVE i < j
    <3>1. i \in Nat /\ j \in Nat /\ k \in Nat
      BY <1>1
    <3>2. QED  BY <3>1, <2>1
  <2>2. QED  BY <2>1
<1>3. /\ IsFiniteSet({i \in S : i < j})
      /\ Cardinality({i \in S : i < k}) <= Cardinality({i \in S : i < j})
      /\ Cardinality({i \in S : i < k}) \in Nat
      /\ Cardinality({i \in S : i < j}) \in Nat
  <2>1. IsFiniteSet({i \in S : i < j})
    BY <1>1, FS_Subset
  <2>2. QED
    BY <1>2, <2>1, FS_Subset, FS_CardinalityType
<1>4. Cardinality({i \in S : i < j}) < ChunkSize
  BY DEF FirstFew
<1>5. QED
  BY <1>3, <1>4, HorizonAssumption DEF FirstFew

\* So behind the nights of a chunk there is only what comes later.
LEMMA BehindChunk ==
  ASSUME NEW S \in SUBSET Night, NEW k \in S
  PROVE  k \in FirstFew(S) \/ \A j \in FirstFew(S) : j < k
<1>1. k \in Nat /\ \A j \in FirstFew(S) : j \in Nat
  BY NightsAreNaturals, ChunkIsPart
<1>2. QED
  BY <1>1, ChunkIsInitial

LEMMA UpsertKeeps ==
  ASSUME AInv, NEW g \in Generator, NEW k \in Night, Upsert(g, k), AllocTypeOK'
  PROVE  AInv'
<1>0. g \in Tx /\ g \notin Seller /\ AllocTypeOK /\ GeneratorInv(g) /\ TxInv(g)
  BY TxAssumption DEF AInv, Tx
<1>1. /\ pc[g] = "upsert" /\ pc'[g] = "upsert" /\ span'[g] = span[g]
      /\ todo'[g] = todo[g] \ {k} /\ held'[g] = held[g] \cup {k}
      /\ wrote'[g] = [wrote[g] EXCEPT ![k] = Upserted(g, k)]
      /\ units'[g] = units[g] /\ ledger' = ledger
  BY <1>0 DEF Upsert, AllocTypeOK
<1>2. /\ k \in todo[g]
      /\ \A j \in todo[g] : k <= j
      /\ \A q \in Tx \ {g} : k \notin held[q]
  BY DEF Upsert, NextNight, Free
<1>3. Others(g)
  BY <1>0 DEF Upsert, Others, AllocTypeOK
<1>4. LedgerMoves(g)
  BY <1>0, <1>1, LedgerStays
<1>5. TxInv(g)'
  <2>1. todo[g] \subseteq Nat /\ k \in Nat
    BY <1>0, NightsAreNaturals DEF AllocTypeOK
  <2>2. \A h \in held[g] \cup {k}, t \in todo[g] \ {k} : h < t
    BY <1>0, <1>2, <2>1 DEF TxInv
  <2>3. QED
    BY <1>0, <1>1, <1>2, <2>2 DEF TxInv, Open
<1>6. GeneratorInv(g)'
  <2>1. held'[g] \cup todo'[g] = held[g] \cup todo[g]
    BY <1>1, <1>2
  <2>2. wrote[g] = Provided(g) /\ units[g] \in Sizes
    BY <1>0, <1>1 DEF GeneratorInv
  <2>3. wrote'[g] = Provided(g)'
    BY <1>1, <2>2 DEF Provided, Upserted
  <2>4. QED
    BY <1>0, <1>1, <2>1, <2>2, <2>3 DEF GeneratorInv
<1>7. \A q \in Tx \ {g} : held'[g] \cap held[q] = {}
  BY <1>0, <1>1, <1>2 DEF AInv, Exclusive
<1>8. QED
  BY <1>0, <1>3, <1>4, <1>5, <1>6, <1>7, Compose

LEMMA CommitChunkKeeps ==
  ASSUME AInv, NEW g \in Generator, CommitChunk(g), AllocTypeOK'
  PROVE  AInv'
<1>0. g \in Tx /\ g \notin Seller /\ AllocTypeOK /\ GeneratorInv(g) /\ TxInv(g)
  BY TxAssumption DEF AInv, Tx
<1>1. /\ pc[g] = "upsert" /\ pc'[g] = (IF Rest(g) = {} THEN "done" ELSE "upsert")
      /\ span'[g] = span[g] /\ todo[g] = {} /\ todo'[g] = FirstFew(Rest(g))
      /\ held'[g] = {} /\ wrote'[g] = Nothing /\ units'[g] = units[g]
  BY <1>0 DEF CommitChunk, AllocTypeOK
<1>2. LedgerMoves(g)
  BY <1>0, <1>1, PublishMoves DEF CommitChunk
<1>3. Others(g)
  BY <1>0 DEF CommitChunk, Others, AllocTypeOK
<1>4. Rest(g) \subseteq span[g] /\ Rest(g) \in SUBSET Night
  BY <1>0 DEF Rest, AllocTypeOK
<1>5. \A k \in span[g] : k \in Rest(g) \/ ledger'[k].total > 0
  <2> SUFFICES ASSUME NEW k \in span[g], k \notin Rest(g)
               PROVE  ledger'[k].total > 0
    OBVIOUS
  <2>1. k \in Night
    BY <1>0 DEF AllocTypeOK
  <2>2. ~ \A j \in held[g] : j < k
    BY DEF Rest
  <2>3. CASE ledger[k].total > 0
    BY <2>1, <2>3, <1>2 DEF LedgerMoves
  <2>4. CASE k \in held[g]
    <3>1. ledger[k] \in Row /\ ledger[k].sold <= ledger[k].total
      BY <2>1 DEF AInv, Bounds, AllocTypeOK
    <3>2. CASE ledger[k].sold # 0
      <4>1. ledger[k].total > 0
        BY <3>1, <3>2 DEF Row
      <4>2. QED  BY <4>1, <2>3
    <3>3. CASE ledger[k].sold = 0
      <4>1. wrote[g] = Provided(g) /\ units[g] \in Sizes
        BY <1>0, <1>1 DEF GeneratorInv
      <4>2. wrote[g][k] = [total |-> units[g], sold |-> 0]
        BY <2>1, <2>4, <3>3, <4>1 DEF Provided
      <4>3. units[g] \in Nat \ {0}
        BY <4>1, SizesAssumption
      <4>4. wrote[g][k] # NoRow
        BY <4>2, <4>3 DEF NoRow
      <4>5. ledger'[k] = wrote[g][k]
        BY <2>1, <4>4 DEF CommitChunk, Publish
      <4>6. QED
        BY <4>2, <4>3, <4>5
    <3>4. QED  BY <3>2, <3>3
  <2>5. QED
    BY <1>0, <1>1, <2>2, <2>3, <2>4 DEF GeneratorInv
<1>6. TxInv(g)'
  <2>1. todo'[g] \subseteq span'[g]
    BY <1>1, <1>4, ChunkIsPart
  <2>2. CASE Rest(g) = {}
    <3>1. todo'[g] = {}
      BY <1>1, <2>2, ChunkIsPart
    <3>2. QED  BY <1>1, <3>1 DEF TxInv, Nothing
  <2>3. CASE Rest(g) # {}
    BY <1>1, <2>1, <2>3 DEF TxInv, Open
  <2>4. QED  BY <2>2, <2>3
<1>7. GeneratorInv(g)'
  <2>1. CASE Rest(g) = {}
    BY <1>1, <1>5, <2>1 DEF GeneratorInv
  <2>2. CASE Rest(g) # {}
    <3>1. wrote'[g] = Provided(g)'
      BY <1>1 DEF Provided, Nothing
    <3>2. units[g] \in Sizes
      BY <1>0, <1>1 DEF GeneratorInv
    <3>3. \A k \in Rest(g) : k \in FirstFew(Rest(g)) \/ \A j \in FirstFew(Rest(g)) : j < k
      BY <1>4, BehindChunk
    <3>4. QED
      BY <1>1, <1>5, <2>2, <3>1, <3>2, <3>3 DEF GeneratorInv
  <2>3. QED  BY <2>1, <2>2
<1>8. QED
  BY <1>0, <1>1, <1>2, <1>3, <1>6, <1>7, Compose

LEMMA GenerateKeeps ==
  ASSUME AInv, NEW g \in Generator, GenerateStep(g)
  PROVE  AInv'
<1>0. /\ g \in Tx /\ g \notin Seller /\ AllocTypeOK
      /\ TxInv(g) /\ AllocTypeOK'
  BY TxAssumption, GenerateType DEF AInv, Tx
<1>1. CASE Generate(g)
  <2> DEFINE S == today .. today + Horizon - 1
  <2>1. S \in SUBSET Night
    BY <1>0, HorizonIsNights
  <2>2. PICK n \in Sizes : units' = [units EXCEPT ![g] = n]
    BY <1>1 DEF Generate
  <2>3. held[g] = {} /\ wrote[g] = Nothing
    BY <1>0, <1>1 DEF Generate, TxInv, Open
  <2>4. /\ pc'[g] = "upsert" /\ span'[g] = S /\ todo'[g] = FirstFew(S)
        /\ held'[g] = {} /\ wrote'[g] = Nothing /\ units'[g] \in Sizes
        /\ ledger' = ledger
    BY <1>0, <1>1, <2>2, <2>3 DEF Generate, AllocTypeOK
  <2>5. Others(g)
    BY <1>0, <1>1, <2>2 DEF Generate, Others, AllocTypeOK
  <2>6. LedgerMoves(g)
    BY <1>0, <2>4, LedgerStays
  <2>7. TxInv(g)'
    BY <2>4, ChunkIsPart DEF TxInv, Open
  <2>8. wrote'[g] = Provided(g)'
    BY <2>4 DEF Provided, Nothing
  <2>9. \A k \in S : k \in FirstFew(S) \/ \A j \in FirstFew(S) : j < k
    BY <2>1, BehindChunk
  <2>10. GeneratorInv(g)'
    BY <2>4, <2>8, <2>9 DEF GeneratorInv
  <2>11. QED
    BY <1>0, <2>4, <2>5, <2>6, <2>7, <2>10, Compose
<1>2. ASSUME NEW k \in Night, Upsert(g, k) PROVE AInv'
  BY <1>0, <1>2, UpsertKeeps
<1>3. CASE CommitChunk(g)
  BY <1>0, <1>3, CommitChunkKeeps
<1>4. QED
  BY <1>1, <1>2, <1>3 DEF GenerateStep

-----------------------------------------------------------------------------
(* The invariant holds *)

LEMMA InitInv == Init => AInv
<1> SUFFICES ASSUME Init PROVE AInv
  OBVIOUS
<1>1. AllocTypeOK
  BY InitType
<1>2. Bounds
  BY DEF Init, Bounds, Nothing, NoRow
<1>3. Exclusive
  BY DEF Init, Exclusive
<1>4. \A p \in Tx : TxInv(p)
  BY DEF Init, TxInv
<1>5. \A s \in Seller : SellerInv(s)
  BY DEF Init, SellerInv, Tx
<1>6. \A g \in Generator : GeneratorInv(g)
  BY DEF Init, GeneratorInv, Tx
<1>7. QED
  BY <1>1, <1>2, <1>3, <1>4, <1>5, <1>6 DEF AInv

LEMMA FailKeeps ==
  ASSUME AInv, NEW p \in Tx, Fail(p)
  PROVE  AInv'
<1>1. LedgerMoves(p) /\ ledger' \in [Night -> Row]
  BY LedgerStays DEF Fail, AInv, AllocTypeOK
<1>2. QED
  BY <1>1, EndKeeps DEF Fail

LEMMA UnheardKeeps ==
  ASSUME AInv, NEW p \in Tx, CommitUnheard(p)
  PROVE  AInv' /\ LedgerMoves(p)
<1>1. LedgerMoves(p)
  BY PublishMoves DEF CommitUnheard
<1>2. ledger' \in [Night -> Row]
  BY PublishType DEF CommitUnheard, AInv
<1>3. QED
  BY <1>1, <1>2, EndKeeps DEF CommitUnheard

\* Time and stuttering change nothing that the invariant is about.
LEMMA IdleKeeps ==
  ASSUME AInv, AllocTypeOK',
         UNCHANGED <<ledger, pc, span, todo, held, wrote, fits, units>>
  PROVE  AInv'
<1>1. Bounds' /\ Exclusive'
  BY DEF AInv, Bounds, Exclusive
<1>2. ASSUME NEW p \in Tx PROVE TxInv(p)'
  BY DEF AInv, TxInv, Nothing
<1>3. ASSUME NEW s \in Seller PROVE SellerInv(s)'
  <2>1. SellerInv(s)
    BY DEF AInv
  <2>2. QED  BY <2>1 DEF SellerInv, Room, OneMore, Nothing
<1>4. ASSUME NEW g \in Generator PROVE GeneratorInv(g)'
  <2>1. GeneratorInv(g)
    BY DEF AInv
  <2>2. QED  BY <2>1 DEF GeneratorInv, Provided
<1>5. QED
  BY <1>1, <1>2, <1>3, <1>4 DEF AInv

LEMMA InvStep == AInv /\ [Next]_vars => AInv'
<1> SUFFICES ASSUME AInv, [Next]_vars PROVE AInv'
  OBVIOUS
<1>0. AllocTypeOK'
  BY TypeStep DEF AInv
<1>1. ASSUME NEW s \in Seller, SellStep(s) PROVE AInv'
  BY <1>1, SellKeeps
<1>2. ASSUME NEW g \in Generator, GenerateStep(g) PROVE AInv'
  BY <1>2, GenerateKeeps
<1>3. ASSUME NEW p \in Tx, Fail(p) PROVE AInv'
  BY <1>3, FailKeeps
<1>4. ASSUME NEW p \in Tx, CommitUnheard(p) PROVE AInv'
  BY <1>4, UnheardKeeps
<1>5. CASE NextDay
  BY <1>0, <1>5, IdleKeeps DEF NextDay
<1>6. CASE UNCHANGED vars
  BY <1>0, <1>6, IdleKeeps DEF vars
<1>7. QED
  BY <1>1, <1>2, <1>3, <1>4, <1>5, <1>6 DEF Next

THEOREM InvHolds == Spec => []AInv
<1>1. QED
  BY InitInv, InvStep, PTL DEF Spec

\* chk_inventory_bounds is never violated by the UPDATE of CommitAllocation:
\* what its SELECT found holds until then.
THEOREM ChecksHold == Spec => []CheckHolds
<1>1. AInv => CheckHolds
  BY DEF AInv, SellerInv, CheckHolds, Room
<1>2. QED
  BY <1>1, InvHolds, PTL

\* A generator that returned nil has provided its whole horizon.
THEOREM HorizonIsProvided == Spec => []HorizonProvided
<1>1. AInv => HorizonProvided
  BY DEF AInv, GeneratorInv, HorizonProvided
<1>2. QED
  BY <1>1, InvHolds, PTL

-----------------------------------------------------------------------------
(* No deadlock *)

\* A set of nights that is not empty has a last one: the sets of the nights
\* behind each have a smallest one among them.
LEMMA LastNight ==
  ASSUME NEW W \in SUBSET Night, W # {}
  PROVE  \E k \in W : \A j \in W : j <= k
<1> DEFINE Behind(k) == {j \in W : k < j}
           T == {Behind(k) : k \in W}
<1>1. W \subseteq Nat /\ IsFiniteSet(W)
  <2>1. IsFiniteSet(Night)
    BY NightsAreNaturals, FS_Interval DEF Night
  <2>2. QED  BY <2>1, NightsAreNaturals, FS_Subset
<1>2. T \subseteq FiniteSubsetsOf(W) /\ T # {}
  <2>1. ASSUME NEW k \in W PROVE Behind(k) \in SUBSET W /\ IsFiniteSet(Behind(k))
    <3>1. Behind(k) \in SUBSET W
      OBVIOUS
    <3>2. QED  BY <1>1, <3>1, FS_Subset
  <2>2. QED  BY <2>1 DEF FiniteSubsetsOf
<1>3. PICK m \in T : \A y \in T : <<y, m>> \notin StrictSubsetOrdering(W)
  BY <1>2, FS_StrictSubsetOrderingWellFounded, WFMin
<1>4. PICK k \in W : m = Behind(k)
  BY <1>3
<1>5. ASSUME NEW j \in W, ~ (j <= k) PROVE FALSE
  <2>1. j \in Nat /\ k \in Nat /\ k < j
    BY <1>1, <1>5
  <2>2. ASSUME NEW i \in Behind(j) PROVE i \in Behind(k)
    <3>1. i \in W /\ i \in Nat /\ j < i
      BY <1>1, <2>2
    <3>2. QED  BY <2>1, <3>1
  <2>3. j \in Behind(k) /\ j \notin Behind(j)
    BY <2>1
  <2>4. Behind(j) \subseteq Behind(k) /\ Behind(j) # Behind(k)
    BY <2>2, <2>3
  <2>5. <<Behind(j), m>> \in StrictSubsetOrdering(W)
    BY <1>4, <2>4 DEF StrictSubsetOrdering
  <2>6. QED
    BY <1>3, <2>5
<1>6. QED
  BY <1>5

\* The lock order of "ORDER BY stay_date ASC" excludes deadlock: of the nights
\* that a circle of transactions waits for take the last one; whoever has it
\* waits for a later night.
THEOREM NoDeadlock == Spec => []NoWaitCycle
<1>1. AInv => NoWaitCycle
  <2> SUFFICES ASSUME AInv, NEW P \in SUBSET Tx, P # {},
                      \A p \in P : \E q \in P : WaitsFor(p, q)
               PROVE  FALSE
    BY DEF NoWaitCycle
  <2> DEFINE Wanted == {k \in Night : \E p, q \in P : NextNight(p, k) /\ k \in held[q]}
  <2>1. \A p \in P : \E k \in Wanted : NextNight(p, k)
    <3> SUFFICES ASSUME NEW p \in P
                 PROVE  \E k \in Wanted : NextNight(p, k)
      OBVIOUS
    <3>1. PICK q \in P : WaitsFor(p, q)
      OBVIOUS
    <3>2. PICK k \in held[q] : NextNight(p, k)
      BY <3>1 DEF WaitsFor
    <3>3. k \in Night
      BY DEF AInv, AllocTypeOK
    <3>4. QED  BY <3>2, <3>3
  <2>2. Wanted \in SUBSET Night /\ Wanted # {}
    BY <2>1
  <2>3. PICK k \in Wanted : \A j \in Wanted : j <= k
    BY <2>2, LastNight
  <2>4. PICK q \in P : k \in held[q]
    OBVIOUS
  <2>5. PICK j \in Wanted : NextNight(q, j)
    BY <2>1
  <2>6. k < j
    BY <2>4, <2>5 DEF AInv, TxInv, NextNight
  <2>7. QED
    BY <2>3, <2>6, NightsAreNaturals
<1>2. QED
  BY <1>1, InvHolds, PTL

-----------------------------------------------------------------------------
(* Allocation implements Ledger *)

\* The COMMIT of a sale adds one to every night of the stay, and to no other.
LEMMA SalePublished ==
  ASSUME AInv, NEW s \in Seller, pc[s] = "commit", Publish(s)
  PROVE  /\ span[s] \in Stay
         /\ \A k \in span[s] : Room(k)
         /\ ledger' = [k \in Night |->
               IF k \in span[s] THEN [ledger[k] EXCEPT !.sold = @ + 1]
                                ELSE ledger[k]]
<1>1. /\ span[s] \in Stay /\ wrote[s] = OneMore(s)
      /\ \A k \in span[s] : Room(k)
  BY DEF AInv, SellerInv
<1>2. ASSUME NEW k \in Night, k \in span[s]
      PROVE  [ledger[k] EXCEPT !.sold = @ + 1] # NoRow
  <2>1. ledger[k] \in Row
    BY DEF AInv, AllocTypeOK
  <2>2. [ledger[k] EXCEPT !.sold = @ + 1].sold = ledger[k].sold + 1
    BY <2>1 DEF Row
  <2>3. ledger[k].sold + 1 # 0
    BY <2>1 DEF Row
  <2>4. QED  BY <2>2, <2>3 DEF NoRow
<1>3. QED
  BY <1>1, <1>2 DEF Publish, OneMore

\* The COMMIT of a chunk provides the nights it has locked.
LEMMA ChunkPublished ==
  ASSUME AInv, NEW g \in Generator, pc[g] = "upsert", Publish(g)
  PROVE  /\ units[g] \in Sizes
         /\ ledger' = [k \in Night |->
               IF k \in held[g] /\ ledger[k].sold = 0
               THEN [total |-> units[g], sold |-> 0] ELSE ledger[k]]
<1>1. wrote[g] = Provided(g) /\ units[g] \in Sizes
  BY DEF AInv, GeneratorInv
<1>2. [total |-> units[g], sold |-> 0] # NoRow
  <2>1. units[g] \in Nat \ {0}
    BY <1>1, SizesAssumption
  <2>2. QED  BY <2>1 DEF NoRow
<1>3. QED
  BY <1>1, <1>2 DEF Publish, Provided

LEMMA SaleIsSell ==
  ASSUME AInv, NEW s \in Seller, pc[s] = "commit", Publish(s)
  PROVE  Abstract!Next
<1>1. PICK from \in Night, to \in Night : span[s] = from .. to
  BY SalePublished DEF Stay
<1>2. Abstract!Sell(from .. to)
  BY <1>1, SalePublished DEF Abstract!Sell, Room, Night
<1>3. QED
  BY <1>2 DEF Abstract!Next, Night

LEMMA ChunkIsProvide ==
  ASSUME AInv, NEW g \in Generator, pc[g] = "upsert", Publish(g)
  PROVE  Abstract!Next
<1>1. Abstract!Provide(held[g], units[g])
  BY ChunkPublished DEF Abstract!Provide, Night
<1>2. held[g] \in SUBSET Night
  BY DEF AInv, AllocTypeOK, Tx
<1>3. QED
  BY <1>1, <1>2, ChunkPublished DEF Abstract!Next, Night

LEMMA LedgerStep == AInv /\ [Next]_vars => [Abstract!Next]_ledger
<1> SUFFICES ASSUME AInv, [Next]_vars PROVE Abstract!Next \/ UNCHANGED ledger
  OBVIOUS
<1>1. ASSUME NEW s \in Seller, SellStep(s)
      PROVE  Abstract!Next \/ UNCHANGED ledger
  <2>1. CASE Commit(s)
    BY <2>1, SaleIsSell DEF Commit
  <2>2. CASE ~ Commit(s)
    BY <1>1, <2>2 DEF SellStep, Begin, LockRow, Check, Update
  <2>3. QED  BY <2>1, <2>2
<1>2. ASSUME NEW g \in Generator, GenerateStep(g)
      PROVE  Abstract!Next \/ UNCHANGED ledger
  BY <1>2, ChunkIsProvide DEF GenerateStep, Generate, Upsert, CommitChunk
<1>3. ASSUME NEW p \in Tx, CommitUnheard(p) PROVE Abstract!Next
  <2>1. CASE pc[p] = "commit"
    <3>1. p \in Seller
      BY <2>1 DEF AInv, GeneratorInv, Tx
    <3>2. QED
      BY <1>3, <2>1, <3>1, SaleIsSell DEF CommitUnheard
  <2>2. CASE pc[p] = "upsert"
    <3>1. p \in Generator
      BY <2>2 DEF AInv, SellerInv, Tx
    <3>2. QED
      BY <1>3, <2>2, <3>1, ChunkIsProvide DEF CommitUnheard
  <2>3. QED
    BY <1>3, <2>1, <2>2 DEF CommitUnheard
<1>4. QED
  BY <1>1, <1>2, <1>3 DEF Next, Fail, NextDay, vars

\* The transactions are serializable: every one of them takes effect at one
\* instant, as Ledger says, or not at all.
THEOREM LedgerIsImplemented == Spec => ImplementsLedger
<1>1. Init => Abstract!Init
  BY DEF Init, Abstract!Init, Nothing, NoRow, Abstract!NoRow, Night
<1>2. AInv /\ [Next]_vars => [Abstract!Next]_ledger
  BY LedgerStep
<1>3. QED
  BY <1>1, <1>2, InvHolds, PTL DEF Spec, ImplementsLedger, Abstract!Spec

-----------------------------------------------------------------------------
(* A stay is sold as a whole *)

\* The calls that explain allocated_count.
Accounts(Calls) ==
    /\ Calls \in SUBSET Seller
    /\ Returned("sold") \subseteq Calls
    /\ Calls \subseteq Returned("sold") \cup Returned("failed")
    /\ "lost" \notin Faults => Calls = Returned("sold")
    /\ \A k \in Night : ledger[k].sold = Cardinality({s \in Calls : k \in span[s]})

LEMMA Explained == AllOrNothing <=> \E Calls : Accounts(Calls)
  BY DEF AllOrNothing, Accounts

LEMMA ExplainedNext == AllOrNothing' <=> \E Calls : Accounts(Calls)'
  BY DEF AllOrNothing, Accounts

\* A step that sells nothing leaves the account as it is.
LEMMA AccountStays ==
  ASSUME NEW Calls, Accounts(Calls),
         \A k \in Night : ledger'[k].sold = ledger[k].sold,
         \A s \in Calls : span'[s] = span[s],
         \A s \in Seller : /\ pc'[s] = "sold" <=> pc[s] = "sold"
                           /\ pc[s] = "failed" => pc'[s] = "failed"
  PROVE  Accounts(Calls)'
<1>1. \A k : {s \in Calls : k \in span'[s]} = {s \in Calls : k \in span[s]}
  OBVIOUS
<1>2. /\ Returned("sold")' = Returned("sold")
      /\ Returned("failed") \subseteq Returned("failed")'
  BY DEF Returned
<1>3. QED
  BY <1>1, <1>2 DEF Accounts

\* A sale, heard of or not, adds its call to the account.
LEMMA AccountGrows ==
  ASSUME AInv, NEW Calls, Accounts(Calls), NEW s \in Seller, pc[s] = "commit",
         Publish(s), NEW outcome \in {"sold", "failed"}, End(s, outcome),
         outcome = "failed" => "lost" \in Faults
  PROVE  Accounts(Calls \cup {s})'
<1>1. /\ pc' = [pc EXCEPT ![s] = outcome] /\ span' = span
      /\ pc \in [Tx -> {"idle"} \cup Open \cup Ended] /\ s \in Tx
  BY DEF End, AInv, AllocTypeOK, Tx
<1>2. s \notin Calls
  BY DEF Accounts, Returned
<1>3. \A q \in Seller \ {s} : pc'[q] = pc[q]
  BY <1>1 DEF Tx
<1>4. pc'[s] = outcome
  BY <1>1
<1>5. /\ Returned("sold") \cup Returned("failed") \cup {s}
            \subseteq (Returned("sold") \cup Returned("failed"))'
      /\ Returned("sold")' \subseteq Returned("sold") \cup {s}
      /\ outcome = "sold" => Returned("sold")' = Returned("sold") \cup {s}
  BY <1>3, <1>4 DEF Returned
<1>6. ASSUME NEW k \in Night
      PROVE  ledger'[k].sold = Cardinality({c \in Calls \cup {s} : k \in span'[c]})
  <2> DEFINE C == {c \in Calls : k \in span[c]}
  <2>1. IsFiniteSet(C) /\ C \subseteq Calls
    BY TxAssumption, FS_Subset DEF Accounts
  <2>2. ledger[k] \in Row /\ ledger[k].sold = Cardinality(C)
    BY DEF AInv, AllocTypeOK, Accounts
  <2>3. CASE k \in span[s]
    <3>1. {c \in Calls \cup {s} : k \in span'[c]} = C \cup {s}
      BY <1>1, <2>3
    <3>2. Cardinality(C \cup {s}) = Cardinality(C) + 1
      BY <1>2, <2>1, FS_AddElement
    <3>3. ledger'[k] = [ledger[k] EXCEPT !.sold = @ + 1]
      BY <2>3, SalePublished
    <3>4. ledger'[k].sold = ledger[k].sold + 1
      BY <2>2, <3>3 DEF Row
    <3>5. QED
      BY <2>2, <3>1, <3>2, <3>4
  <2>4. CASE k \notin span[s]
    <3>1. {c \in Calls \cup {s} : k \in span'[c]} = C
      BY <1>1, <2>4
    <3>2. ledger'[k] = ledger[k]
      BY <2>4, SalePublished
    <3>3. QED
      BY <2>2, <3>1, <3>2
  <2>5. QED  BY <2>3, <2>4
<1>7. QED
  BY <1>5, <1>6 DEF Accounts

\* No transaction that is not a sale changes what is sold.
LEMMA ChunkSellsNothing ==
  ASSUME AInv, NEW g \in Generator, pc[g] = "upsert", Publish(g)
  PROVE  \A k \in Night : ledger'[k].sold = ledger[k].sold
  BY ChunkPublished

LEMMA AccountStep ==
  ASSUME AInv, [Next]_vars, NEW Calls, Accounts(Calls)
  PROVE  \E More : Accounts(More)'
<1>0. /\ pc \in [Tx -> {"idle"} \cup Open \cup Ended] /\ span \in [Tx -> SUBSET Night]
      /\ \A s \in Calls : s \in Seller /\ pc[s] \in {"sold", "failed"}
      /\ \A s \in Seller : s \in Tx
  BY DEF AInv, AllocTypeOK, Accounts, Returned, Tx
<1>1. ASSUME NEW s \in Seller, SellStep(s) PROVE \E More : Accounts(More)'
  <2>1. CASE Begin(s)
    <3>1. s \notin Calls /\ ledger' = ledger /\ \A c \in Calls : span'[c] = span[c]
      BY <1>0, <2>1 DEF Begin
    <3>2. \A q \in Seller : /\ pc'[q] = "sold" <=> pc[q] = "sold"
                            /\ pc[q] = "failed" => pc'[q] = "failed"
      BY <1>0, <2>1 DEF Begin
    <3>3. QED  BY <3>1, <3>2, AccountStays
  <2>2. ASSUME NEW k \in Night, LockRow(s, k) PROVE \E More : Accounts(More)'
    BY <2>2, AccountStays DEF LockRow
  <2>3. CASE Check(s) \/ Update(s)
    <3>1. ledger' = ledger /\ span' = span /\ pc[s] \in {"lock", "update"}
      BY <2>3 DEF Check, Update, End
    <3>2. \E o \in {"update", "commit", "refused", "failed"} : pc' = [pc EXCEPT ![s] = o]
      BY <2>3 DEF Check, Update, End
    <3>3. \A q \in Seller : /\ pc'[q] = "sold" <=> pc[q] = "sold"
                            /\ pc[q] = "failed" => pc'[q] = "failed"
      BY <1>0, <3>1, <3>2
    <3>4. QED  BY <3>1, <3>3, AccountStays
  <2>4. CASE Commit(s)
    BY <2>4, AccountGrows DEF Commit
  <2>5. QED
    BY <1>1, <2>1, <2>2, <2>3, <2>4 DEF SellStep
<1>2. ASSUME NEW g \in Generator, GenerateStep(g) PROVE \E More : Accounts(More)'
  <2>1. g \notin Seller /\ \A q \in Seller : q # g
    BY TxAssumption
  <2>2. \A k \in Night : ledger'[k].sold = ledger[k].sold
    BY <1>2, ChunkSellsNothing DEF GenerateStep, Generate, Upsert, CommitChunk
  <2>3. \A q \in Seller : pc'[q] = pc[q] /\ span'[q] = span[q]
    BY <1>0, <1>2, <2>1 DEF GenerateStep, Generate, Upsert, CommitChunk
  <2>4. QED
    BY <1>0, <2>2, <2>3, AccountStays
<1>3. ASSUME NEW p \in Tx, Fail(p) PROVE \E More : Accounts(More)'
  <2>1. /\ ledger' = ledger /\ span' = span /\ pc[p] \in Open
        /\ pc' = [pc EXCEPT ![p] = "failed"]
    BY <1>3 DEF Fail, End
  <2>2. \A q \in Seller : /\ pc'[q] = "sold" <=> pc[q] = "sold"
                          /\ pc[q] = "failed" => pc'[q] = "failed"
    BY <1>0, <2>1 DEF Open
  <2>3. QED  BY <2>1, <2>2, AccountStays
<1>4. ASSUME NEW p \in Tx, CommitUnheard(p) PROVE \E More : Accounts(More)'
  <2>1. CASE pc[p] = "commit"
    <3>1. p \in Seller
      BY <2>1 DEF AInv, GeneratorInv, Tx
    <3>2. QED
      BY <1>4, <2>1, <3>1, AccountGrows DEF CommitUnheard
  <2>2. CASE pc[p] = "upsert"
    <3>1. p \in Generator /\ p \notin Seller
      BY <2>2, TxAssumption DEF AInv, SellerInv, Tx
    <3>2. \A k \in Night : ledger'[k].sold = ledger[k].sold
      BY <1>4, <2>2, <3>1, ChunkSellsNothing DEF CommitUnheard
    <3>3. \A q \in Seller : pc'[q] = pc[q] /\ span'[q] = span[q]
      BY <1>0, <1>4, <3>1 DEF CommitUnheard, End
    <3>4. QED
      BY <1>0, <3>2, <3>3, AccountStays
  <2>3. QED
    BY <1>4, <2>1, <2>2 DEF CommitUnheard
<1>5. CASE NextDay
  BY <1>5, AccountStays DEF NextDay
<1>6. CASE UNCHANGED vars
  BY <1>6, AccountStays DEF vars
<1>7. QED
  BY <1>1, <1>2, <1>3, <1>4, <1>5, <1>6 DEF Next

\* allocated_count is, on every night, the number of sold stays that have it.
THEOREM SoldAsAWhole == Spec => []AllOrNothing
<1>1. Init => AllOrNothing
  <2> SUFFICES ASSUME Init PROVE Accounts({})
    BY Explained
  <2>1. Returned("sold") = {}
    BY DEF Init, Returned, Tx
  <2>2. \A k \in Night : {s \in {} : k \in span[s]} = {} /\ ledger[k].sold = 0
    BY DEF Init, Nothing, NoRow
  <2>3. QED
    BY <2>1, <2>2, FS_EmptySet DEF Accounts
<1>2. AInv /\ AllOrNothing /\ [Next]_vars => AllOrNothing'
  BY AccountStep, Explained, ExplainedNext
<1>3. QED
  BY <1>1, <1>2, InvHolds, PTL DEF Spec
=============================================================================
