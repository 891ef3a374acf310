--------------------------- MODULE FastHoldProofs ---------------------------
(***************************************************************************)
(* Theorems about FastHold, for any set of requests, nights, capacity,     *)
(* TTL and fault model.                                                    *)
(***************************************************************************)
EXTENDS FastHold, FiniteSetTheorems, FunctionTheorems, TLAPS

USE DEF Acquiring, Undoing, Ended, store

-----------------------------------------------------------------------------
(* The index is finite, and its parts have natural cardinalities *)

\* The set of all conceivable list entries is finite.
LEMMA EntriesFinite == IsFiniteSet(Request \X Night \X Attempt)
<1> DEFINE P == (Request \X Night) \X Attempt
           Q == Request \X Night \X Attempt
           f == [p \in P |-> <<p[1][1], p[1][2], p[2]>>]
<1>1. IsFiniteSet(Night)
  BY FS_Interval, NumbersAssumption DEF Night
<1>2. IsFiniteSet(Attempt)
  <2>1. IsFiniteSet({"sha"}) /\ IsFiniteSet({"eval"})
    BY FS_Singleton
  <2>2. Attempt = {"sha"} \cup {"eval"}
    BY DEF Attempt
  <2> QED BY <2>1, <2>2, FS_Union
<1>3. IsFiniteSet(P)
  <2>1. IsFiniteSet(Request \X Night)
    BY <1>1, RequestAssumption, FS_Product
  <2> QED BY <2>1, <1>2, FS_Product
<1>4. f \in Surjection(P, Q)
  <2>1. f \in [P -> Q]
    OBVIOUS
  <2>2. \A q \in Q : \E p \in P : f[p] = q
    <3>1. SUFFICES ASSUME NEW q \in Q PROVE \E p \in P : f[p] = q
      OBVIOUS
    <3>2. <<<<q[1], q[2]>>, q[3]>> \in P /\ f[<<<<q[1], q[2]>>, q[3]>>] = q
      BY <3>1
    <3> QED BY <3>2
  <2> QED BY <2>1, <2>2, Fun_IsSurj
<1> QED BY <1>3, <1>4, FS_Surjection

\* Every set of list entries is finite, so counting it gives a number.
LEMMA PartsFinite ==
  ASSUME index \subseteq Request \X Night \X Attempt
  PROVE  /\ \A S \in SUBSET index : IsFiniteSet(S) /\ Cardinality(S) \in Nat
         /\ \A k : On(k) \subseteq index
         /\ \A r, k : Pushed(r, k) \subseteq On(k)
         /\ \A r, k : Pushed(r, k) \subseteq index
<1>1. ASSUME NEW S \in SUBSET index
      PROVE  IsFiniteSet(S) /\ Cardinality(S) \in Nat
  <2>1. IsFiniteSet(S)
    BY EntriesFinite, FS_Subset
  <2> QED BY <2>1, FS_CardinalityType
<1> QED BY <1>1 DEF On, Pushed

-----------------------------------------------------------------------------
(* Type correctness *)

StoreTypeOK ==
    /\ count \in [Night -> 0 .. Capacity]
    /\ countTTL \in [Night -> 0 .. TTL]
    /\ index \subseteq Request \X Night \X Attempt
    /\ tokenTTL \in [Request -> 0 .. TTL]

\* A hold script that is admitted keeps the type of the store: this is where
\* its comparison with the capacity matters.
LEMMA TakeType ==
  ASSUME StoreTypeOK, NEW r \in Request, NEW k \in Night, NEW a \in Attempt,
         Admits(k), Take(r, k, a)
  PROVE  StoreTypeOK'
<1>1. count[k] + 1 \in 0 .. Capacity
  BY NumbersAssumption DEF StoreTypeOK, Admits
<1>2. TTL \in 0 .. TTL
  BY NumbersAssumption
<1>3. count' \in [Night -> 0 .. Capacity]
  BY <1>1 DEF StoreTypeOK, Take
<1>4. countTTL' \in [Night -> 0 .. TTL] /\ tokenTTL' \in [Request -> 0 .. TTL]
  BY <1>2 DEF StoreTypeOK, Take
<1>5. index' \subseteq Request \X Night \X Attempt
  BY DEF StoreTypeOK, Take
<1> QED BY <1>3, <1>4, <1>5 DEF StoreTypeOK

\* So does a release.
LEMMA ReleaseType ==
  ASSUME StoreTypeOK, NEW r \in Request, ReleaseScript(r)
  PROVE  StoreTypeOK'
<1>1. \A n \in Night : Cardinality(Pushed(r, n)) \in Nat
  BY PartsFinite DEF StoreTypeOK
<1>2. \A n \in Night : Refund(r, n) \in 0 .. Capacity
  BY <1>1, NumbersAssumption DEF StoreTypeOK, Refund
<1>3. count' \in [Night -> 0 .. Capacity]
  BY <1>2 DEF ReleaseScript
<1>4. countTTL' \in [Night -> 0 .. TTL] /\ tokenTTL' \in [Request -> 0 .. TTL]
  BY NumbersAssumption DEF StoreTypeOK, ReleaseScript
<1>5. index' \subseteq Request \X Night \X Attempt
  BY DEF StoreTypeOK, ReleaseScript
<1> QED BY <1>3, <1>4, <1>5 DEF StoreTypeOK

\* And the passing of time.
LEMMA TickType ==
  ASSUME StoreTypeOK, DropExpired
  PROVE  StoreTypeOK'
<1>1. count' \in [Night -> 0 .. Capacity]
  BY NumbersAssumption DEF StoreTypeOK, DropExpired
<1>2. \A t \in 0 .. TTL : Less1(t) \in 0 .. TTL
  BY NumbersAssumption DEF Less1
<1>3. countTTL' \in [Night -> 0 .. TTL] /\ tokenTTL' \in [Request -> 0 .. TTL]
  BY <1>2 DEF StoreTypeOK, DropExpired
<1>4. index' \subseteq Request \X Night \X Attempt
  BY DEF StoreTypeOK, DropExpired
<1> QED BY <1>1, <1>3, <1>4 DEF StoreTypeOK

\* The loop variable of a running call is a night of its stay.  TypeOK needs
\* this to be inductive: the loop must not step over the check-out day.
Walk == \A r \in Request : pc[r] \in Acquiring => night[r] \in StayNights(r)

LEMMA TypeInit == Init => TypeOK /\ Walk
<1> SUFFICES ASSUME Init PROVE TypeOK /\ Walk
  OBVIOUS
<1>1. NoStay \in Stay /\ 1 \in Night /\ 0 \in 0 .. TTL /\ 0 \in 0 .. Capacity
  BY NumbersAssumption DEF Stay, NoStay, Night
<1>2. TypeOK
  BY <1>1 DEF Init, TypeOK
<1>3. Walk
  BY DEF Init, Walk
<1> QED BY <1>2, <1>3

\* The control part of TypeOK: where the calls are.
CallTypeOK ==
    /\ pc \in [Request -> {"idle"} \cup Acquiring \cup Undoing \cup Ended]
    /\ stay \in [Request -> Stay]
    /\ night \in [Request -> Night]
    /\ expires \in [Request -> 0 .. TTL]

LEMMA TypeParts == TypeOK <=> StoreTypeOK /\ CallTypeOK
  BY DEF TypeOK, StoreTypeOK, CallTypeOK

\* A call that returns without a token leaves well-typed variables.
LEMMA NoTokenType ==
  ASSUME CallTypeOK, Walk, NEW r \in Request, NoToken(r)
  PROVE  CallTypeOK' /\ Walk'
<1>1. NoStay \in Stay /\ 1 \in Night /\ 0 \in 0 .. TTL
  BY NumbersAssumption DEF Stay, NoStay, Night
<1>2. CallTypeOK'
  BY <1>1 DEF CallTypeOK, NoToken
<1>3. Walk'
  BY DEF CallTypeOK, NoToken, Walk, StayNights
<1> QED BY <1>2, <1>3

LEMMA TypeNext == TypeOK /\ Walk /\ [Next]_vars => TypeOK' /\ Walk'
<1> SUFFICES ASSUME StoreTypeOK, CallTypeOK, Walk, [Next]_vars
             PROVE  StoreTypeOK' /\ CallTypeOK' /\ Walk'
  BY TypeParts DEF TypeOK, StoreTypeOK, CallTypeOK
<1>0. \A r \in Request : pc[r] \in Acquiring => night[r] \in Night /\ pc[r] \in Attempt
  BY DEF CallTypeOK, Attempt
<1>u. UNCHANGED store => StoreTypeOK'
  BY DEF StoreTypeOK
<1>1. ASSUME NEW r \in Request, NEW i \in Night, NEW o \in 2 .. N + 1, Begin(r, i, o)
      PROVE  StoreTypeOK' /\ CallTypeOK' /\ Walk'
  <2>1. TTL \in 0 .. TTL /\ [in |-> i, out |-> o] \in Stay
    BY NumbersAssumption DEF Stay
  <2>2. CallTypeOK'
    BY <1>1, <2>1 DEF CallTypeOK, Begin
  <2>3. i \in i .. o - 1
    BY <1>1, NumbersAssumption DEF Begin, Night
  <2>4. Walk'
    BY <1>1, <2>3 DEF CallTypeOK, Begin, Walk, StayNights
  <2> QED BY <1>1, <1>u, <2>2, <2>4 DEF Begin
<1>2. ASSUME NEW r \in Request, HoldGranted(r)
      PROVE  StoreTypeOK' /\ CallTypeOK' /\ Walk'
  <2>1. night[r] \in stay[r].in .. stay[r].out - 1 /\ stay[r] \in Stay
    BY <1>2 DEF HoldGranted, Walk, StayNights, CallTypeOK
  <2>2. ~ LastNight(r) => /\ night[r] + 1 \in Night
                          /\ night[r] + 1 \in stay[r].in .. stay[r].out - 1
    BY <2>1, NumbersAssumption DEF LastNight, Stay, Night
  <2>3. 1 \in Night
    BY NumbersAssumption DEF Night
  <2>4. CallTypeOK'
    BY <1>2, <2>2, <2>3 DEF CallTypeOK, HoldGranted
  <2>5. Walk'
    BY <1>2, <2>2 DEF CallTypeOK, Walk, StayNights, HoldGranted
  <2>6. StoreTypeOK'
    BY <1>2, <1>0, TakeType DEF HoldGranted
  <2> QED BY <2>4, <2>5, <2>6
<1>3. ASSUME NEW r \in Request, HoldRefused(r)
      PROVE  StoreTypeOK' /\ CallTypeOK' /\ Walk'
  <2>1. CallTypeOK' /\ Walk'
    BY <1>3 DEF CallTypeOK, Walk, StayNights, HoldRefused
  <2> QED BY <1>3, <1>u, <2>1 DEF HoldRefused
<1>4. ASSUME NEW r \in Request, HoldError(r)
      PROVE  StoreTypeOK' /\ CallTypeOK' /\ Walk'
  <2>1. CallTypeOK' /\ Walk'
    BY <1>4 DEF CallTypeOK, Walk, StayNights, HoldError
  <2>2. StoreTypeOK'
    BY <1>4, <1>0, <1>u, TakeType DEF HoldError, HoldScript
  <2> QED BY <2>1, <2>2
<1>5. ASSUME NEW r \in Request, UndoDone(r)
      PROVE  StoreTypeOK' /\ CallTypeOK' /\ Walk'
  BY <1>5, ReleaseType, NoTokenType DEF UndoDone
<1>6. ASSUME NEW r \in Request, UndoError(r)
      PROVE  StoreTypeOK' /\ CallTypeOK' /\ Walk'
  <2>1. StoreTypeOK'
    BY <1>6, <1>u, ReleaseType DEF UndoError
  <2>2. CASE pc[r] = "undo_eval"
    BY <1>6, <2>1, <2>2, NoTokenType DEF UndoError
  <2>3. CASE pc[r] # "undo_eval"
    <3>1. CallTypeOK' /\ Walk'
      BY <1>6, <2>3 DEF UndoError, CallTypeOK, Walk, StayNights
    <3> QED BY <2>1, <3>1
  <2> QED BY <2>2, <2>3
<1>7. ASSUME NEW r \in Request, Crash(r)
      PROVE  StoreTypeOK' /\ CallTypeOK' /\ Walk'
  BY <1>7, <1>u, NoTokenType DEF Crash
<1>8. ASSUME NEW r \in Request, Release(r)
      PROVE  StoreTypeOK' /\ CallTypeOK' /\ Walk'
  <2>1. CallTypeOK' /\ Walk'
    BY <1>8 DEF Release, CallTypeOK, Walk, StayNights
  <2> QED BY <1>8, <2>1, ReleaseType DEF Release
<1>9. CASE Tick
  <2>1. \A t \in 0 .. TTL : Less1(t) \in 0 .. TTL
    BY NumbersAssumption DEF Less1
  <2>2. CallTypeOK' /\ Walk'
    BY <1>9, <2>1 DEF Tick, CallTypeOK, Walk, StayNights
  <2> QED BY <1>9, <2>2, TickType DEF Tick
<1>10. CASE UNCHANGED vars
  BY <1>10, <1>u DEF CallTypeOK, Walk, StayNights, vars
<1> QED
  BY <1>1, <1>2, <1>3, <1>4, <1>5, <1>6, <1>7, <1>8, <1>9, <1>10 DEF Next, Call

\* Type correctness: in particular no counter ever exceeds the capacity that
\* inventory_hold.lua compares it with, or goes below zero.
THEOREM TypeCorrect == Spec => []TypeOK
<1>1. Init => TypeOK /\ Walk
  BY TypeInit
<1>2. TypeOK /\ Walk /\ [Next]_vars => (TypeOK /\ Walk)'
  BY TypeNext
<1> QED BY <1>1, <1>2, PTL DEF Spec

-----------------------------------------------------------------------------
(* The inductive invariant *)

\* A token list with entries is alive.
TokensLive == \A e \in index : tokenTTL[e[1]] > 0

\* A running call has pushed nothing beyond the night it is at, and at that
\* night at most what an EVALSHA with a lost reply pushed: the next push of
\* the call is a new entry.
Frontier ==
    \A r \in Request : pc[r] \in Acquiring => \A e \in Of(r) :
        /\ e[2] <= night[r]
        /\ e[2] = night[r] => pc[r] = "eval" /\ e[3] = "sha"

\* A running call that is not overdue has pushed all the nights behind it.
Prefix ==
    \A r \in Request : pc[r] \in Acquiring /\ expires[r] > 0 /\ stay[r].in < night[r] =>
        /\ tokenTTL[r] >= expires[r]
        /\ \A k \in stay[r].in .. night[r] - 1 : Pushed(r, k) # {}

\* While a call is running the keys that it touched have their full life, as
\* the clock stands still (~SlowAcquire).
FullLife ==
    \A r \in Request : pc[r] \in Acquiring => \A e \in Of(r) :
        tokenTTL[r] = TTL /\ countTTL[e[2]] = TTL

\* No counter expires before a token list that names it.
Backed == \A e \in index : tokenTTL[e[1]] <= countTTL[e[2]]

ListInv == TypeOK /\ Walk /\ TokensLive /\ Frontier /\ Prefix /\ HeldIsReleasable

CountInv == ListInv /\ FullLife /\ Backed /\ Covered

LEMMA CountInvInit == Init => CountInv
<1> SUFFICES ASSUME Init PROVE CountInv
  OBVIOUS
<1>1. TypeOK /\ Walk
  BY TypeInit
<1>2. index = {} /\ \A r \in Request : pc[r] = "idle"
  BY DEF Init
<1>3. TokensLive /\ Frontier /\ Prefix /\ FullLife /\ Backed
  BY <1>2 DEF TokensLive, Frontier, Prefix, FullLife, Backed
<1>4. HeldIsReleasable
  BY <1>2 DEF HeldIsReleasable, Active
<1>5. Covered
  <2>1. \A k \in Night : On(k) = {} /\ count[k] = 0
    BY <1>2 DEF On, Init
  <2> QED BY <2>1, FS_EmptySet DEF Covered, Untracked
<1> QED BY <1>1, <1>3, <1>4, <1>5 DEF CountInv, ListInv

\* A step changes the store by one script of one call, or by passing time.
LEMMA StoreSteps ==
  ASSUME [Next]_vars
  PROVE  \/ \E r \in Request : /\ pc[r] \in Acquiring
                               /\ Admits(night[r])
                               /\ Take(r, night[r], pc[r])
         \/ \E r \in Request : ReleaseScript(r)
         \/ Tick
         \/ UNCHANGED store
<1>1. ASSUME NEW r \in Request, Call(r) \/ Release(r)
      PROVE  \/ /\ pc[r] \in Acquiring
                /\ Admits(night[r])
                /\ Take(r, night[r], pc[r])
             \/ ReleaseScript(r)
             \/ UNCHANGED store
  BY <1>1 DEF Call, Begin, HoldGranted, HoldRefused, HoldError, HoldScript,
              UndoDone, UndoError, Crash, Release
<1>2. CASE UNCHANGED vars
  BY <1>2 DEF vars
<1> QED BY <1>1, <1>2 DEF Next

\* A call changes nothing of another request: not where it is, and not its
\* token list.
LEMMA OtherRequests ==
  ASSUME TypeOK, NEW r \in Request, NEW q \in Request, q # r,
         Call(r) \/ Release(r)
  PROVE  /\ pc'[q] = pc[q] /\ night'[q] = night[q]
         /\ stay'[q] = stay[q] /\ expires'[q] = expires[q]
         /\ tokenTTL'[q] = tokenTTL[q]
         /\ Of(q)' = Of(q)
         /\ \A k : Pushed(q, k)' = Pushed(q, k)
<1>1. /\ pc'[q] = pc[q] /\ night'[q] = night[q]
      /\ stay'[q] = stay[q] /\ expires'[q] = expires[q]
  BY DEF Call, Begin, HoldGranted, HoldRefused, HoldError, UndoDone, UndoError,
         Crash, Release, NoToken, TypeOK
<1>2. \/ Take(r, night[r], pc[r])
      \/ ReleaseScript(r)
      \/ UNCHANGED store
  BY DEF Call, Begin, HoldGranted, HoldRefused, HoldError, HoldScript,
         UndoDone, UndoError, Crash, Release
<1>3. CASE Take(r, night[r], pc[r])
  <2>1. tokenTTL'[q] = tokenTTL[q]
    BY <1>3 DEF Take, TypeOK
  <2>2. Of(q)' = Of(q) /\ \A k : Pushed(q, k)' = Pushed(q, k)
    BY <1>3 DEF Take, Of, Pushed
  <2> QED BY <1>1, <2>1, <2>2
<1>4. CASE ReleaseScript(r)
  <2>1. tokenTTL'[q] = tokenTTL[q]
    BY <1>4 DEF ReleaseScript, TypeOK
  <2>2. Of(q)' = Of(q) /\ \A k : Pushed(q, k)' = Pushed(q, k)
    BY <1>4 DEF ReleaseScript, Of, Pushed
  <2> QED BY <1>1, <2>1, <2>2
<1>5. CASE UNCHANGED store
  BY <1>1, <1>5 DEF Of, Pushed
<1> QED BY <1>2, <1>3, <1>4, <1>5

\* Only these steps of its own leave a request inside the loop.
LEMMA OwnSteps ==
  ASSUME TypeOK, NEW q \in Request, Call(q) \/ Release(q), pc'[q] \in Acquiring
  PROVE  \/ \E i \in Night, o \in 2 .. N + 1 : Begin(q, i, o)
         \/ HoldGranted(q)
         \/ HoldError(q)
BY DEF Call, HoldRefused, UndoDone, UndoError, Crash, Release, NoToken, TypeOK

\* A new request finds no entry of an earlier token.
LEMMA FreshIsEmpty ==
  ASSUME TokensLive, NEW q \in Request, Fresh(q)
  PROVE  Of(q) = {}
BY DEF TokensLive, Fresh, Of

LEMMA TokensLiveNext == TypeOK /\ Walk /\ TokensLive /\ [Next]_vars => TokensLive'
<1> SUFFICES ASSUME TypeOK, TokensLive, [Next]_vars PROVE TokensLive'
  OBVIOUS
<1>1. ASSUME NEW r \in Request, pc[r] \in Acquiring, Take(r, night[r], pc[r])
      PROVE  TokensLive'
  BY <1>1, NumbersAssumption DEF Take, TokensLive, TypeOK
<1>2. ASSUME NEW r \in Request, ReleaseScript(r)
      PROVE  TokensLive'
  BY <1>2 DEF ReleaseScript, Of, TokensLive, TypeOK
<1>3. CASE Tick
  BY <1>3 DEF Tick, DropExpired, Less1, TokensLive, TypeOK
<1>4. CASE UNCHANGED store
  BY <1>4 DEF TokensLive
<1> QED BY <1>1, <1>2, <1>3, <1>4, StoreSteps

LEMMA FrontierNext == ListInv /\ [Next]_vars => Frontier'
<1> SUFFICES ASSUME ListInv, [Next]_vars,
                    NEW q \in Request, pc'[q] \in Acquiring, NEW e \in Of(q)'
             PROVE  /\ e[2] <= night'[q]
                    /\ e[2] = night'[q] => pc'[q] = "eval" /\ e[3] = "sha"
  BY DEF Frontier
<1>0. TypeOK /\ TokensLive
  BY DEF ListInv
<1>f. pc[q] \in Acquiring => \A d \in Of(q) :
        d[2] <= night[q] /\ (d[2] = night[q] => pc[q] = "eval" /\ d[3] = "sha")
  BY DEF ListInv, Frontier
<1>1. ASSUME NEW r \in Request, r # q, Call(r) \/ Release(r)
      PROVE  /\ e[2] <= night'[q]
             /\ e[2] = night'[q] => pc'[q] = "eval" /\ e[3] = "sha"
  BY <1>0, <1>f, <1>1, OtherRequests
<1>2. ASSUME Call(q) \/ Release(q)
      PROVE  /\ e[2] <= night'[q]
             /\ e[2] = night'[q] => pc'[q] = "eval" /\ e[3] = "sha"
  <2>1. ASSUME NEW i \in Night, NEW o \in 2 .. N + 1, Begin(q, i, o) PROVE FALSE
    BY <1>0, <2>1, FreshIsEmpty DEF Begin, Of
  <2>2. CASE HoldGranted(q)
    <3>1. night'[q] = night[q] + 1
      BY <1>0, <2>2 DEF HoldGranted, TypeOK
    <3>2. e \in Of(q) \/ e[2] = night[q]
      BY <2>2 DEF HoldGranted, Take, Of
    <3>3. e[2] <= night[q]
      BY <1>0, <1>f, <2>2, <3>2 DEF HoldGranted, TypeOK, Night
    <3>4. e[2] \in Night /\ night[q] \in Night
      BY <1>0, <2>2, <3>2 DEF TypeOK, Of
    <3> QED BY <3>1, <3>3, <3>4, NumbersAssumption DEF Night
  <2>3. CASE HoldError(q)
    <3>1. pc[q] = "sha" /\ pc'[q] = "eval" /\ night'[q] = night[q]
      BY <1>0, <2>3 DEF HoldError, TypeOK
    <3>2. e \in Of(q) \/ (e[2] = night[q] /\ e[3] = "sha")
      BY <2>3, <3>1 DEF HoldError, HoldScript, Take, Of
    <3>3. night[q] <= night[q]
      BY <1>0, NumbersAssumption DEF TypeOK, Night
    <3> QED BY <1>f, <3>1, <3>2, <3>3
  <2> QED BY <1>0, <1>2, <2>1, <2>2, <2>3, OwnSteps
<1>3. CASE Tick
  <2>1. pc' = pc /\ night' = night /\ e \in Of(q)
    BY <1>3 DEF Tick, DropExpired, Of
  <2> QED BY <1>f, <2>1
<1>4. CASE UNCHANGED vars
  BY <1>f, <1>4 DEF vars, Of
<1> QED BY <1>1, <1>2, <1>3, <1>4 DEF Next

\* A hold whose token list outlives it keeps the list while time passes.
LEMMA TickKeeps ==
  ASSUME TypeOK, Tick, NEW q \in Request, expires'[q] > 0, tokenTTL[q] >= expires[q]
  PROVE  /\ expires[q] > 0
         /\ tokenTTL'[q] >= expires'[q]
         /\ \A k : Pushed(q, k)' = Pushed(q, k)
<1>1. expires[q] \in Nat /\ tokenTTL[q] \in Nat
  BY NumbersAssumption DEF TypeOK
<1>2. expires'[q] = Less1(expires[q]) /\ tokenTTL'[q] = Less1(tokenTTL[q])
  BY DEF Tick, DropExpired
<1>3. expires[q] > 1 /\ tokenTTL[q] > 1 /\ tokenTTL'[q] >= expires'[q]
  BY <1>1, <1>2 DEF Less1
<1>4. index' = {e \in index : tokenTTL[e[1]] > 1}
  BY DEF Tick, DropExpired
<1>5. ASSUME NEW k PROVE Pushed(q, k)' = Pushed(q, k)
  BY <1>3, <1>4 DEF Pushed
<1> QED BY <1>1, <1>3, <1>5

\* Granting a night adds it to the list of the call and removes nothing.
LEMMA TakePushes ==
  ASSUME TypeOK, NEW q \in Request, NEW a, Take(q, night[q], a)
  PROVE  /\ tokenTTL'[q] = TTL
         /\ \A k : Pushed(q, k) \subseteq Pushed(q, k)'
         /\ \A k : k = night[q] => Pushed(q, k)' # {}
<1>1. tokenTTL'[q] = TTL
  BY DEF TypeOK, Take
<1>2. \A k : Pushed(q, k) \subseteq Pushed(q, k)'
  BY DEF Take, Pushed
<1>3. ASSUME NEW k, k = night[q] PROVE Pushed(q, k)' # {}
  <2>1. <<q, k, a>> \in Pushed(q, k)'
    BY <1>3 DEF Take, Pushed
  <2> QED BY <2>1
<1> QED BY <1>1, <1>2, <1>3

LEMMA PrefixNext == ListInv /\ [Next]_vars => Prefix'
<1> SUFFICES ASSUME ListInv, [Next]_vars, NEW q \in Request,
                    pc'[q] \in Acquiring, expires'[q] > 0, stay'[q].in < night'[q]
             PROVE  /\ tokenTTL'[q] >= expires'[q]
                    /\ \A k \in stay'[q].in .. night'[q] - 1 : Pushed(q, k)' # {}
  BY DEF Prefix
<1> DEFINE Goal == /\ tokenTTL'[q] >= expires'[q]
                   /\ \A k \in stay'[q].in .. night'[q] - 1 : Pushed(q, k)' # {}
<1>0. TypeOK
  BY DEF ListInv
<1>p. pc[q] \in Acquiring /\ expires[q] > 0 /\ stay[q].in < night[q] =>
        /\ tokenTTL[q] >= expires[q]
        /\ \A k \in stay[q].in .. night[q] - 1 : Pushed(q, k) # {}
  BY DEF ListInv, Prefix
<1>n. /\ expires[q] \in 0 .. TTL /\ TTL \in Nat
      /\ night[q] \in Int /\ stay[q].in \in Int
      /\ tokenTTL[q] \in Nat
  BY <1>0, NumbersAssumption DEF TypeOK, Night, Stay
<1>1. ASSUME NEW r \in Request, r # q, Call(r) \/ Release(r) PROVE Goal
  BY <1>0, <1>p, <1>1, OtherRequests
<1>2. ASSUME Call(q) \/ Release(q) PROVE Goal
  <2>1. ASSUME NEW i \in Night, NEW o \in 2 .. N + 1, Begin(q, i, o) PROVE FALSE
    <3>1. night'[q] = i /\ stay'[q].in = i
      BY <1>0, <2>1 DEF Begin, TypeOK
    <3> QED BY <3>1, NumbersAssumption DEF Night
  <2>2. CASE HoldGranted(q)
    <3>1. night'[q] = night[q] + 1 /\ stay'[q] = stay[q] /\ expires'[q] = expires[q]
      BY <1>0, <2>2 DEF HoldGranted, TypeOK
    <3>2. /\ tokenTTL'[q] = TTL
          /\ \A k : Pushed(q, k) \subseteq Pushed(q, k)'
          /\ \A k : k = night[q] => Pushed(q, k)' # {}
      BY <1>0, <2>2, TakePushes DEF HoldGranted
    <3>3. tokenTTL'[q] >= expires'[q]
      BY <1>n, <3>1, <3>2
    <3>4. ASSUME NEW k \in stay[q].in .. night[q] PROVE Pushed(q, k)' # {}
      <4>1. CASE k = night[q]
        BY <3>2, <4>1
      <4>2. CASE k # night[q]
        <5>1. k \in stay[q].in .. night[q] - 1 /\ stay[q].in < night[q]
          BY <1>n, <4>2
        <5>2. Pushed(q, k) # {}
          BY <1>p, <2>2, <3>1, <5>1 DEF HoldGranted
        <5> QED BY <3>2, <5>2
      <4> QED BY <4>1, <4>2
    <3>5. stay'[q].in .. night'[q] - 1 = stay[q].in .. night[q]
      BY <1>n, <3>1
    <3> QED BY <3>3, <3>4, <3>5
  <2>3. CASE HoldError(q)
    <3>1. night'[q] = night[q] /\ stay'[q] = stay[q] /\ expires'[q] = expires[q]
      BY <2>3 DEF HoldError
    <3>2. Take(q, night[q], pc[q]) \/ UNCHANGED store
      BY <2>3 DEF HoldError, HoldScript
    <3>3. tokenTTL'[q] \in {tokenTTL[q], TTL} /\ \A k : Pushed(q, k) \subseteq Pushed(q, k)'
      BY <1>0, <3>2, TakePushes DEF Pushed
    <3>4. pc[q] \in Acquiring
      BY <2>3 DEF HoldError
    <3>5. tokenTTL[q] >= expires[q]
      BY <1>p, <3>1, <3>4
    <3>6. ASSUME NEW k \in stay[q].in .. night[q] - 1 PROVE Pushed(q, k)' # {}
      BY <1>p, <3>1, <3>3, <3>4
    <3> QED BY <1>n, <3>1, <3>3, <3>5, <3>6
  <2> QED BY <1>0, <1>2, <2>1, <2>2, <2>3, OwnSteps
<1>3. CASE Tick
  <2>1. pc' = pc /\ night' = night /\ stay' = stay
    BY <1>3 DEF Tick
  <2>2. expires[q] > 0
    BY <1>n, <1>3 DEF Tick, Less1
  <2>3. tokenTTL[q] >= expires[q]
    BY <1>p, <2>1, <2>2
  <2> QED BY <1>0, <1>3, <1>p, <2>1, <2>2, <2>3, TickKeeps
<1>4. CASE UNCHANGED vars
  BY <1>p, <1>4 DEF vars, Pushed
<1> QED BY <1>1, <1>2, <1>3, <1>4 DEF Next

LEMMA HeldIsReleasableNext == ListInv /\ [Next]_vars => HeldIsReleasable'
<1> SUFFICES ASSUME ListInv, [Next]_vars, NEW q \in Request, Active(q)'
             PROVE  /\ tokenTTL'[q] >= expires'[q]
                    /\ \A k \in StayNights(q)' : Pushed(q, k)' # {}
  BY DEF HeldIsReleasable
<1> DEFINE Goal == /\ tokenTTL'[q] >= expires'[q]
                   /\ \A k \in StayNights(q)' : Pushed(q, k)' # {}
<1>0. TypeOK /\ pc'[q] = "held" /\ expires'[q] > 0
  BY DEF ListInv, Active
<1>h. Active(q) => /\ tokenTTL[q] >= expires[q]
                   /\ \A k \in StayNights(q) : Pushed(q, k) # {}
  BY DEF ListInv, HeldIsReleasable
<1>n. /\ expires[q] \in 0 .. TTL /\ TTL \in Nat
      /\ night[q] \in Int /\ stay[q].in \in Int /\ stay[q].out \in Int
      /\ tokenTTL[q] \in Nat
  <2>1. /\ expires[q] \in 0 .. TTL /\ tokenTTL[q] \in 0 .. TTL
        /\ night[q] \in Night /\ stay[q] \in Stay
    BY <1>0 DEF TypeOK
  <2>2. stay[q].in \in Night /\ stay[q].out \in 2 .. N + 1
    BY <2>1 DEF Stay
  <2> QED BY <2>1, <2>2, NumbersAssumption DEF Night
<1>1. ASSUME NEW r \in Request, r # q, Call(r) \/ Release(r) PROVE Goal
  <2>1. /\ pc'[q] = pc[q] /\ stay'[q] = stay[q] /\ expires'[q] = expires[q]
        /\ tokenTTL'[q] = tokenTTL[q]
        /\ \A k : Pushed(q, k)' = Pushed(q, k)
    BY <1>0, <1>1, OtherRequests
  <2>2. Active(q) /\ StayNights(q)' = StayNights(q)
    BY <1>0, <2>1 DEF Active, StayNights
  <2> QED BY <1>h, <2>1, <2>2
<1>2. ASSUME Call(q) \/ Release(q) PROVE Goal
  <2>1. HoldGranted(q) /\ LastNight(q)
    BY <1>0, <1>2 DEF Call, Begin, HoldGranted, HoldRefused, HoldError, UndoDone,
                      UndoError, Crash, Release, NoToken, TypeOK
  <2>2. stay'[q] = stay[q] /\ expires'[q] = expires[q] /\ pc[q] \in Acquiring
    BY <2>1 DEF HoldGranted
  <2>3. /\ tokenTTL'[q] = TTL
        /\ \A k : Pushed(q, k) \subseteq Pushed(q, k)'
        /\ \A k : k = night[q] => Pushed(q, k)' # {}
    BY <1>0, <2>1, TakePushes DEF HoldGranted
  <2>4. tokenTTL'[q] >= expires'[q]
    BY <1>n, <2>2, <2>3
  <2>5. ASSUME NEW k \in StayNights(q)' PROVE Pushed(q, k)' # {}
    <3>1. k \in stay[q].in .. night[q]
      BY <1>n, <2>1, <2>2 DEF LastNight, StayNights
    <3>2. CASE k = night[q]
      BY <2>3, <3>2
    <3>3. CASE k # night[q]
      <4>1. k \in stay[q].in .. night[q] - 1 /\ stay[q].in < night[q]
        BY <1>n, <3>1, <3>3
      <4>2. Pushed(q, k) # {}
        BY <1>0, <2>2, <4>1 DEF ListInv, Prefix
      <4> QED BY <2>3, <4>2
    <3> QED BY <3>2, <3>3
  <2> QED BY <2>4, <2>5
<1>3. CASE Tick
  <2>1. pc' = pc /\ stay' = stay
    BY <1>3 DEF Tick
  <2>2. expires[q] > 0
    BY <1>0, <1>n, <1>3 DEF Tick, Less1
  <2>3. Active(q) /\ tokenTTL[q] >= expires[q]
    BY <1>0, <1>h, <2>1, <2>2 DEF Active
  <2> QED BY <1>0, <1>3, <1>h, <2>1, <2>3, TickKeeps DEF StayNights
<1>4. CASE UNCHANGED vars
  BY <1>0, <1>h, <1>4 DEF vars, Pushed, Active, StayNights
<1> QED BY <1>1, <1>2, <1>3, <1>4 DEF Next

LEMMA ListInvNext == ListInv /\ [Next]_vars => ListInv'
<1> SUFFICES ASSUME ListInv, [Next]_vars PROVE ListInv'
  OBVIOUS
<1>1. TypeOK' /\ Walk'
  BY TypeNext DEF ListInv
<1>2. TokensLive'
  BY TokensLiveNext DEF ListInv
<1> QED BY <1>1, <1>2, FrontierNext, PrefixNext, HeldIsReleasableNext DEF ListInv

\* For every fault model, and with the clock ticking between two nights: a
\* valid hold can be released in full.
THEOREM HoldsAreReleasable == Spec => []HeldIsReleasable
<1>1. Init => ListInv
  BY CountInvInit DEF CountInv
<1>2. ListInv /\ [Next]_vars => ListInv'
  BY ListInvNext
<1>3. ListInv => HeldIsReleasable
  BY DEF ListInv
<1> QED BY <1>1, <1>2, <1>3, PTL DEF Spec

-----------------------------------------------------------------------------
(* Counting, when acquisitions are instantaneous for the clock *)

\* A hold script adds one unit and one entry: the untracked part is kept.
LEMMA TakeCounts ==
  ASSUME TypeOK, NEW r \in Request, NEW k \in Night, NEW a \in Attempt,
         Take(r, k, a), <<r, k, a>> \notin index, NEW j \in Night
  PROVE  Untracked(j)' = Untracked(j)
<1>1. IsFiniteSet(On(j)) /\ Cardinality(On(j)) \in Nat
  BY PartsFinite DEF TypeOK
<1>2. count[j] \in Int
  BY NumbersAssumption DEF TypeOK
<1>3. CASE j = k
  <2>1. On(j)' = On(j) \cup {<<r, k, a>>} /\ <<r, k, a>> \notin On(j)
    BY <1>3 DEF Take, On
  <2>2. Cardinality(On(j)') = Cardinality(On(j)) + 1
    BY <1>1, <2>1, FS_AddElement
  <2>3. count'[j] = count[j] + 1
    BY <1>3 DEF Take, TypeOK
  <2> QED BY <1>1, <1>2, <2>2, <2>3 DEF Untracked
<1>4. CASE j # k
  <2>1. On(j)' = On(j)
    BY <1>4 DEF Take, On
  <2>2. count'[j] = count[j]
    BY <1>4 DEF Take, TypeOK
  <2> QED BY <2>1, <2>2 DEF Untracked
<1> QED BY <1>3, <1>4

\* A release takes as many units off a counter as entries off the index.
LEMMA ReleaseCounts ==
  ASSUME TypeOK, Covered, NEW r \in Request, ReleaseScript(r), NEW j \in Night
  PROVE  Untracked(j)' = Untracked(j)
<1> DEFINE n == Cardinality(Pushed(r, j))
<1>1. /\ IsFiniteSet(On(j)) /\ Cardinality(On(j)) \in Nat
      /\ Pushed(r, j) \subseteq On(j)
  BY PartsFinite DEF TypeOK
<1>2. n \in Nat /\ n <= Cardinality(On(j))
  BY <1>1, FS_Subset, FS_CardinalityType
<1>3. count[j] \in Int /\ count[j] >= Cardinality(On(j))
  <2>1. count[j] \in Int
    BY NumbersAssumption DEF TypeOK
  <2> QED BY <1>1, <2>1 DEF Covered, Untracked
<1>4. Refund(r, j) = count[j] - n
  BY <1>1, <1>2, <1>3 DEF Refund
<1>5. count'[j] = count[j] - n
  BY <1>4 DEF ReleaseScript
<1>6. On(j)' = On(j) \ Pushed(r, j) /\ On(j) \cap Pushed(r, j) = Pushed(r, j)
  BY <1>1 DEF ReleaseScript, On, Of, Pushed
<1>7. Cardinality(On(j)') = Cardinality(On(j)) - n
  BY <1>1, <1>6, FS_Difference
<1> QED BY <1>1, <1>2, <1>3, <1>5, <1>7 DEF Untracked

\* The next push of a running call is a new entry of the index.
LEMMA NewPush ==
  ASSUME Frontier, NEW r \in Request, pc[r] \in Acquiring
  PROVE  <<r, night[r], pc[r]>> \notin index
<1> SUFFICES ASSUME <<r, night[r], pc[r]>> \in index PROVE FALSE
  OBVIOUS
<1>1. <<r, night[r], pc[r]>> \in Of(r)
  BY DEF Of
<1> QED BY <1>1 DEF Frontier

\* No step other than the passing of time changes what is untracked.
LEMMA CallsKeepUntracked ==
  CountInv /\ [Next]_vars => Tick \/ \A k \in Night : Untracked(k)' = Untracked(k)
<1> SUFFICES ASSUME CountInv, [Next]_vars, ~ Tick, NEW j \in Night
             PROVE  Untracked(j)' = Untracked(j)
  OBVIOUS
<1>0. TypeOK /\ Frontier /\ Covered
  BY DEF CountInv, ListInv
<1>1. ASSUME NEW r \in Request, pc[r] \in Acquiring, Take(r, night[r], pc[r])
      PROVE  Untracked(j)' = Untracked(j)
  <2>1. night[r] \in Night /\ pc[r] \in Attempt
    BY <1>0, <1>1 DEF TypeOK, Attempt
  <2>2. <<r, night[r], pc[r]>> \notin index
    BY <1>0, <1>1, NewPush
  <2> QED BY <1>0, <1>1, <2>1, <2>2, TakeCounts
<1>2. ASSUME NEW r \in Request, ReleaseScript(r)
      PROVE  Untracked(j)' = Untracked(j)
  BY <1>0, <1>2, ReleaseCounts
<1>3. CASE UNCHANGED store
  BY <1>3 DEF Untracked, On
<1> QED BY <1>1, <1>2, <1>3, StoreSteps

\* Time only adds to what is untracked: a token list that expires leaves its
\* units behind, and a counter that expires is named by no list.
LEMMA TickCovers ==
  ASSUME CountInv, Tick
  PROVE  Covered'
<1> SUFFICES ASSUME NEW j \in Night PROVE Untracked(j)' >= 0
  BY DEF Covered
<1>0. TypeOK /\ Backed /\ Covered
  BY DEF CountInv, ListInv
<1>1. /\ index' = {e \in index : tokenTTL[e[1]] > 1}
      /\ count'[j] = IF countTTL[j] <= 1 THEN 0 ELSE count[j]
  BY DEF Tick, DropExpired
<1>2. /\ IsFiniteSet(On(j)) /\ Cardinality(On(j)) \in Nat
  BY <1>0, PartsFinite DEF TypeOK
<1>3. count[j] \in Int /\ count[j] >= Cardinality(On(j))
  <2>1. count[j] \in Int
    BY <1>0, NumbersAssumption DEF TypeOK
  <2> QED BY <1>0, <1>2, <2>1 DEF Covered, Untracked
<1>4. On(j)' \subseteq On(j)
  BY <1>1 DEF On
<1>5. Cardinality(On(j)') \in Nat /\ Cardinality(On(j)') <= Cardinality(On(j))
  BY <1>2, <1>4, FS_Subset, FS_CardinalityType
<1>6. CASE countTTL[j] <= 1
  <2>1. On(j)' = {}
    <3> SUFFICES ASSUME NEW e \in On(j)' PROVE FALSE
      OBVIOUS
    <3>1. e \in index /\ tokenTTL[e[1]] > 1 /\ e[2] = j
      BY <1>1 DEF On
    <3>2. tokenTTL[e[1]] <= countTTL[j]
      BY <1>0, <3>1 DEF Backed
    <3>3. tokenTTL[e[1]] \in Int /\ countTTL[j] \in Int
      BY <1>0, <3>1, NumbersAssumption DEF TypeOK
    <3> QED BY <1>6, <3>1, <3>2, <3>3
  <2> QED BY <1>1, <1>6, <2>1, FS_EmptySet DEF Untracked
<1>7. CASE ~ (countTTL[j] <= 1)
  BY <1>1, <1>2, <1>3, <1>5, <1>7 DEF Untracked
<1> QED BY <1>6, <1>7

LEMMA CoveredNext == CountInv /\ [Next]_vars => Covered'
<1> SUFFICES ASSUME CountInv, [Next]_vars PROVE Covered'
  OBVIOUS
<1>1. CASE Tick
  BY <1>1, TickCovers
<1>2. CASE \A k \in Night : Untracked(k)' = Untracked(k)
  BY <1>2 DEF CountInv, Covered
<1> QED BY <1>1, <1>2, CallsKeepUntracked

LEMMA FullLifeNext == ~ SlowAcquire /\ CountInv /\ [Next]_vars => FullLife'
<1> SUFFICES ASSUME ~ SlowAcquire, CountInv, [Next]_vars,
                    NEW q \in Request, pc'[q] \in Acquiring, NEW e \in Of(q)'
             PROVE  tokenTTL'[q] = TTL /\ countTTL'[e[2]] = TTL
  BY DEF FullLife
<1>0. TypeOK /\ TokensLive
  BY DEF CountInv, ListInv
<1>f. pc[q] \in Acquiring => \A d \in Of(q) : tokenTTL[q] = TTL /\ countTTL[d[2]] = TTL
  BY DEF CountInv, FullLife
<1>n. \A d \in index : d[2] \in Night
  BY <1>0 DEF TypeOK
<1>1. ASSUME NEW r \in Request, r # q, Call(r) \/ Release(r)
      PROVE  tokenTTL'[q] = TTL /\ countTTL'[e[2]] = TTL
  <2>1. pc[q] \in Acquiring /\ e \in Of(q) /\ tokenTTL'[q] = tokenTTL[q]
    BY <1>0, <1>1, OtherRequests
  <2>2. e[2] \in Night /\ countTTL[e[2]] = TTL /\ tokenTTL[q] = TTL
    BY <1>f, <1>n, <2>1 DEF Of
  <2>3. countTTL'[e[2]] \in {countTTL[e[2]], TTL}
    BY <1>0, <1>1, <2>2 DEF Call, Begin, HoldGranted, HoldRefused, HoldError, HoldScript,
           UndoDone, UndoError, Crash, Release, Take, ReleaseScript, TypeOK
  <2> QED BY <2>1, <2>2, <2>3
<1>2. ASSUME Call(q) \/ Release(q)
      PROVE  tokenTTL'[q] = TTL /\ countTTL'[e[2]] = TTL
  <2>1. ASSUME NEW i \in Night, NEW o \in 2 .. N + 1, Begin(q, i, o) PROVE FALSE
    BY <1>0, <2>1, FreshIsEmpty DEF Begin, Of
  <2>2. ASSUME pc[q] \in Acquiring, Take(q, night[q], pc[q])
        PROVE  tokenTTL'[q] = TTL /\ countTTL'[e[2]] = TTL
    <3>1. tokenTTL'[q] = TTL
      BY <1>0, <2>2 DEF Take, TypeOK
    <3>2. e \in Of(q) \/ e[2] = night[q]
      BY <2>2 DEF Take, Of
    <3>3. night[q] \in Night
      BY <1>0 DEF TypeOK
    <3>4. CASE e \in Of(q)
      BY <1>0, <1>f, <1>n, <2>2, <3>1, <3>4 DEF Take, TypeOK, Of
    <3>5. CASE e[2] = night[q]
      BY <1>0, <2>2, <3>1, <3>3, <3>5 DEF Take, TypeOK
    <3> QED BY <3>2, <3>4, <3>5
  <2>3. CASE HoldGranted(q)
    BY <2>2, <2>3 DEF HoldGranted
  <2>4. CASE HoldError(q)
    <3>1. CASE UNCHANGED store
      BY <1>f, <2>4, <3>1 DEF HoldError, Of
    <3> QED BY <2>2, <2>4, <3>1 DEF HoldError, HoldScript
  <2> QED BY <1>0, <1>2, <2>1, <2>3, <2>4, OwnSteps
<1>3. ASSUME Tick PROVE FALSE
  BY <1>3 DEF Tick
<1>4. CASE UNCHANGED vars
  BY <1>f, <1>4 DEF vars, Of
<1> QED BY <1>1, <1>2, <1>3, <1>4 DEF Next

LEMMA BackedNext == CountInv /\ [Next]_vars => Backed'
<1> SUFFICES ASSUME CountInv, [Next]_vars, NEW e \in index'
             PROVE  tokenTTL'[e[1]] <= countTTL'[e[2]]
  BY DEF Backed
<1>0. TypeOK /\ FullLife /\ Backed
  BY DEF CountInv, ListInv
<1>1. ASSUME NEW r \in Request, pc[r] \in Acquiring, Take(r, night[r], pc[r])
      PROVE  tokenTTL'[e[1]] <= countTTL'[e[2]]
  <2>1. e \in index \/ (e[1] = r /\ e[2] = night[r])
    BY <1>1 DEF Take
  <2>2. night[r] \in Night /\ (e \in index => e[1] \in Request /\ e[2] \in Night)
    BY <1>0 DEF TypeOK
  <2>3. CASE e[1] = r
    <3>1. tokenTTL'[r] = TTL
      BY <1>0, <1>1 DEF Take, TypeOK
    <3>2. countTTL'[e[2]] = TTL
      <4>1. CASE e \in index
        BY <1>0, <1>1, <2>2, <2>3, <4>1 DEF FullLife, Of, Take, TypeOK
      <4>2. CASE e[2] = night[r]
        BY <1>0, <1>1, <2>2, <4>2 DEF Take, TypeOK
      <4> QED BY <2>1, <4>1, <4>2
    <3> QED BY <2>3, <3>1, <3>2, NumbersAssumption
  <2>4. CASE e[1] # r
    <3>1. e \in index /\ e[1] \in Request /\ e[2] \in Night
      BY <2>1, <2>2, <2>4
    <3>2. tokenTTL'[e[1]] = tokenTTL[e[1]]
      BY <1>0, <1>1, <2>4, <3>1 DEF Take, TypeOK
    <3>3. countTTL'[e[2]] \in {countTTL[e[2]], TTL}
      BY <1>0, <1>1, <3>1 DEF Take, TypeOK
    <3>4. tokenTTL[e[1]] \in 0 .. TTL /\ tokenTTL[e[1]] <= countTTL[e[2]]
      BY <1>0, <3>1 DEF Backed, TypeOK
    <3> QED BY <3>2, <3>3, <3>4, NumbersAssumption
  <2> QED BY <2>3, <2>4
<1>2. ASSUME NEW r \in Request, ReleaseScript(r)
      PROVE  tokenTTL'[e[1]] <= countTTL'[e[2]]
  <2>1. e \in index /\ e[1] # r
    BY <1>2 DEF ReleaseScript, Of
  <2> QED BY <1>0, <1>2, <2>1 DEF ReleaseScript, Backed, TypeOK
<1>3. CASE Tick
  <2>1. e \in index /\ e[1] \in Request /\ e[2] \in Night
    BY <1>0, <1>3 DEF Tick, DropExpired, TypeOK
  <2>2. /\ tokenTTL'[e[1]] = Less1(tokenTTL[e[1]])
        /\ countTTL'[e[2]] = Less1(countTTL[e[2]])
    BY <1>3, <2>1 DEF Tick, DropExpired
  <2>3. /\ tokenTTL[e[1]] \in 0 .. TTL /\ countTTL[e[2]] \in 0 .. TTL
        /\ tokenTTL[e[1]] <= countTTL[e[2]]
    BY <1>0, <2>1 DEF TypeOK, Backed
  <2> QED BY <2>2, <2>3, NumbersAssumption DEF Less1
<1>4. CASE UNCHANGED store
  BY <1>0, <1>4 DEF Backed
<1> QED BY <1>1, <1>2, <1>3, <1>4, StoreSteps

LEMMA CountInvNext == ~ SlowAcquire /\ CountInv /\ [Next]_vars => CountInv'
BY ListInvNext, FullLifeNext, BackedNext, CoveredNext DEF CountInv

\* The valid holds of a night are at most its list entries, these at most
\* its counter, and the counter at most the capacity.
LEMMA CountInvNoOversell == CountInv => NoOversell
<1> SUFFICES ASSUME CountInv, NEW k \in Night PROVE Cardinality(Guests(k)) <= Capacity
  BY DEF NoOversell
<1>0. TypeOK /\ HeldIsReleasable /\ Covered
  BY DEF CountInv, ListInv
<1> DEFINE f == [r \in Guests(k) |-> CHOOSE e \in Pushed(r, k) : TRUE]
<1>1. IsFiniteSet(On(k)) /\ Cardinality(On(k)) \in Nat
  BY <1>0, PartsFinite DEF TypeOK
<1>2. \A r \in Guests(k) : f[r] \in Pushed(r, k)
  BY <1>0 DEF HeldIsReleasable, Guests
<1>3. f \in Injection(Guests(k), On(k))
  <2>1. \A r \in Guests(k) : f[r] \in On(k) /\ f[r][1] = r
    BY <1>2 DEF Pushed, On
  <2>2. f \in [Guests(k) -> On(k)]
    BY <2>1
  <2>3. \A q, r \in Guests(k) : f[q] = f[r] => q = r
    BY <2>1
  <2> QED BY <2>2, <2>3, Fun_IsInj
<1>4. Cardinality(Guests(k)) <= Cardinality(On(k)) /\ Cardinality(Guests(k)) \in Nat
  BY <1>1, <1>3, FS_Injection, FS_CardinalityType
<1>5. count[k] \in 0 .. Capacity
  BY <1>0 DEF TypeOK
<1>6. Cardinality(On(k)) <= count[k]
  BY <1>0, <1>1, <1>5, NumbersAssumption DEF Covered, Untracked
<1> QED BY <1>1, <1>4, <1>5, <1>6, NumbersAssumption

LEMMA CountInvAlways == ~ SlowAcquire /\ Spec => []CountInv
<1>1. Init => CountInv
  BY CountInvInit
<1>2. CASE ~ SlowAcquire
  <2>1. CountInv /\ [Next]_vars => CountInv'
    BY <1>2, CountInvNext
  <2> QED BY <1>1, <2>1, PTL DEF Spec
<1> QED BY <1>2

\* README "zero overselling", for any number of rooms, requests and nights
\* and any mix of lost replies, failed calls and crashes - provided that the
\* nights of a stay are acquired within one instant of the Redis clock.
THEOREM NeverOversold == ~ SlowAcquire /\ Spec => []NoOversell
BY CountInvAlways, CountInvNoOversell, PTL

\* Under the same proviso a release never gives back somebody else's unit.
THEOREM ReleasesAreCovered == ~ SlowAcquire /\ Spec => []Covered
<1>1. CountInv => Covered
  BY DEF CountInv
<1> QED BY <1>1, CountInvAlways, PTL

\* Under the same proviso lost replies and repeated scripts cost no unit.
THEOREM CallsDoNotLeak == ~ SlowAcquire /\ Spec => OnlyExpiryLeaks
<1>1. CountInv /\ [Next]_vars => [Tick \/ \A k \in Night : Untracked(k)' = Untracked(k)]_vars
  BY CallsKeepUntracked
<1> QED BY <1>1, CountInvAlways, PTL DEF Spec, OnlyExpiryLeaks

-----------------------------------------------------------------------------
(* The store implements the pool of rooms *)

Booked == [r \in Request |-> IF Active(r) THEN StayNights(r) ELSE {}]

\* A step that hands out no hold leaves every hold alone or ends it.
LEMMA OnlyGrantsBook ==
  ASSUME TypeOK, [Next]_vars,
         ~ \E q \in Request : HoldGranted(q) /\ LastNight(q),
         NEW r \in Request, Active(r)'
  PROVE  Active(r) /\ StayNights(r)' = StayNights(r)
<1>1. ASSUME NEW q \in Request, q # r, Call(q) \/ Release(q)
      PROVE  Active(r) /\ StayNights(r)' = StayNights(r)
  BY <1>1, OtherRequests DEF Active, StayNights
<1>2. ASSUME Call(r) \/ Release(r) PROVE FALSE
  BY <1>2 DEF Call, Begin, HoldGranted, HoldRefused, HoldError, UndoDone, UndoError,
              Crash, Release, NoToken, Active, TypeOK
<1>3. CASE Tick
  <2>1. expires[r] > 0
    <3>1. expires'[r] = Less1(expires[r]) /\ expires'[r] > 0
      BY <1>3 DEF Tick, Active
    <3>2. expires[r] \in 0 .. TTL
      BY DEF TypeOK
    <3> QED BY <3>1, <3>2, NumbersAssumption DEF Less1
  <2> QED BY <1>3, <2>1 DEF Tick, Active, StayNights
<1>4. CASE UNCHANGED vars
  BY <1>4 DEF vars, Active, StayNights
<1> QED BY <1>1, <1>2, <1>3, <1>4 DEF Next

\* Such a step ends the holds that are no longer valid.
LEMMA EndsMap ==
  ASSUME TypeOK, [Next]_vars,
         ~ \E q \in Request : HoldGranted(q) /\ LastNight(q)
  PROVE  \E G \in SUBSET Request : Pool!End(G)
<1> DEFINE G == {r \in Request : ~ Active(r)'}
<1>1. \A r \in Request : r \notin G => Active(r) /\ StayNights(r)' = StayNights(r)
  BY OnlyGrantsBook
<1>2. Booked' = [r \in Request |-> IF r \in G THEN {} ELSE Booked[r]]
  BY <1>1 DEF Booked
<1>3. Pool!End(G)
  BY <1>2 DEF Pool!End, Booked
<1> QED BY <1>3

\* The last night of a stay books the whole stay, and each of its nights had
\* a unit left: the new holder is counted by NoOversell in the next state.
LEMMA GrantMaps ==
  ASSUME CountInv, NoOversell', NEW q \in Request, HoldGranted(q), LastNight(q), Active(q)'
  PROVE  \E S \in (SUBSET Night) \ {{}} : Pool!Grant(q, S)
<1>0. TypeOK /\ TypeOK'
  <2>1. TypeOK /\ Walk
    BY DEF CountInv, ListInv
  <2>2. [Next]_vars
    BY DEF Next, Call
  <2> QED BY <2>1, <2>2, TypeNext
<1> DEFINE S == StayNights(q)
<1>1. /\ ~ Active(q) /\ S' = S
      /\ \A r \in Request \ {q} : Active(r)' = Active(r) /\ StayNights(r)' = StayNights(r)
  <2>1. ~ Active(q) /\ S' = S
    BY DEF HoldGranted, Active, StayNights
  <2>2. \A r \in Request \ {q} : /\ pc'[r] = pc[r] /\ expires'[r] = expires[r]
                                 /\ stay'[r] = stay[r]
    BY <1>0, OtherRequests DEF Call
  <2>3. ASSUME NEW r \in Request \ {q}
        PROVE  Active(r)' = Active(r) /\ StayNights(r)' = StayNights(r)
    BY <2>2 DEF Active, StayNights
  <2> QED BY <2>1, <2>3
<1>2. S \in (SUBSET Night) \ {{}}
  <2>1. night[q] \in S
    BY DEF CountInv, ListInv, Walk, HoldGranted
  <2>2. stay[q].in \in Night /\ stay[q].out \in 2 .. N + 1
    BY <1>0 DEF TypeOK, Stay
  <2>3. S \subseteq Night
    BY <2>2, NumbersAssumption DEF StayNights, Night
  <2> QED BY <2>1, <2>3
<1>3. Booked[q] = {} /\ Booked' = [Booked EXCEPT ![q] = S]
  BY <1>1 DEF Booked
<1>4. ASSUME NEW k \in S PROVE Cardinality({g \in Request : k \in Booked[g]}) < Capacity
  <2>0. k \in Night
    BY <1>2
  <2>1. {g \in Request : k \in Booked[g]} = Guests(k)
    BY DEF Booked, Guests
  <2>2. q \notin Guests(k)
    BY <1>1 DEF Guests
  <2>3. Guests(k)' = Guests(k) \cup {q}
    BY <1>1 DEF Guests
  <2>4. IsFiniteSet(Guests(k)) /\ Cardinality(Guests(k)) \in Nat
    BY RequestAssumption, FS_Subset, FS_CardinalityType DEF Guests
  <2>5. Cardinality(Guests(k)') = Cardinality(Guests(k)) + 1
    BY <2>2, <2>3, <2>4, FS_AddElement
  <2>6. Cardinality(Guests(k)') <= Capacity
    BY <2>0 DEF NoOversell
  <2> QED BY <2>1, <2>4, <2>5, <2>6, NumbersAssumption
<1>5. Pool!Grant(q, S)
  <2>1. \A k \in S : Cardinality(Pool!Holders(k)) < Capacity
    BY <1>4 DEF Pool!Holders, Booked
  <2>2. \A T : Pool!Cardinality(T) = Cardinality(T)
    BY DEF Pool!Cardinality, Cardinality, Pool!IsFiniteSet, IsFiniteSet
  <2> HIDE DEF S
  <2> QED BY <1>3, <2>1, <2>2 DEF Pool!Grant, Booked
<1> QED BY <1>2, <1>5

LEMMA StepMaps ==
  ASSUME CountInv, NoOversell', [Next]_vars
  PROVE  [Pool!Next]_Booked
<1>0. TypeOK
  BY DEF CountInv, ListInv
<1>1. CASE ~ \E q \in Request : HoldGranted(q) /\ LastNight(q)
  BY <1>0, <1>1, EndsMap DEF Pool!Next
<1>2. ASSUME NEW q \in Request, HoldGranted(q), LastNight(q)
      PROVE  [Pool!Next]_Booked
  <2>1. CASE Active(q)'
    BY <1>0, <1>2, <2>1, GrantMaps DEF Pool!Next
  <2>2. CASE ~ Active(q)'
    <3>1. ~ Active(q)
      BY <1>2 DEF HoldGranted, Active
    <3>2. \A r \in Request \ {q} : /\ pc'[r] = pc[r] /\ expires'[r] = expires[r]
                                   /\ stay'[r] = stay[r]
      BY <1>0, <1>2, OtherRequests DEF Call
    <3>3. ASSUME NEW r \in Request
          PROVE  (IF Active(r) THEN StayNights(r) ELSE {})'
                   = IF Active(r) THEN StayNights(r) ELSE {}
      BY <2>2, <3>1, <3>2 DEF Active, StayNights
    <3> QED BY <3>3 DEF Booked
  <2> QED BY <2>1, <2>2
<1> QED BY <1>1, <1>2

\* The detailed store implements RoomPool: whatever is lost, retried, rolled
\* back or swept, its clients see stays granted whole and within capacity.
THEOREM StoreImplementsPool == ~ SlowAcquire /\ Spec => ImplementsPool
<1>1. Init => Pool!Init
  BY DEF Init, Pool!Init, Active
<1>2. CountInv /\ NoOversell' /\ [Next]_vars => [Pool!Next]_Booked
  BY StepMaps
<1> QED
  BY <1>1, <1>2, CountInvAlways, NeverOversold, PTL
     DEF Spec, ImplementsPool, Pool!Spec, Booked
=============================================================================
