------------------------ MODULE HoldLifecycleProofs -------------------------
(***************************************************************************)
(* Theorems about HoldLifecycle: it implements FastHold, so what is proved *)
(* there of Redis holds here too, and it keeps its own promises.           *)
(***************************************************************************)
EXTENDS HoldLifecycle, FastHoldProofs, SequenceTheorems

-----------------------------------------------------------------------------
(* The inductive invariant *)

\* A worker that is not idle has a row in its hands.
Busy == \A w \in Worker : at[w] # "idle" => batch[w] # <<>>

\* What a sweeper has in its hands is written and overdue.
BatchOverdue ==
    \A w \in Worker : \A i \in 1 .. Len(batch[w]) :
        row[batch[w][i]] # "none" /\ expires[batch[w][i]] = 0

\* Only the service call that began an AcquireFastHold runs it ...
OneCall(r) == pc[r] \in Acquiring \cup Undoing => svc[r] = "acquire"

\* ... a row is written when it has ended, not before ...
RowIsLast(r) == row[r] # "none" => svc[r] \notin {"new", "acquire"}

\* ... an answered hold that has time left is untouched ...
Answered(r) == svc[r] = "created" /\ expires[r] > 0 => pc[r] = "held"

\* ... and a row that was marked is overdue.
MarkedOverdue(r) == row[r] = "EXPIRED" => expires[r] = 0

InOrder(r) == OneCall(r) /\ RowIsLast(r) /\ Answered(r) /\ MarkedOverdue(r)

LifeInv ==
    LifeTypeOK /\ Walk /\ Busy /\ BatchOverdue /\ \A r \in Request : InOrder(r)

\* A request that failed has left nothing in Redis (Faults \subseteq {"lost"}).
FailedIsClean == \A r \in Request : svc[r] = "error" => Of(r) = {}

RequestStep(r) == Start(r) \/ Serve(r) \/ ServiceCrash(r) \/ UpdateStatus(r)
WorkerStep(w)  == Sweep(w) \/ WorkerCrash(w)

-----------------------------------------------------------------------------
(* What the steps of the sweepers do *)

\* The rows of a sweep, in any order, are a non-empty sequence of requests.
LEMMA FetchOrders ==
  ASSUME NEW B \in SUBSET Request, B # {}, NEW q \in SetToSeqs(B)
  PROVE  q \in Seq(Request) /\ q # <<>> /\ \A i \in 1 .. Len(q) : q[i] \in B
<1> DEFINE n == Cardinality(B)
<1>1. n \in Nat /\ n # 0
  BY FS_Subset, FS_CardinalityType, FS_EmptySet, RequestAssumption
<1>2. q \in [1 .. n -> B]
  BY DEF SetToSeqs
<1>3. q \in Seq(B) /\ Len(q) = n
  BY <1>1, <1>2, IsASeq, LenProperties
<1> QED BY <1>1, <1>2, <1>3

LEMMA HeadIsRequest ==
  ASSUME LifeTypeOK, Busy, NEW w \in Worker, at[w] # "idle"
  PROVE  /\ Head(batch[w]) \in Request
         /\ 1 \in 1 .. Len(batch[w])
         /\ Head(batch[w]) = batch[w][1]
BY DEF LifeTypeOK, Busy

\* A sweeper touches Redis and the rows only where its next row is.
LEMMA WorkerTouches ==
  ASSUME NEW w \in Worker, WorkerStep(w)
  PROVE  /\ svc' = svc
         /\ UNCHANGED vars \/ (at[w] # "idle" /\ Release(Head(batch[w])))
         /\ UNCHANGED row \/ (at[w] # "idle" /\ MarkExpired(Head(batch[w])))
BY DEF WorkerStep, Sweep, Fetch, SweepRelease, SweepReleaseError, SweepMark,
       SweepMarkError, NextRow, WorkerCrash

\* What it takes into its hands was due, what it keeps was there before.
LEMMA WorkerBatch ==
  ASSUME LifeTypeOK, Busy, NEW w \in Worker, WorkerStep(w)
  PROVE  \E q \in Seq(Request), a \in {"idle"} \cup SweepStep :
           /\ batch' = [batch EXCEPT ![w] = q]
           /\ at' = [at EXCEPT ![w] = a]
           /\ a # "idle" => q # <<>>
           /\ \A i \in 1 .. Len(q) :
                 q[i] \in Due \/ \E j \in 1 .. Len(batch[w]) : q[i] = batch[w][j]
<1> DEFINE Goal(q, a) ==
           /\ batch' = [batch EXCEPT ![w] = q]
           /\ at' = [at EXCEPT ![w] = a]
           /\ a # "idle" => q # <<>>
           /\ \A i \in 1 .. Len(q) :
                 q[i] \in Due \/ \E j \in 1 .. Len(batch[w]) : q[i] = batch[w][j]
<1>0. batch[w] \in Seq(Request) /\ batch = [batch EXCEPT ![w] = @]
  BY DEF LifeTypeOK
<1>1. CASE Fetch(w)
  <2>0. PICK B \in (SUBSET Due) \ {{}} :
              \E q \in SetToSeqs(B) : batch' = [batch EXCEPT ![w] = q]
    BY <1>1 DEF Fetch
  <2>1. PICK q \in SetToSeqs(B) : batch' = [batch EXCEPT ![w] = q]
    BY <2>0
  <2>2. B \in SUBSET Request
    BY DEF Due
  <2>3. q \in Seq(Request) /\ q # <<>> /\ \A i \in 1 .. Len(q) : q[i] \in B
    BY <2>2, FetchOrders
  <2>4. Goal(q, "rel_sha")
    BY <1>1, <2>1, <2>3 DEF Fetch
  <2> HIDE DEF Goal
  <2>5. "rel_sha" \in {"idle"} \cup SweepStep
    BY DEF SweepStep
  <2>6. \E s \in Seq(Request), a \in {"idle"} \cup SweepStep : Goal(s, a)
    BY <2>3, <2>4, <2>5
  <2> QED BY <2>6 DEF Goal
<1>2. CASE SweepRelease(w) \/ SweepReleaseError(w)
  <2>1. PICK a \in {"rel_eval", "mark"} : at' = [at EXCEPT ![w] = a]
    BY <1>2 DEF SweepRelease, SweepReleaseError
  <2>2. at[w] # "idle" /\ batch' = batch
    BY <1>2 DEF SweepRelease, SweepReleaseError
  <2>3. Goal(batch[w], a)
    BY <1>0, <2>1, <2>2 DEF Busy
  <2> HIDE DEF Goal
  <2>4. a \in {"idle"} \cup SweepStep
    BY DEF SweepStep
  <2>5. \E s \in Seq(Request), b \in {"idle"} \cup SweepStep : Goal(s, b)
    BY <1>0, <2>3, <2>4
  <2> QED BY <2>5 DEF Goal
<1>3. CASE SweepMark(w) \/ SweepMarkError(w)
  <2> DEFINE q == Tail(batch[w])
             a == IF Len(batch[w]) > 1 THEN "rel_sha" ELSE "idle"
  <2>1. batch[w] # <<>>
    BY <1>3 DEF SweepMark, SweepMarkError, Busy
  <2>2. /\ q \in Seq(Request)
        /\ Len(q) = Len(batch[w]) - 1
        /\ \A i \in 1 .. Len(q) : i + 1 \in 1 .. Len(batch[w]) /\ q[i] = batch[w][i + 1]
    BY <1>0, <2>1
  <2>3. a # "idle" => q # <<>>
    <3>1. Len(batch[w]) > 1 => Len(q) # 0
      BY <1>0, <2>2, LenProperties
    <3>2. q = <<>> => Len(q) = 0
      BY <2>2, EmptySeq
    <3> QED BY <3>1, <3>2
  <2>4. batch' = [batch EXCEPT ![w] = q] /\ at' = [at EXCEPT ![w] = a]
    BY <1>3 DEF SweepMark, SweepMarkError, NextRow
  <2>5. a \in {"idle"} \cup SweepStep
    BY DEF SweepStep
  <2>6. Goal(q, a)
    BY <2>2, <2>3, <2>4
  <2> HIDE DEF Goal, q, a
  <2>7. \E s \in Seq(Request), b \in {"idle"} \cup SweepStep : Goal(s, b)
    BY <2>2, <2>5, <2>6
  <2> QED BY <2>7 DEF Goal
<1>4. CASE WorkerCrash(w)
  <2>1. Goal(<<>>, "idle")
    BY <1>4 DEF WorkerCrash
  <2> HIDE DEF Goal
  <2>0. <<>> \in Seq(Request)
    OBVIOUS
  <2>2. \E s \in Seq(Request), b \in {"idle"} \cup SweepStep : Goal(s, b)
    BY <2>0, <2>1
  <2> QED BY <2>2 DEF Goal
<1> QED BY <1>1, <1>2, <1>3, <1>4 DEF WorkerStep, Sweep
-----------------------------------------------------------------------------
(* Every step is a step of FastHold, or leaves Redis alone *)

\* CreateHold touches its own request only, by its own calls.
LEMMA RequestTouches ==
  ASSUME LifeTypeOK, NEW r \in Request, RequestStep(r)
  PROVE  /\ UNCHANGED <<batch, at>>
         /\ Call(r) \/ Release(r) \/ UNCHANGED vars
         /\ \A q \in Request : q # r => /\ svc'[q] = svc[q] /\ row'[q] = row[q]
                                       /\ pc'[q] = pc[q] /\ expires'[q] = expires[q]
                                       /\ Of(q)' = Of(q)
<1>1. UNCHANGED <<batch, at>>
  BY DEF RequestStep, Start, Serve, AcquireStep, Persist, PersistError,
         PersistConflict, Compensate, CompensateError, ServiceCrash, UpdateStatus
<1>2. Call(r) \/ Release(r) \/ UNCHANGED vars
  BY DEF RequestStep, Start, Serve, AcquireStep, Persist, PersistError,
         PersistConflict, Compensate, CompensateError, ServiceCrash, UpdateStatus, Call
<1>3. \A q \in Request : q # r => svc'[q] = svc[q] /\ row'[q] = row[q]
  BY DEF RequestStep, Start, Serve, AcquireStep, Persist, PersistError,
         PersistConflict, Compensate, CompensateError, ServiceCrash, UpdateStatus, LifeTypeOK
<1>4. ASSUME NEW q \in Request, q # r
      PROVE  pc'[q] = pc[q] /\ expires'[q] = expires[q] /\ Of(q)' = Of(q)
  <2>1. CASE Call(r) \/ Release(r)
    BY <1>4, <2>1, OtherRequests DEF LifeTypeOK
  <2>2. CASE UNCHANGED vars
    BY <2>2 DEF vars, Of
  <2> QED BY <1>2, <2>1, <2>2
<1> QED BY <1>1, <1>2, <1>3, <1>4

LEMMA LifeStepIsStep ==
  ASSUME LifeTypeOK, Busy, [LifeNext]_allVars
  PROVE  [Next]_vars
<1>1. ASSUME NEW r \in Request, RequestStep(r)
      PROVE  [Next]_vars
  BY <1>1, RequestTouches DEF Next
<1>2. ASSUME NEW w \in Worker, WorkerStep(w)
      PROVE  [Next]_vars
  BY <1>2, WorkerTouches, HeadIsRequest DEF Next
<1>3. CASE LifeTick
  BY <1>3 DEF LifeTick, Next
<1>4. CASE UNCHANGED allVars
  BY <1>4 DEF allVars
<1> QED BY <1>1, <1>2, <1>3, <1>4 DEF LifeNext, RequestStep, WorkerStep

-----------------------------------------------------------------------------
(* The invariant is inductive *)

LEMMA LifeTypeNext ==
  ASSUME LifeTypeOK, Walk, Busy, [LifeNext]_allVars
  PROVE  LifeTypeOK' /\ Walk' /\ Busy'
<1>1. TypeOK' /\ Walk'
  BY LifeStepIsStep, TypeNext DEF LifeTypeOK
<1> DEFINE Svc == {"new", "acquire", "created", "error"} \cup Compensating
           Row == {"none", "INVENTORY_HOLD", "EXPIRED", "CONFIRMED"}
<1>2. svc \in [Request -> Svc] /\ row \in [Request -> Row]
  BY DEF LifeTypeOK
<1>3. ASSUME NEW r \in Request, RequestStep(r)
      PROVE  LifeTypeOK' /\ Busy'
  <2>1. svc' \in [Request -> Svc]
    BY <1>2, <1>3 DEF RequestStep, Start, Serve, AcquireStep, Persist, PersistError,
          PersistConflict, Compensate, CompensateError, ServiceCrash, UpdateStatus, Compensating
  <2>2. row' \in [Request -> Row]
    BY <1>2, <1>3 DEF RequestStep, Start, Serve, AcquireStep, Persist, PersistError,
          PersistConflict, Compensate, CompensateError, ServiceCrash, UpdateStatus
  <2>3. UNCHANGED <<batch, at>>
    BY <1>3, RequestTouches
  <2> QED BY <1>1, <2>1, <2>2, <2>3 DEF LifeTypeOK, Busy
<1>4. ASSUME NEW w \in Worker, WorkerStep(w)
      PROVE  LifeTypeOK' /\ Busy'
  <2>1. svc' \in [Request -> Svc]
    BY <1>2, <1>4, WorkerTouches
  <2>2. row' \in [Request -> Row]
    BY <1>2, <1>4, WorkerTouches DEF MarkExpired
  <2>3. PICK q \in Seq(Request), a \in {"idle"} \cup SweepStep :
              /\ batch' = [batch EXCEPT ![w] = q]
              /\ at' = [at EXCEPT ![w] = a]
              /\ a # "idle" => q # <<>>
    BY <1>4, WorkerBatch
  <2>4. batch' \in [Worker -> Seq(Request)] /\ at' \in [Worker -> {"idle"} \cup SweepStep]
    BY <2>3 DEF LifeTypeOK
  <2>5. Busy'
    BY <2>3 DEF LifeTypeOK, Busy
  <2> QED BY <1>1, <2>1, <2>2, <2>4, <2>5 DEF LifeTypeOK
<1>5. CASE LifeTick \/ UNCHANGED allVars
  BY <1>1, <1>5 DEF LifeTick, lifeVars, allVars, LifeTypeOK, Busy
<1> QED BY <1>1, <1>3, <1>4, <1>5 DEF LifeNext, RequestStep, WorkerStep

\* A request's own steps keep its order.
LEMMA OwnOrder ==
  ASSUME LifeTypeOK, NEW r \in Request, InOrder(r), RequestStep(r)
  PROVE  InOrder(r)'
<1>0. /\ svc[r] \in {"new", "acquire", "created", "error", "comp_sha", "comp_eval"}
      /\ pc \in [Request -> {"idle"} \cup Acquiring \cup Undoing \cup Ended]
      /\ expires \in [Request -> 0 .. TTL] /\ stay \in [Request -> Stay]
      /\ svc = [q \in Request |-> svc[q]] /\ row = [q \in Request |-> row[q]]
  BY DEF LifeTypeOK, TypeOK, Compensating
<1> USE DEF InOrder, OneCall, RowIsLast, Answered, MarkedOverdue,
            Acquiring, Undoing, Ended, Compensating
<1>1. CASE Start(r)
  BY <1>0, <1>1 DEF Start, Begin
<1>2. CASE AcquireStep(r)
  <2>1. pc[r] \in Acquiring \cup Undoing /\ svc[r] = "acquire" /\ row'[r] = row[r]
    BY <1>2 DEF AcquireStep, HoldGranted, HoldRefused, HoldError, UndoDone,
                UndoError
  <2>2. row[r] = "none"
    BY <2>1, <1>0 DEF LifeTypeOK
  <2>3. svc'[r] \in {"acquire", "error"} /\ (pc'[r] = "idle" <=> svc'[r] = "error")
    BY <1>0, <1>2, <2>1 DEF AcquireStep
  <2> QED BY <2>1, <2>2, <2>3
<1>3. CASE Persist(r) \/ PersistError(r) \/ PersistConflict(r)
  BY <1>0, <1>3 DEF Persist, PersistError, PersistConflict, vars, LifeTypeOK
<1>4. CASE Compensate(r) \/ CompensateError(r)
  <2>1. pc[r] = pc'[r] \/ pc'[r] = "released"
    BY <1>0, <1>4 DEF Compensate, CompensateError, Release, vars
  <2>2. row' = row /\ expires' = expires /\ svc[r] \in Compensating
    BY <1>4 DEF Compensate, CompensateError, Release, vars
  <2>3. svc'[r] \in {"error", "comp_eval"}
    BY <1>0, <1>4 DEF Compensate, CompensateError
  <2> QED BY <2>1, <2>2, <2>3
<1>5. CASE ServiceCrash(r) /\ Crash(r)
  <2>1. svc[r] = "acquire" /\ row[r] = "none" /\ row' = row /\ pc'[r] = "idle"
    BY <1>0, <1>5 DEF ServiceCrash, Crash, NoToken, LifeTypeOK
  <2>2. svc'[r] = "error"
    BY <1>0, <1>5 DEF ServiceCrash
  <2> QED BY <2>1, <2>2
<1>6. CASE ServiceCrash(r) /\ UNCHANGED vars
  <2>1. UNCHANGED <<pc, expires, row>> /\ svc'[r] = "error"
    BY <1>0, <1>6 DEF ServiceCrash, vars
  <2>2. pc[r] \in Acquiring \cup Undoing => FALSE
    BY <1>0, <1>6 DEF ServiceCrash, Crash, NoToken, vars
  <2> QED BY <2>1, <2>2
<1>7. CASE UpdateStatus(r)
  BY <1>0, <1>7 DEF UpdateStatus, vars
<1> QED BY <1>1, <1>2, <1>3, <1>4, <1>5, <1>6, <1>7 DEF RequestStep, Serve, ServiceCrash

\* They leave a row alone that is overdue, or confirm it.
LEMMA OverdueStays ==
  ASSUME LifeTypeOK, NEW r \in Request, InOrder(r), RequestStep(r),
         row[r] # "none", expires[r] = 0
  PROVE  row'[r] # "none" /\ expires'[r] = 0
<1>1. svc[r] \notin {"new", "acquire"} /\ pc[r] \notin Acquiring \cup Undoing
  BY DEF InOrder, OneCall, RowIsLast
<1>2. ~ Crash(r)
  BY <1>1 DEF Crash
<1>3. \/ Compensate(r) \/ CompensateError(r)
      \/ (ServiceCrash(r) /\ UNCHANGED vars) \/ UpdateStatus(r)
  BY <1>1, <1>2 DEF RequestStep, Serve, Start, AcquireStep, HoldGranted, HoldRefused,
              HoldError, UndoDone, UndoError, ServiceCrash, Persist, PersistError, PersistConflict
<1> QED BY <1>3 DEF Compensate, CompensateError, ServiceCrash, UpdateStatus, Release,
                    vars, LifeTypeOK

\* A sweeper releases and marks only what is overdue.
LEMMA WorkerKeeps ==
  ASSUME LifeTypeOK, Busy, BatchOverdue, NEW w \in Worker, WorkerStep(w)
  PROVE  /\ expires' = expires
         /\ \A r \in Request :
              /\ pc'[r] = pc[r] \/ (pc'[r] = "released" /\ expires[r] = 0)
              /\ row'[r] = row[r] \/ (row'[r] = "EXPIRED" /\ row[r] # "none"
                                                         /\ expires[r] = 0)
<1> DEFINE h == Head(batch[w])
<1>1. at[w] # "idle" => h \in Request /\ row[h] # "none" /\ expires[h] = 0
  BY HeadIsRequest DEF BatchOverdue
<1>2. /\ UNCHANGED vars \/ (at[w] # "idle" /\ Release(h))
      /\ UNCHANGED row \/ (at[w] # "idle" /\ MarkExpired(h))
  BY WorkerTouches
<1>3. pc = [r \in Request |-> pc[r]] /\ row = [r \in Request |-> row[r]]
  BY DEF LifeTypeOK, TypeOK
<1> HIDE DEF h
<1>4. expires' = expires
  BY <1>2 DEF vars, Release
<1>5. ASSUME NEW r \in Request
      PROVE  pc'[r] = pc[r] \/ (pc'[r] = "released" /\ expires[r] = 0)
  BY <1>1, <1>2, <1>3 DEF vars, Release
<1>6. ASSUME NEW r \in Request
      PROVE  row'[r] = row[r] \/ (row'[r] = "EXPIRED" /\ row[r] # "none"
                                                     /\ expires[r] = 0)
  BY <1>1, <1>2, <1>3 DEF MarkExpired
<1> QED BY <1>4, <1>5, <1>6

LEMMA InOrderNext ==
  ASSUME LifeInv, [LifeNext]_allVars, NEW q \in Request
  PROVE  InOrder(q)'
<1>0. LifeTypeOK /\ Busy /\ BatchOverdue /\ InOrder(q)
  BY DEF LifeInv
<1> USE DEF InOrder, OneCall, RowIsLast, Answered, MarkedOverdue
<1>1. ASSUME NEW r \in Request, RequestStep(r)
      PROVE  InOrder(q)'
  <2>1. CASE q = r
    BY <1>0, <1>1, <2>1, OwnOrder
  <2>2. CASE q # r
    <3>1. /\ svc'[q] = svc[q] /\ row'[q] = row[q]
          /\ pc'[q] = pc[q] /\ expires'[q] = expires[q]
      BY <1>0, <1>1, <2>2, RequestTouches
    <3> QED BY <1>0, <3>1
  <2> QED BY <2>1, <2>2
<1>2. ASSUME NEW w \in Worker, WorkerStep(w)
      PROVE  InOrder(q)'
  <2>1. svc' = svc
    BY <1>2, WorkerTouches
  <2>2. /\ expires' = expires
        /\ pc'[q] = pc[q] \/ (pc'[q] = "released" /\ expires[q] = 0)
        /\ row'[q] = row[q] \/ (row'[q] = "EXPIRED" /\ row[q] # "none" /\ expires[q] = 0)
    BY <1>0, <1>2, WorkerKeeps
  <2> QED BY <1>0, <2>1, <2>2 DEF Acquiring, Undoing
<1>3. CASE LifeTick
  <2>1. expires[q] \in Nat /\ expires'[q] = Less1(expires[q])
    BY <1>0, <1>3, NumbersAssumption DEF LifeTick, Tick, LifeTypeOK, TypeOK
  <2>2. pc' = pc /\ svc' = svc /\ row' = row
    BY <1>3 DEF LifeTick, Tick, lifeVars
  <2>3. expires[q] = 0 => expires'[q] = 0
    BY <2>1 DEF Less1
  <2>4. expires'[q] > 0 => expires[q] > 0
    BY <2>1 DEF Less1
  <2> QED BY <1>0, <2>2, <2>3, <2>4
<1>4. CASE UNCHANGED allVars
  BY <1>0, <1>4 DEF allVars, vars
<1> QED BY <1>1, <1>2, <1>3, <1>4 DEF LifeNext, RequestStep, WorkerStep

LEMMA BatchOverdueNext ==
  ASSUME LifeInv, [LifeNext]_allVars
  PROVE  BatchOverdue'
<1>0. LifeTypeOK /\ Busy /\ BatchOverdue
  BY DEF LifeInv
<1>1. ASSUME NEW v \in Worker, NEW i \in 1 .. Len(batch[v])
      PROVE  /\ batch[v][i] \in Request
             /\ row[batch[v][i]] # "none" /\ expires[batch[v][i]] = 0
  BY <1>0, ElementOfSeq DEF LifeTypeOK, BatchOverdue
<1>2. ASSUME NEW r \in Request, RequestStep(r)
      PROVE  BatchOverdue'
  <2>1. batch' = batch
    BY <1>0, <1>2, RequestTouches
  <2>2. ASSUME NEW q \in Request, row[q] # "none", expires[q] = 0
        PROVE  row'[q] # "none" /\ expires'[q] = 0
    BY <1>0, <1>2, <2>2, RequestTouches, OverdueStays DEF LifeInv
  <2> QED BY <1>1, <2>1, <2>2 DEF BatchOverdue
<1>3. ASSUME NEW w \in Worker, WorkerStep(w)
      PROVE  BatchOverdue'
  <2>1. PICK q \in Seq(Request) :
              /\ batch' = [batch EXCEPT ![w] = q]
              /\ \A i \in 1 .. Len(q) :
                    q[i] \in Due \/ \E j \in 1 .. Len(batch[w]) : q[i] = batch[w][j]
    BY <1>0, <1>3, WorkerBatch
  <2>2. expires' = expires /\ \A r \in Request : row[r] # "none" => row'[r] # "none"
    BY <1>0, <1>3, WorkerKeeps
  <2>3. \A i \in 1 .. Len(q) : q[i] \in Request /\ row[q[i]] # "none" /\ expires[q[i]] = 0
    BY <1>1, <2>1 DEF Due
  <2>4. batch'[w] = q /\ \A v \in Worker : v # w => batch'[v] = batch[v]
    BY <1>0, <2>1 DEF LifeTypeOK
  <2> QED BY <1>1, <2>2, <2>3, <2>4 DEF BatchOverdue
<1>4. CASE LifeTick
  <2>1. \A r \in Request : expires[r] = 0 => expires'[r] = 0
    BY <1>4 DEF LifeTick, Tick, Less1
  <2>2. row' = row /\ batch' = batch
    BY <1>4 DEF LifeTick, lifeVars
  <2> QED BY <1>1, <2>1, <2>2 DEF BatchOverdue
<1>5. CASE UNCHANGED allVars
  BY <1>0, <1>5 DEF allVars, vars, BatchOverdue
<1> QED BY <1>2, <1>3, <1>4, <1>5 DEF LifeNext, RequestStep, WorkerStep

LEMMA LifeInvInit == LifeInit => LifeInv
<1> SUFFICES ASSUME LifeInit PROVE LifeInv
  OBVIOUS
<1>1. TypeOK /\ Walk
  BY TypeInit DEF LifeInit
<1>2. LifeTypeOK
  BY <1>1, EmptySeq DEF LifeInit, LifeTypeOK
<1>3. Busy /\ BatchOverdue
  BY DEF LifeInit, Busy, BatchOverdue
<1>4. \A r \in Request : InOrder(r)
  BY DEF LifeInit, Init, InOrder, OneCall, RowIsLast, Answered, MarkedOverdue,
         Acquiring, Undoing
<1> QED BY <1>1, <1>2, <1>3, <1>4 DEF LifeInv

LEMMA LifeInvNext == LifeInv /\ [LifeNext]_allVars => LifeInv'
BY LifeTypeNext, InOrderNext, BatchOverdueNext DEF LifeInv

LEMMA LifeInvAlways == LifeSpec => []LifeInv
BY LifeInvInit, LifeInvNext, PTL DEF LifeSpec

-----------------------------------------------------------------------------
(* Theorems *)

\* The states of CreateHold, of the rows and of the sweepers' batches are the
\* ones the code has names for, and the store below stays well-typed.
THEOREM LifeTypeCorrect == LifeSpec => []LifeTypeOK
<1>1. LifeInv => LifeTypeOK
  BY DEF LifeInv
<1> QED BY <1>1, LifeInvAlways, PTL

\* hold_service.go and hold_sweeper.go drive Redis only by the calls of the
\* adapter, and a request only by its own: what FastHold promises holds below
\* them, too.
THEOREM ImplementsFastHold == LifeSpec => Spec
<1>1. LifeInit => Init
  BY DEF LifeInit
<1>2. LifeInv /\ [LifeNext]_allVars => [Next]_vars
  BY LifeStepIsStep DEF LifeInv
<1> QED BY <1>1, <1>2, LifeInvAlways, PTL DEF LifeSpec, Spec

\* Nobody takes the rooms or the row of a hold that was answered and has time
\* left: an answered hold is untouched, so its token list names all nights.
THEOREM PromisesAreKept == LifeSpec => []PromiseKept
<1>1. LifeInv /\ HeldIsReleasable => PromiseKept
  <2> SUFFICES ASSUME LifeInv, HeldIsReleasable, NEW r \in Request,
                      svc[r] = "created", expires[r] > 0
               PROVE  /\ pc[r] = "held"
                      /\ \A k \in StayNights(r) : Pushed(r, k) # {}
                      /\ row[r] # "EXPIRED"
    BY DEF PromiseKept
  <2>1. InOrder(r)
    BY DEF LifeInv
  <2>2. pc[r] = "held" /\ row[r] # "EXPIRED"
    BY <2>1 DEF InOrder, Answered, MarkedOverdue
  <2>3. \A k \in StayNights(r) : Pushed(r, k) # {}
    BY <2>2 DEF HeldIsReleasable, Active
  <2> QED BY <2>2, <2>3
<1> QED BY <1>1, LifeInvAlways, ImplementsFastHold, HoldsAreReleasable, PTL

\* The valid holds that clients were answered with are valid holds of Redis:
\* as long as no acquisition outlasts a tick, no night is promised twice.
THEOREM NeverDoublePromised == ~ SlowAcquire /\ LifeSpec => []NoDoublePromise
<1>1. LifeInv /\ NoOversell => NoDoublePromise
  <2> SUFFICES ASSUME LifeInv, NoOversell, NEW k \in Night
               PROVE  Cardinality(Promised(k)) <= Capacity
    BY DEF NoDoublePromise
  <2>1. Promised(k) \subseteq Guests(k)
    BY DEF LifeInv, InOrder, Answered, Promised, Guests, Active
  <2>2. IsFiniteSet(Guests(k))
    BY FS_Subset, RequestAssumption DEF Guests
  <2>3. /\ Cardinality(Promised(k)) <= Cardinality(Guests(k))
        /\ Cardinality(Guests(k)) \in Nat /\ Cardinality(Promised(k)) \in Nat
    BY <2>1, <2>2, FS_Subset, FS_CardinalityType
  <2>4. Cardinality(Guests(k)) <= Capacity
    BY DEF NoOversell
  <2> QED BY <2>3, <2>4, NumbersAssumption
<1> QED BY <1>1, LifeInvAlways, ImplementsFastHold, NeverOversold, PTL

LEMMA FailedIsCleanNext ==
  ASSUME Faults \subseteq {"lost"}, LifeInv, FailedIsClean, [LifeNext]_allVars
  PROVE  FailedIsClean'
<1> SUFFICES ASSUME NEW q \in Request, svc'[q] = "error"
             PROVE  Of(q)' = {}
  BY DEF FailedIsClean
<1>0. /\ LifeTypeOK /\ Busy /\ InOrder(q)
      /\ svc = [r \in Request |-> svc[r]]
      /\ "down" \notin Faults /\ "crash" \notin Faults
  BY DEF LifeInv, LifeTypeOK
<1>1. ReleaseScript(q) => Of(q)' = {}
  BY DEF ReleaseScript, Of
<1>2. ASSUME NEW r \in Request, RequestStep(r)
      PROVE  Of(q)' = {}
  <2>1. CASE r # q
    BY <1>0, <1>2, <2>1, RequestTouches DEF FailedIsClean
  <2>2. CASE r = q /\ (\/ Start(q) \/ Persist(q) \/ PersistError(q)
                        \/ PersistConflict(q) \/ ServiceCrash(q))
    BY <1>0, <2>2 DEF Start, Persist, PersistError, PersistConflict, ServiceCrash
  <2>3. CASE r = q /\ AcquireStep(q)
    <3>1. pc[q] \in Acquiring \cup Undoing
      BY <2>3 DEF AcquireStep, HoldGranted, HoldRefused, HoldError, UndoDone,
                  UndoError, Crash
    <3>2. svc[q] = "acquire"
      BY <1>0, <3>1 DEF InOrder, OneCall
    <3>3. pc'[q] = "idle"
      BY <1>0, <2>3, <3>2 DEF AcquireStep
    <3>4. UndoDone(q) \/ UndoError(q)
      BY <1>0, <2>3, <3>3 DEF AcquireStep, HoldGranted, HoldRefused, HoldError, Crash,
                              LifeTypeOK, TypeOK
    <3>5. ReleaseScript(q)
      BY <1>0, <3>4 DEF UndoDone, UndoError
    <3> QED BY <1>1, <3>5
  <2>4. CASE r = q /\ (Compensate(q) \/ CompensateError(q))
    BY <1>0, <1>1, <2>4 DEF Compensate, CompensateError, Release
  <2>5. CASE r = q /\ UpdateStatus(q)
    BY <1>0, <2>5 DEF UpdateStatus
  <2> QED BY <1>2, <2>1, <2>2, <2>3, <2>4, <2>5 DEF RequestStep, Serve
<1>3. ASSUME NEW w \in Worker, WorkerStep(w)
      PROVE  Of(q)' = {}
  <2>1. Of(q) = {}
    BY <1>3, WorkerTouches DEF FailedIsClean
  <2>2. index' \subseteq index
    BY <1>3, WorkerTouches DEF vars, Release, ReleaseScript
  <2> QED BY <2>1, <2>2 DEF Of
<1>4. CASE LifeTick
  BY <1>4 DEF LifeTick, lifeVars, Tick, DropExpired, FailedIsClean, Of
<1>5. CASE UNCHANGED allVars
  BY <1>5 DEF allVars, vars, FailedIsClean, Of
<1> QED BY <1>2, <1>3, <1>4, <1>5 DEF LifeNext, RequestStep, WorkerStep

\* CreateHold's compensation and AcquireFastHold's rollback leave no token
\* behind a failed request, as long as each of their scripts runs, whatever
\* replies are lost: without the proviso (Redis down, a process dead) the
\* TTLs have to do it.
THEOREM FailuresLeaveNothing ==
  Faults \subseteq {"lost"} /\ LifeSpec => []NothingLeftBehind
<1>1. LifeInit => FailedIsClean
  BY DEF LifeInit, FailedIsClean
<1>2. FailedIsClean => NothingLeftBehind
  BY DEF FailedIsClean, NothingLeftBehind
<1>3. CASE Faults \subseteq {"lost"}
  <2>1. LifeInv /\ FailedIsClean /\ [LifeNext]_allVars => FailedIsClean'
    BY <1>3, FailedIsCleanNext
  <2> QED BY <1>1, <1>2, <2>1, LifeInvAlways, PTL DEF LifeSpec
<1>4. CASE ~ (Faults \subseteq {"lost"})
  BY <1>4, PTL
<1> QED BY <1>3, <1>4
=============================================================================
