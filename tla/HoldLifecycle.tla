--------------------------- MODULE HoldLifecycle ----------------------------
(***************************************************************************)
(* The life of a hold over both stores: HoldService.CreateHold takes the   *)
(* Redis hold (module FastHold), writes the reservation row in PostgreSQL  *)
(* and compensates when that fails; sweeper replicas poll the expired      *)
(* rows, release their tokens and mark them EXPIRED; a later step of the   *)
(* booking confirms a row.                                                 *)
(*                                                                         *)
(* FastHold is extended: every action here is one of its actions, or       *)
(* leaves its variables alone, and adds what the Go services do around it. *)
(***************************************************************************)
EXTENDS FastHold, Sequences, SequencesExt

CONSTANTS
    Worker,       \* replicas of cmd/worker
    BatchSize     \* batchSize of SweepExpiredHolds

ASSUME WorkerAssumption == IsFiniteSet(Worker)
ASSUME BatchAssumption  == BatchSize \in Nat \ {0}

VARIABLES
    svc,          \* where CreateHold is for the request
    row,          \* status of the request's reservation row
    batch,        \* [Worker -> Seq(Request)]  expired rows still to process
    at            \* where the worker is with the first of them

lifeVars == <<svc, row, batch, at>>
allVars  == <<vars, svc, row, batch, at>>

Compensating == {"comp_sha", "comp_eval"}
SweepStep    == {"rel_sha", "rel_eval", "mark"}

LifeTypeOK ==
    /\ TypeOK
    /\ svc \in [Request -> {"new", "acquire", "created", "error"} \cup Compensating]
    /\ row \in [Request -> {"none", "INVENTORY_HOLD", "EXPIRED", "CONFIRMED"}]
    /\ batch \in [Worker -> Seq(Request)]
    /\ at \in [Worker -> {"idle"} \cup SweepStep]

LifeInit ==
    /\ Init
    /\ svc = [r \in Request |-> "new"]
    /\ row = [r \in Request |-> "none"]
    /\ batch = [w \in Worker |-> <<>>]
    /\ at = [w \in Worker |-> "idle"]

-----------------------------------------------------------------------------
(* HoldService.CreateHold *)

\* A POST /api/v1/holds that passed validation.
Start(r) ==
    /\ svc[r] = "new"
    /\ \E i \in Night, o \in 2 .. N + 1 : Begin(r, i, o)
    /\ svc' = [svc EXCEPT ![r] = "acquire"]
    /\ UNCHANGED <<row, batch, at>>

\* A step inside AcquireFastHold; without a token CreateHold is over too.
AcquireStep(r) ==
    /\ \/ HoldGranted(r) \/ HoldRefused(r) \/ HoldError(r)
       \/ UndoDone(r) \/ UndoError(r)
    /\ svc' = [svc EXCEPT ![r] = IF pc'[r] = "idle" THEN "error" ELSE @]
    /\ UNCHANGED <<row, batch, at>>

\* Mutation: the release is deferred and also runs when the insert succeeds.
PersistAndRelease(r) ==
    /\ svc[r] = "acquire" /\ pc[r] = "held"
    /\ Release(r)
    /\ row' = [row EXCEPT ![r] = "INVENTORY_HOLD"]
    /\ svc' = [svc EXCEPT ![r] = "created"]
    /\ UNCHANGED <<batch, at>>

\* reservationRepo.CreateHold inserts the row.
Persist(r) ==
    /\ svc[r] = "acquire" /\ pc[r] = "held"
    /\ row' = [row EXCEPT ![r] = "INVENTORY_HOLD"]
    /\ svc' = [svc EXCEPT ![r] = "created"]
    /\ UNCHANGED <<vars, batch, at>>

\* Mutation: the error is returned without the compensation.
PersistErrorOnly(r) ==
    /\ svc[r] = "acquire" /\ pc[r] = "held"
    /\ \/ "down" \in Faults /\ UNCHANGED row
       \/ "lost" \in Faults
    /\ svc' = [svc EXCEPT ![r] = "error"]
    /\ UNCHANGED <<vars, row, batch, at>>

\* ... or errs: the row is missing, or was committed and the answer lost.
PersistError(r) ==
    /\ svc[r] = "acquire" /\ pc[r] = "held"
    /\ \/ "down" \in Faults /\ UNCHANGED row
       \/ "lost" \in Faults /\ row' = [row EXCEPT ![r] = "INVENTORY_HOLD"]
    /\ svc' = [svc EXCEPT ![r] = "comp_sha"]
    /\ UNCHANGED <<vars, batch, at>>

\* ... or is refused, because the booking reference it drew is taken.
PersistConflict(r) ==
    /\ svc[r] = "acquire" /\ pc[r] = "held"
    /\ svc' = [svc EXCEPT ![r] = "comp_sha"]
    /\ UNCHANGED <<vars, row, batch, at>>

\* The compensation: ReleaseFastHold under a detached context.
Compensate(r) ==
    /\ svc[r] \in Compensating
    /\ Release(r)
    /\ svc' = [svc EXCEPT ![r] = "error"]
    /\ UNCHANGED <<row, batch, at>>

CompensateError(r) ==
    /\ svc[r] \in Compensating
    /\ \/ "lost" \in Faults /\ Release(r)
       \/ "down" \in Faults /\ UNCHANGED vars
    /\ svc' = [svc EXCEPT ![r] = IF @ = "comp_sha" THEN "comp_eval" ELSE "error"]
    /\ UNCHANGED <<row, batch, at>>

\* The API process dies inside AcquireFastHold, or between the Redis hold and
\* the end of CreateHold.
ServiceCrash(r) ==
    /\ "crash" \in Faults
    /\ \/ Crash(r)
       \/ /\ svc[r] \in Compensating \/ (svc[r] = "acquire" /\ pc[r] = "held")
          /\ UNCHANGED vars
    /\ svc' = [svc EXCEPT ![r] = "error"]
    /\ UNCHANGED <<row, batch, at>>

\* ReservationRepository.UpdateStatus(INVENTORY_HOLD -> CONFIRMED), guarded
\* by the old status; the caller is a step of the booking that was answered.
UpdateStatus(r) ==
    /\ svc[r] = "created"
    /\ row[r] = "INVENTORY_HOLD"
    /\ row' = [row EXCEPT ![r] = "CONFIRMED"]
    /\ UNCHANGED <<vars, svc, batch, at>>

-----------------------------------------------------------------------------
(* HoldSweeperService.SweepExpiredHolds *)

\* Mutation: the query forgets hold_expires_at <= cutoff.
DueAnyTime == {r \in Request : row[r] = "INVENTORY_HOLD"}

\* WHERE status = 'INVENTORY_HOLD' AND hold_expires_at <= cutoff.
Due == {r \in Request : row[r] = "INVENTORY_HOLD" /\ expires[r] = 0}

\* GetExpiredHolds, LIMIT BatchSize; SKIP LOCKED passes over rows that another
\* statement has locked at that instant.  The statement commits at once, so
\* its own row locks are gone before the first row is processed: every replica
\* may fetch every due row.  ORDER BY hold_expires_at: the age of a due row is
\* not part of the state, so any order stands for the oldest first.
Fetch(w) ==
    /\ at[w] = "idle"
    /\ \E B \in (SUBSET Due) \ {{}} :
         /\ Cardinality(B) <= BatchSize
         /\ \E q \in SetToSeqs(B) : batch' = [batch EXCEPT ![w] = q]
    /\ at' = [at EXCEPT ![w] = "rel_sha"]
    /\ UNCHANGED <<vars, svc, row>>

\* ReleaseFastHold of the row's token.
SweepRelease(w) ==
    /\ at[w] \in {"rel_sha", "rel_eval"}
    /\ Release(Head(batch[w]))
    /\ at' = [at EXCEPT ![w] = "mark"]
    /\ UNCHANGED <<svc, row, batch>>

\* A release that errs twice is only logged: the row is marked all the same.
SweepReleaseError(w) ==
    /\ at[w] \in {"rel_sha", "rel_eval"}
    /\ \/ "lost" \in Faults /\ Release(Head(batch[w]))
       \/ "down" \in Faults /\ UNCHANGED vars
    /\ at' = [at EXCEPT ![w] = IF @ = "rel_sha" THEN "rel_eval" ELSE "mark"]
    /\ UNCHANGED <<svc, row, batch>>

NextRow(w) ==
    /\ batch' = [batch EXCEPT ![w] = Tail(@)]
    /\ at' = [at EXCEPT ![w] = IF Len(batch[w]) > 1 THEN "rel_sha" ELSE "idle"]

\* Mutation: the UPDATE is guarded by a status that expired holds never have.
MarkPendingExpired(r) ==
    row' = [row EXCEPT ![r] = IF @ = "PAYMENT_PENDING" THEN "EXPIRED" ELSE @]

\* MarkReservationExpired: UPDATE ... WHERE id = $1, whatever the status.
MarkExpired(r) == row' = [row EXCEPT ![r] = "EXPIRED"]

SweepMark(w) ==
    /\ at[w] = "mark"
    /\ MarkExpired(Head(batch[w]))
    /\ NextRow(w)
    /\ UNCHANGED <<vars, svc>>

\* A mark that errs is skipped; the next sweep finds the row again.
SweepMarkError(w) ==
    /\ at[w] = "mark"
    /\ \/ "lost" \in Faults /\ MarkExpired(Head(batch[w]))
       \/ "down" \in Faults /\ UNCHANGED row
    /\ NextRow(w)
    /\ UNCHANGED <<vars, svc>>

WorkerCrash(w) ==
    /\ "crash" \in Faults
    /\ at[w] # "idle"
    /\ at' = [at EXCEPT ![w] = "idle"]
    /\ batch' = [batch EXCEPT ![w] = <<>>]
    /\ UNCHANGED <<vars, svc, row>>

-----------------------------------------------------------------------------

LifeTick == Tick /\ UNCHANGED lifeVars

Serve(r) ==
    \/ AcquireStep(r) \/ Persist(r) \/ PersistError(r) \/ PersistConflict(r)
    \/ Compensate(r) \/ CompensateError(r)

Sweep(w) ==
    \/ Fetch(w) \/ SweepRelease(w) \/ SweepReleaseError(w)
    \/ SweepMark(w) \/ SweepMarkError(w)

LifeNext ==
    \/ \E r \in Request : Start(r) \/ Serve(r) \/ ServiceCrash(r) \/ UpdateStatus(r)
    \/ \E w \in Worker : Sweep(w) \/ WorkerCrash(w)
    \/ LifeTick

LifeSpec == LifeInit /\ [][LifeNext]_allVars

\* Time passes; a request that is running goes on; the worker's ticker fires
\* and its sweep goes on; and neither Redis nor the database nor a crash stops
\* a worker at the same statement forever.  Nobody promises that a request
\* comes, that a row is confirmed or that a process dies.
Fairness ==
    /\ WF_allVars(LifeTick)
    /\ \A r \in Request : WF_allVars(Serve(r))
    /\ \A w \in Worker : /\ WF_allVars(Sweep(w))
                          /\ SF_allVars(SweepRelease(w))
                          /\ SF_allVars(SweepMark(w))

LifeFairSpec == LifeSpec /\ Fairness

-----------------------------------------------------------------------------
(* Properties *)

\* The holds that clients were told about, still in INVENTORY_HOLD and valid.
Promised(k) ==
    {r \in Request : /\ svc[r] = "created" /\ row[r] = "INVENTORY_HOLD"
                     /\ expires[r] > 0 /\ k \in StayNights(r)}

\* README "zero overselling", end to end: the valid holds that clients were
\* answered with never exceed the capacity, whatever the sweepers, retries
\* and compensations of other requests did meanwhile.
NoDoublePromise == \A k \in Night : Cardinality(Promised(k)) <= Capacity

\* Nobody - no sweeper replica, no late compensation - takes rooms or row
\* away from a hold that was answered with 201 and has not expired.
PromiseKept ==
    \A r \in Request : svc[r] = "created" /\ expires[r] > 0 =>
        /\ pc[r] = "held"
        /\ \A k \in StayNights(r) : Pushed(r, k) # {}
        /\ row[r] # "EXPIRED"

\* hold_service.go: "no capacity is ever left decremented without a
\* corresponding reservation record" once CreateHold has ended in an error.
NothingLeftBehind ==
    \A r \in Request : svc[r] = "error" /\ row[r] = "none" => Of(r) = {}

\* Every hold that runs out leaves INVENTORY_HOLD, whatever single calls of
\* the sweep fail.
EveryHoldEnds ==
    \A r \in Request : (row[r] = "INVENTORY_HOLD" /\ expires[r] = 0)
                          ~> row[r] # "INVENTORY_HOLD"

\* When requests stop coming, Redis forgets whatever faults, leaks and lost
\* rollbacks left in it: the damage of a fault is bounded by the key TTLs.
SelfHealing ==
    <>[](index = {} /\ \A k \in Night : count[k] = 0)

\* PROGRESS.md task 1.8, "Redis fast-path capacity reclamation": a row that
\* a sweep marks EXPIRED has no unit of its nights left in the counters, so
\* those hold nothing beyond the tokens that are still alive.
SweepReclaims ==
    [][\A r \in Request : row[r] # "EXPIRED" /\ row'[r] = "EXPIRED" =>
          \A k \in StayNights(r) : Untracked(k) = 0]_allVars

=============================================================================
