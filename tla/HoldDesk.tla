------------------------------ MODULE HoldDesk ------------------------------
(***************************************************************************)
(* POST /v1/reservations/hold: what HoldHandler does around the hold of    *)
(* module HoldLifecycle, for one room type.  It checks the request, chooses*)
(* the capacity that Layer 1 compares with, and turns the outcome into a   *)
(* status.  The idempotency middleware in front of it is module Idempotency.*)
(*                                                                         *)
(* NewRouter gives the handler no property repository, so that the handler *)
(* never looks the room type up: Capacity is its fallback of 100, whatever *)
(* Units the room type has.                                                *)
(***************************************************************************)
EXTENDS HoldLifecycle

CONSTANT Units    \* total_inventory of the room type

ASSUME UnitsAssumption == Units \in Nat

VARIABLES
    answer,       \* status each request was answered with, 0 before
    conflict      \* the requests whose error is one of the two that mean 409

deskVars == <<allVars, answer, conflict>>

DeskTypeOK ==
    /\ LifeTypeOK
    /\ answer \in [Request -> {0, 201, 400, 409, 422, 500}]
    /\ conflict \subseteq Request

\* A request body: can it be read (JSON, ids, dates), is its stay in order and
\* not in the past, is there a guest's name and phone number?
Body == [readable : BOOLEAN, dates : {"ahead", "past", "reversed"}, guest : BOOLEAN]

\* The status a request is refused with before anything is done, 0 for none.
Refusal(body) ==
    IF ~body.readable THEN 400
    ELSE IF body.dates # "ahead" THEN 422
    ELSE IF ~body.guest THEN 400 ELSE 0

Refusals == {Refusal(body) : body \in Body} \ {0}

DeskInit ==
    /\ LifeInit
    /\ answer = [r \in Request |-> 0]
    /\ conflict = {}

TurnAway(r) ==
    /\ svc[r] = "new"
    /\ answer[r] = 0
    /\ \E status \in Refusals : answer' = [answer EXCEPT ![r] = status]
    /\ UNCHANGED <<allVars, conflict>>

Post(r) ==
    /\ answer[r] = 0
    /\ Start(r)
    /\ UNCHANGED <<answer, conflict>>

\* Mutation: every error of CreateHold is a conflict.
StatusOfAnyError(r) ==
    CASE svc'[r] = "created" -> 201
      [] svc'[r] = "error"   -> 409
      [] OTHER               -> 0

\* errors.Is on what CreateHold returns, 0 as long as it runs.
Status(r) ==
    CASE svc'[r] = "created"                    -> 201
      [] svc'[r] = "error" /\ r \in conflict'     -> 409
      [] svc'[r] = "error" /\ r \notin conflict'  -> 500
      [] OTHER                                  -> 0

\* What CreateHold will return: ErrInventoryUnavailable when a night is sold
\* out, ErrConflict when the booking reference is taken, and neither when the
\* compensation errs, since its error hides the one before ("%v").  A step may
\* look like one that erred, which is another error.
Err(r) ==
    \/ (HoldRefused(r) \/ PersistConflict(r)) /\ conflict' = conflict \cup {r}
    \/ CompensateError(r) /\ svc'[r] = "error" /\ conflict' = conflict \ {r}
    \/ /\ HoldRefused(r) => HoldError(r)
       /\ PersistConflict(r) => PersistError(r)
       /\ CompensateError(r) /\ svc'[r] = "error" => Compensate(r)
       /\ UNCHANGED conflict

\* A step of CreateHold, and the answer when it returns.  A process that dies
\* before it has answered leaves the guest without an answer.
Handle(r) ==
    /\ Serve(r)
    /\ Err(r)
    /\ \/ answer' = [answer EXCEPT ![r] = Status(r)]
       \/ "crash" \in Faults /\ UNCHANGED answer

DeskNext ==
    \/ \E r \in Request : TurnAway(r) \/ Post(r) \/ Handle(r)
    \/ /\ \/ \E r \in Request : ServiceCrash(r) \/ UpdateStatus(r)
          \/ \E w \in Worker : Sweep(w) \/ WorkerCrash(w)
          \/ LifeTick
       /\ UNCHANGED <<answer, conflict>>

DeskSpec == DeskInit /\ [][DeskNext]_deskVars

-----------------------------------------------------------------------------
(* Properties *)

\* After 201 there is a reservation, and until its hold runs out it has a unit
\* of every night ...
YesIsTrue(r) ==
    answer[r] = 201 =>
        /\ row[r] # "none"
        /\ expires[r] > 0 => \A k \in StayNights(r) : Pushed(r, k) # {}

\* ... after 400, 409 or 422 there is none, and no unit is left taken.  (After a
\* 500 there may be one: its INSERT was done and the answer to it lost.)
NoIsTrue(r) ==
    answer[r] \in {400, 409, 422} => row[r] = "none" /\ Of(r) = {}

\* hold_handler.go answers by the error of CreateHold alone: what the guest is
\* told is true, whatever was retried, rolled back and swept on the way.
AnswersAreTrue == \A r \in Request : YesIsTrue(r) /\ NoIsTrue(r)

\* test/e2e TestCreateHold_ConcurrentExhaustion_Returns409, "expected exactly 2
\* successful holds for 2-unit inventory": never more valid holds are answered
\* with 201 than the room type has units on a night.
WithinUnits ==
    \A k \in Night :
        Cardinality({r \in Guests(k) : answer[r] = 201}) <= Units
=============================================================================
