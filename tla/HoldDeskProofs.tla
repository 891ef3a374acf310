--------------------------- MODULE HoldDeskProofs ----------------------------
(***************************************************************************)
(* Theorems about HoldDesk: the handler implements HoldLifecycle, so that  *)
(* what is proved there holds behind it, and its answers are true.         *)
(***************************************************************************)
EXTENDS HoldDesk, HoldLifecycleProofs

-----------------------------------------------------------------------------
(* The inductive invariant *)

\* An answer is given where the call is over, or has not begun ...
AnswerFits(r) ==
    /\ answer[r] = 201 => svc[r] = "created"
    /\ answer[r] \in {400, 422} => svc[r] = "new"
    /\ answer[r] = 409 => svc[r] = "error" /\ r \in conflict

\* ... a request that Layer 1 or its reference refused is undone, and never gets
\* a row ...
RefusedIsUndone(r) ==
    r \in conflict => /\ row[r] = "none"
                      /\ \/ svc[r] \in {"error"} \cup Compensating
                         \/ svc[r] = "acquire" /\ pc[r] \in Undoing

\* ... CreateHold returns a result only after the INSERT ...
CreatedHasRow(r) == svc[r] = "created" => row[r] # "none"

\* ... and a request that was not begun has taken nothing.
NewIsClean(r) == svc[r] = "new" => Of(r) = {}

AtDesk(r) ==
    AnswerFits(r) /\ RefusedIsUndone(r) /\ CreatedHasRow(r) /\ NewIsClean(r)

DeskInv == DeskTypeOK /\ \A r \in Request : AtDesk(r)

-----------------------------------------------------------------------------
(* The desk implements the life of the hold *)

LEMMA DeskStepIsLifeStep == [DeskNext]_deskVars => [LifeNext]_allVars
BY DEF DeskNext, deskVars, TurnAway, Post, Handle, LifeNext

\* HoldHandler adds answers to CreateHold and nothing else: whatever is promised
\* of holds, rows and sweepers is promised behind the handler, too.
THEOREM DeskImplementsLife == DeskSpec => LifeSpec
<1>1. DeskInit => LifeInit
  BY DEF DeskInit
<1> QED BY <1>1, DeskStepIsLifeStep, PTL DEF DeskSpec, LifeSpec

-----------------------------------------------------------------------------
(* The invariant is inductive *)

\* What a step at the desk says of the requests it is not about.
LEMMA DeskTouches ==
  ASSUME DeskTypeOK, NEW r \in Request, TurnAway(r) \/ Post(r) \/ Handle(r)
  PROVE  \A q \in Request : q # r =>
            answer'[q] = answer[q] /\ (q \in conflict' <=> q \in conflict)
BY DEF DeskTypeOK, TurnAway, Post, Handle, Err

LEMMA DeskTypeNext ==
  ASSUME LifeTypeOK', DeskTypeOK, [DeskNext]_deskVars
  PROVE  DeskTypeOK'
<1> DEFINE Code == {0, 201, 400, 409, 422, 500}
<1>1. answer \in [Request -> Code] /\ conflict \subseteq Request
  BY DEF DeskTypeOK
<1>2. ASSUME NEW r \in Request, TurnAway(r)
      PROVE  answer' \in [Request -> Code] /\ conflict' \subseteq Request
  <2>1. Refusals \subseteq Code
    BY DEF Refusals, Refusal
  <2> QED BY <1>1, <1>2, <2>1 DEF TurnAway
<1>3. ASSUME NEW r \in Request, Handle(r)
      PROVE  answer' \in [Request -> Code] /\ conflict' \subseteq Request
  <2>1. Status(r) \in Code
    BY DEF Status
  <2> QED BY <1>1, <1>3, <2>1 DEF Handle, Err
<1>4. ASSUME NEW r \in Request, Post(r)
      PROVE  UNCHANGED <<answer, conflict>>
  BY <1>4 DEF Post
<1>5. answer' \in [Request -> Code] /\ conflict' \subseteq Request
  BY <1>1, <1>2, <1>3, <1>4 DEF DeskNext, deskVars
<1> QED BY <1>5 DEF DeskTypeOK

\* The rollback of a refused request goes on until the call is over.
LEMMA UndoGoesOn ==
  ASSUME LifeTypeOK, NEW r \in Request, InOrder(r), Serve(r),
         pc[r] \in Undoing, svc[r] = "acquire"
  PROVE  /\ ~ HoldRefused(r) /\ row' = row
         /\ svc'[r] = "error" \/ (svc'[r] = "acquire" /\ pc'[r] \in Undoing)
<1>1. UndoDone(r) \/ UndoError(r)
  BY DEF Serve, AcquireStep, HoldGranted, HoldRefused, HoldError, Persist,
         PersistError, PersistConflict, Compensate, CompensateError, Undoing,
         Acquiring, Compensating
<1>2. AcquireStep(r)
  BY DEF Serve, Persist, PersistError, PersistConflict, Compensate, CompensateError,
             Undoing, Compensating
<1>3. pc'[r] = "idle" \/ pc'[r] = "undo_eval"
  BY <1>1 DEF UndoDone, UndoError, NoToken, LifeTypeOK, TypeOK
<1>4. svc'[r] = IF pc'[r] = "idle" THEN "error" ELSE svc[r]
  BY <1>2 DEF AcquireStep, LifeTypeOK
<1> QED BY <1>2, <1>3, <1>4 DEF AcquireStep, HoldRefused, Undoing, Acquiring

\* So does the compensation of one whose INSERT was refused.
LEMMA CompensationGoesOn ==
  ASSUME LifeTypeOK, NEW r \in Request, InOrder(r), Serve(r), svc[r] \in Compensating
  PROVE  /\ Compensate(r) \/ CompensateError(r)
         /\ row' = row /\ svc'[r] \in {"error"} \cup Compensating
<1>1. svc[r] # "acquire"
  BY DEF Compensating
<1>2. pc[r] \notin Acquiring \cup Undoing
  BY <1>1 DEF InOrder, OneCall
<1>3. Compensate(r) \/ CompensateError(r)
  BY <1>1, <1>2 DEF Serve, AcquireStep, HoldGranted, HoldRefused, HoldError,
                    UndoDone, UndoError, Persist, PersistError, PersistConflict
<1> QED BY <1>3 DEF Compensate, CompensateError, LifeTypeOK, Compensating

\* CreateHold returns a result by its INSERT only, and other steps of it leave
\* the row alone.
LEMMA ServeSteps ==
  ASSUME LifeTypeOK, NEW r \in Request, InOrder(r), Serve(r)
  PROVE  /\ svc[r] \in {"acquire"} \cup Compensating
         /\ svc'[r] \in {"acquire", "created", "error"} \cup Compensating
         /\ svc'[r] = "created" => row'[r] = "INVENTORY_HOLD"
<1>1. svc = [q \in Request |-> svc[q]] /\ row = [q \in Request |-> row[q]]
  BY DEF LifeTypeOK
<1>2. CASE AcquireStep(r)
  <2>1. pc[r] \in Acquiring \cup Undoing
    BY <1>2 DEF AcquireStep, HoldGranted, HoldRefused, HoldError, UndoDone, UndoError
  <2>2. svc[r] = "acquire"
    BY <2>1 DEF InOrder, OneCall
  <2>3. svc'[r] \in {"acquire", "error"}
    BY <1>1, <1>2, <2>2 DEF AcquireStep
  <2> QED BY <2>2, <2>3
<1>3. CASE Persist(r) \/ PersistError(r) \/ PersistConflict(r)
  BY <1>1, <1>3 DEF Persist, PersistError, PersistConflict, Compensating
<1>4. CASE Compensate(r) \/ CompensateError(r)
  BY <1>1, <1>4 DEF Compensate, CompensateError, Compensating
<1> QED BY <1>2, <1>3, <1>4 DEF Serve

LEMMA HandleKeeps ==
  ASSUME LifeInv, DeskInv, NEW r \in Request, Handle(r)
  PROVE  AtDesk(r)'
<1>0. LifeTypeOK /\ InOrder(r) /\ DeskTypeOK /\ AtDesk(r) /\ Serve(r)
  BY DEF LifeInv, DeskInv, Handle
<1>1. /\ svc[r] \in {"acquire"} \cup Compensating
      /\ svc'[r] \in {"acquire", "created", "error"} \cup Compensating
      /\ svc'[r] = "created" => row'[r] = "INVENTORY_HOLD"
  BY <1>0, ServeSteps
<1>2. svc[r] \notin {"new", "created", "error"} /\ svc'[r] # "new"
  BY <1>1 DEF Compensating
<1>3. CreatedHasRow(r)' /\ NewIsClean(r)'
  BY <1>1, <1>2 DEF CreatedHasRow, NewIsClean
<1>4. RefusedIsUndone(r)'
  <2>1. CASE r \in conflict
    <3>1. /\ row[r] = "none"
          /\ svc[r] \in Compensating \/ (pc[r] \in Undoing /\ svc[r] = "acquire")
      BY <1>0, <1>2, <2>1 DEF AtDesk, RefusedIsUndone
    <3>2. CASE svc[r] \in Compensating
      BY <1>0, <3>1, <3>2, CompensationGoesOn DEF RefusedIsUndone
    <3>3. CASE pc[r] \in Undoing /\ svc[r] = "acquire"
      BY <1>0, <3>1, <3>3, UndoGoesOn DEF RefusedIsUndone
    <3> QED BY <3>1, <3>2, <3>3
  <2>2. CASE r \notin conflict /\ r \in conflict' /\ PersistConflict(r)
    <3>1. row[r] = "none"
      BY <1>0, <2>2 DEF PersistConflict, InOrder, RowIsLast
    <3> QED BY <1>0, <2>2, <3>1
         DEF PersistConflict, LifeTypeOK, RefusedIsUndone, Compensating
  <2>3. CASE r \notin conflict /\ r \in conflict' /\ ~ PersistConflict(r)
    <3>1. HoldRefused(r)
      BY <2>3 DEF Handle, Err
    <3>2. pc[r] \in Acquiring /\ pc'[r] = "undo_sha"
      BY <1>0, <3>1 DEF HoldRefused, LifeTypeOK, TypeOK
    <3>3. svc[r] = "acquire" /\ row[r] = "none"
      BY <1>0, <3>2 DEF InOrder, OneCall, RowIsLast
    <3>4. AcquireStep(r)
      BY <1>0, <3>2 DEF Serve, Persist, PersistError, PersistConflict, Compensate,
                        CompensateError, Release, Ended, Acquiring, vars, Undoing, Compensating
    <3>5. row' = row /\ svc'[r] = "acquire"
      BY <1>0, <3>2, <3>3, <3>4 DEF AcquireStep, LifeTypeOK
    <3> QED BY <3>2, <3>3, <3>5 DEF RefusedIsUndone, Undoing
  <2> QED BY <2>1, <2>2, <2>3 DEF RefusedIsUndone
<1>5. AnswerFits(r)'
  <2>1. answer[r] \notin {201, 400, 409, 422}
    BY <1>0, <1>2 DEF AtDesk, AnswerFits
  <2>2. answer'[r] = answer[r] \/ answer'[r] = Status(r)
    BY <1>0 DEF Handle, DeskTypeOK
  <2>3. /\ Status(r) = 201 => svc'[r] = "created"
        /\ Status(r) = 409 => svc'[r] = "error" /\ r \in conflict'
        /\ Status(r) \notin {400, 422}
    BY DEF Status
  <2> QED BY <2>1, <2>2, <2>3 DEF AnswerFits
<1> QED BY <1>3, <1>4, <1>5 DEF AtDesk

LEMMA AtDeskNext ==
  ASSUME LifeInv, DeskInv, [DeskNext]_deskVars, NEW q \in Request
  PROVE  AtDesk(q)'
<1>0. /\ LifeTypeOK /\ InOrder(q) /\ DeskTypeOK /\ AtDesk(q) /\ Busy /\ BatchOverdue
      /\ svc = [r \in Request |-> svc[r]]
  BY DEF LifeInv, DeskInv, LifeTypeOK
<1> USE DEF AtDesk, AnswerFits, RefusedIsUndone, CreatedHasRow, NewIsClean
<1>1. ASSUME NEW r \in Request, r # q, TurnAway(r) \/ Post(r) \/ Handle(r)
      PROVE  AtDesk(q)'
  <2>1. answer'[q] = answer[q] /\ (q \in conflict' <=> q \in conflict)
    BY <1>0, <1>1, DeskTouches
  <2>2. RequestStep(r) \/ UNCHANGED allVars
    BY <1>1 DEF TurnAway, Post, Handle, RequestStep
  <2>3. /\ svc'[q] = svc[q] /\ row'[q] = row[q] /\ pc'[q] = pc[q] /\ Of(q)' = Of(q)
    BY <1>0, <1>1, <2>2, RequestTouches DEF allVars, vars, Of
  <2> QED BY <1>0, <2>1, <2>3
<1>2. CASE TurnAway(q)
  <2>1. UNCHANGED allVars /\ conflict' = conflict /\ svc[q] = "new"
    BY <1>2 DEF TurnAway
  <2>2. answer'[q] \in {400, 422}
    BY <1>0, <1>2 DEF TurnAway, Refusals, Refusal, DeskTypeOK
  <2> QED BY <1>0, <2>1, <2>2 DEF allVars, vars, Of
<1>3. CASE Post(q)
  <2>1. svc[q] = "new" /\ svc'[q] = "acquire" /\ answer'[q] = 0 /\ conflict' = conflict
    BY <1>0, <1>3 DEF Post, Start
  <2>2. q \notin conflict
    BY <1>0, <2>1 DEF Compensating
  <2> QED BY <1>0, <2>1, <2>2
<1>4. CASE Handle(q)
  BY <1>4, HandleKeeps
<1>5. ASSUME NEW r \in Request, ServiceCrash(r) \/ UpdateStatus(r),
             UNCHANGED <<answer, conflict>>
      PROVE  AtDesk(q)'
  <2>1. CASE r # q
    BY <1>0, <1>5, <2>1, RequestTouches DEF RequestStep
  <2>2. CASE r = q /\ ServiceCrash(q)
    <3>1. svc[q] \in {"acquire"} \cup Compensating
      BY <1>0, <2>2 DEF ServiceCrash, Crash, InOrder, OneCall
    <3>2. svc'[q] = "error" /\ row' = row
      BY <1>0, <2>2 DEF ServiceCrash
    <3> QED BY <1>0, <1>5, <3>1, <3>2 DEF Compensating
  <2>3. CASE r = q /\ UpdateStatus(q)
    <3>1. svc[q] = "created" /\ svc' = svc /\ row'[q] = "CONFIRMED" /\ row[q] # "none"
      BY <1>0, <2>3 DEF UpdateStatus, LifeTypeOK
    <3> QED BY <1>0, <1>5, <3>1
  <2> QED BY <1>5, <2>1, <2>2, <2>3
<1>6. ASSUME NEW w \in Worker, WorkerStep(w), UNCHANGED <<answer, conflict>>
      PROVE  AtDesk(q)'
  <2>1. svc' = svc
    BY <1>6, WorkerTouches
  <2>2. row'[q] = row[q] \/ (row[q] # "none" /\ row'[q] = "EXPIRED")
    BY <1>0, <1>6, WorkerKeeps
  <2> DEFINE h == Head(batch[w])
  <2>3. UNCHANGED vars \/ Release(h)
    BY <1>6, WorkerTouches
  <2> HIDE DEF h
  <2>4. index' \subseteq index /\ (pc[q] \in Undoing => pc'[q] = pc[q])
    <3>1. CASE UNCHANGED vars
      BY <3>1 DEF vars
    <3>2. CASE Release(h)
      <4>1. index' \subseteq index
        BY <3>2 DEF Release, ReleaseScript
      <4>2. pc[q] \in Undoing => q # h
        BY <3>2 DEF Release, Undoing, Ended
      <4>3. pc' = [pc EXCEPT ![h] = "released"] /\ pc = [r \in Request |-> pc[r]]
        BY <1>0, <3>2 DEF Release, LifeTypeOK, TypeOK
      <4> QED BY <4>1, <4>2, <4>3
    <3> QED BY <2>3, <3>1, <3>2
  <2>5. Of(q) = {} => Of(q)' = {}
    BY <2>4 DEF Of
  <2> QED BY <1>0, <1>6, <2>1, <2>2, <2>4, <2>5
<1>7. CASE LifeTick /\ UNCHANGED <<answer, conflict>>
  <2>1. UNCHANGED <<svc, row, pc>> /\ index' \subseteq index
    BY <1>7 DEF LifeTick, lifeVars, Tick, DropExpired
  <2>2. Of(q) = {} => Of(q)' = {}
    BY <2>1 DEF Of
  <2> QED BY <1>0, <1>7, <2>1, <2>2
<1>8. CASE UNCHANGED deskVars
  BY <1>0, <1>8 DEF deskVars, allVars, vars, Of
<1> QED
  BY <1>1, <1>2, <1>3, <1>4, <1>5, <1>6, <1>7, <1>8 DEF DeskNext, WorkerStep

LEMMA DeskInvAlways == DeskSpec => []DeskInv
<1>1. DeskInit => DeskInv
  <2> SUFFICES ASSUME DeskInit PROVE DeskInv
    OBVIOUS
  <2>1. LifeTypeOK
    BY LifeInvInit DEF DeskInit, LifeInv
  <2>2. DeskTypeOK
    BY <2>1 DEF DeskInit, DeskTypeOK
  <2>3. \A r \in Request : AtDesk(r)
    BY DEF DeskInit, LifeInit, Init, AtDesk, AnswerFits, RefusedIsUndone,
           CreatedHasRow, NewIsClean, Of
  <2> QED BY <2>2, <2>3 DEF DeskInv
<1>2. LifeInv /\ LifeInv' /\ DeskInv /\ [DeskNext]_deskVars => DeskInv'
  <2> SUFFICES ASSUME LifeInv, LifeInv', DeskInv, [DeskNext]_deskVars
               PROVE  DeskInv'
    OBVIOUS
  <2>1. LifeTypeOK' /\ DeskTypeOK
    BY DEF LifeInv, DeskInv
  <2>2. DeskTypeOK'
    BY <2>1, DeskTypeNext
  <2>3. \A q \in Request : AtDesk(q)'
    BY AtDeskNext
  <2> QED BY <2>2, <2>3 DEF DeskInv
<1> QED BY <1>1, <1>2, DeskImplementsLife, LifeInvAlways, PTL DEF DeskSpec

\* A guest is answered with 409 after the rollback of what he had.
RefusedIsClean == \A r \in Request : answer[r] = 409 => Of(r) = {}

LEMMA RefusedIsCleanNext ==
  ASSUME "down" \notin Faults, LifeInv, DeskInv, RefusedIsClean, [DeskNext]_deskVars
  PROVE  RefusedIsClean'
<1> SUFFICES ASSUME NEW q \in Request, answer'[q] = 409
             PROVE  Of(q)' = {}
  BY DEF RefusedIsClean
<1>0. /\ LifeTypeOK /\ InOrder(q) /\ DeskTypeOK /\ AtDesk(q) /\ Busy
      /\ svc = [r \in Request |-> svc[r]]
      /\ answer[q] = 409 => Of(q) = {} /\ svc[q] = "error"
  BY DEF LifeInv, DeskInv, RefusedIsClean, AtDesk, AnswerFits, LifeTypeOK
<1>1. ASSUME NEW r \in Request, r # q, RequestStep(r), answer'[q] = answer[q]
      PROVE  Of(q)' = {}
  BY <1>0, <1>1, RequestTouches
<1>2. ASSUME NEW r \in Request, r # q, TurnAway(r) \/ Post(r) \/ Handle(r)
      PROVE  Of(q)' = {}
  <2>1. answer'[q] = answer[q]
    BY <1>0, <1>2, DeskTouches
  <2>2. RequestStep(r) \/ UNCHANGED allVars
    BY <1>2 DEF TurnAway, Post, Handle, RequestStep
  <2> QED BY <1>0, <1>1, <1>2, <2>1, <2>2 DEF allVars, vars, Of
<1>3. CASE TurnAway(q) \/ Post(q)
  <2>1. answer'[q] \in {0, 400, 422}
    BY <1>0, <1>3 DEF TurnAway, Post, Refusals, Refusal, DeskTypeOK
  <2> QED BY <2>1
<1>4. CASE Handle(q)
  <2>1. Serve(q) /\ svc[q] # "error"
    BY <1>0, <1>4, ServeSteps DEF Handle, Compensating
  <2>2. Status(q) = 409
    BY <1>0, <1>4, <2>1 DEF Handle, DeskTypeOK
  <2>3. svc'[q] = "error" /\ q \in conflict'
    BY <2>2 DEF Status
  <2>4. ReleaseScript(q)
    <3>1. CASE svc[q] \in Compensating
      <4>1. Compensate(q) \/ CompensateError(q)
        BY <1>0, <2>1, <3>1, CompensationGoesOn
      <4>2. Compensate(q)
        <5>1. svc[q] # "acquire" /\ pc[q] \notin Acquiring
          BY <1>0, <3>1 DEF Compensating, InOrder, OneCall
        <5>2. ~ HoldRefused(q) /\ ~ PersistConflict(q)
          BY <5>1 DEF HoldRefused, PersistConflict
        <5> QED BY <1>4, <2>3, <4>1, <5>2 DEF Handle, Err
      <4> QED BY <4>2 DEF Compensate, Release
    <3>2. CASE svc[q] = "acquire"
      <4>1. UndoDone(q) \/ UndoError(q)
        <5>1. svc'[q] = "error" /\ svc[q] = "acquire" /\ svc = [r \in Request |-> svc[r]]
          BY <1>0, <2>3, <3>2
        <5>2. ~ Persist(q) /\ ~ PersistError(q) /\ ~ PersistConflict(q)
          BY <5>1 DEF Persist, PersistError, PersistConflict
        <5>3. AcquireStep(q)
          BY <2>1, <5>1, <5>2 DEF Serve, Compensate, CompensateError, Compensating
        <5>4. pc'[q] = "idle" /\ pc = [r \in Request |-> pc[r]]
          BY <1>0, <5>1, <5>3 DEF AcquireStep, LifeTypeOK, TypeOK
        <5>5. ~ HoldGranted(q) /\ ~ HoldRefused(q) /\ ~ HoldError(q)
          BY <5>4 DEF HoldGranted, HoldRefused, HoldError
        <5> QED BY <5>3, <5>5 DEF AcquireStep
      <4> QED BY <1>0, <4>1 DEF UndoDone, UndoError
    <3> QED BY <1>0, <2>1, <3>1, <3>2, ServeSteps
  <2> QED BY <2>4 DEF ReleaseScript, Of
<1>5. ASSUME NEW r \in Request, ServiceCrash(r) \/ UpdateStatus(r),
             UNCHANGED <<answer, conflict>>
      PROVE  Of(q)' = {}
  <2>1. r # q
    BY <1>0, <1>5 DEF ServiceCrash, Crash, UpdateStatus, InOrder, OneCall, Compensating
  <2> QED BY <1>1, <1>5, <2>1 DEF RequestStep
<1>6. ASSUME NEW w \in Worker, WorkerStep(w), UNCHANGED <<answer, conflict>>
      PROVE  Of(q)' = {}
  <2>1. Of(q) = {}
    BY <1>0, <1>6
  <2>2. index' \subseteq index
    BY <1>6, WorkerTouches DEF vars, Release, ReleaseScript
  <2> QED BY <2>1, <2>2 DEF Of
<1>7. CASE LifeTick /\ UNCHANGED <<answer, conflict>>
  <2>1. Of(q) = {} /\ index' \subseteq index
    BY <1>0, <1>7 DEF LifeTick, Tick, DropExpired
  <2> QED BY <2>1 DEF Of
<1>8. CASE UNCHANGED deskVars
  BY <1>0, <1>8 DEF deskVars, allVars, vars, Of
<1> QED
  BY <1>2, <1>3, <1>4, <1>5, <1>6, <1>7, <1>8 DEF DeskNext, WorkerStep

-----------------------------------------------------------------------------
(* Theorems *)

\* hold_handler.go answers with the statuses it has names for, and the states
\* of service, sweepers and store behind it are the ones of HoldLifecycle.
THEOREM DeskTypeCorrect == DeskSpec => []DeskTypeOK
<1>1. DeskInv => DeskTypeOK
  BY DEF DeskInv
<1> QED BY <1>1, DeskInvAlways, PTL

\* A guest who was answered with 201 has a reservation and, until it runs out,
\* a unit of every night, whatever faults there were.
THEOREM YesIsAlwaysTrue == DeskSpec => [](\A r \in Request : YesIsTrue(r))
<1>1. DeskInv /\ PromiseKept => \A r \in Request : YesIsTrue(r)
  BY DEF DeskInv, AtDesk, AnswerFits, CreatedHasRow, PromiseKept, YesIsTrue
<1> QED BY <1>1, DeskInvAlways, DeskImplementsLife, PromisesAreKept, PTL

\* A guest who was answered with 400, 409 or 422 has no reservation, and the
\* rollback has left none of his units taken, whatever replies were lost and
\* processes died: a process that dies gives no answer.  Only a Redis that
\* cannot be reached at all makes a 409 that leaves units behind.
THEOREM AnswersAreAlwaysTrue ==
  "down" \notin Faults /\ DeskSpec => []AnswersAreTrue
<1>1. DeskInit => RefusedIsClean
  BY DEF DeskInit, LifeInit, RefusedIsClean
<1>2. DeskInv /\ LifeInv /\ RefusedIsClean => \A r \in Request : NoIsTrue(r)
  <2> SUFFICES ASSUME DeskInv, LifeInv, RefusedIsClean, NEW r \in Request,
                      answer[r] \in {400, 409, 422}
               PROVE  row[r] = "none" /\ Of(r) = {}
    BY DEF NoIsTrue
  <2>1. AtDesk(r) /\ InOrder(r)
    BY DEF DeskInv, LifeInv
  <2>2. CASE answer[r] = 409
    BY <2>1, <2>2 DEF AtDesk, AnswerFits, RefusedIsUndone, RefusedIsClean
  <2>3. CASE answer[r] \in {400, 422}
    <3>1. svc[r] = "new" /\ Of(r) = {}
      BY <2>1, <2>3 DEF AtDesk, AnswerFits, NewIsClean
    <3>2. row[r] = "none"
      BY <2>1, <3>1 DEF InOrder, RowIsLast
    <3> QED BY <3>1, <3>2
  <2> QED BY <2>2, <2>3
<1>3. (\A r \in Request : YesIsTrue(r)) /\ (\A r \in Request : NoIsTrue(r))
         => AnswersAreTrue
  BY DEF AnswersAreTrue
<1>4. CASE "down" \notin Faults
  <2>1. LifeInv /\ DeskInv /\ RefusedIsClean /\ [DeskNext]_deskVars => RefusedIsClean'
    BY <1>4, RefusedIsCleanNext
  <2> QED
    BY <1>1, <1>2, <1>3, <2>1, DeskInvAlways, DeskImplementsLife, LifeInvAlways,
       YesIsAlwaysTrue, PTL DEF DeskSpec
<1>5. CASE ~ ("down" \notin Faults)
  BY <1>5, PTL
<1> QED BY <1>4, <1>5

\* A handler that compared with no more than the units there are would keep
\* within them: the fallback of 100 is all that the run exhaustion shows.
THEOREM LookingUpWouldDo ==
  ~ SlowAcquire /\ Capacity <= Units /\ DeskSpec => []WithinUnits
<1>1. Capacity <= Units /\ NoOversell => WithinUnits
  <2> SUFFICES ASSUME Capacity <= Units, NoOversell, NEW k \in Night
               PROVE  Cardinality({r \in Guests(k) : answer[r] = 201}) <= Units
    BY DEF WithinUnits
  <2> DEFINE Told == {r \in Guests(k) : answer[r] = 201}
  <2>1. IsFiniteSet(Guests(k))
    BY FS_Subset, RequestAssumption DEF Guests
  <2>2. Told \subseteq Guests(k)
    OBVIOUS
  <2>3. /\ Cardinality(Told) \in Nat /\ Cardinality(Guests(k)) \in Nat
        /\ Cardinality(Told) <= Cardinality(Guests(k))
    BY <2>1, <2>2, FS_Subset, FS_CardinalityType
  <2>4. Cardinality(Guests(k)) <= Capacity
    BY DEF NoOversell
  <2> HIDE DEF Told
  <2>5. Cardinality(Told) <= Units
    BY <2>3, <2>4, NumbersAssumption, UnitsAssumption
  <2> QED BY <2>5 DEF Told
<1>2. CASE Capacity <= Units
  <2>1. NoOversell => WithinUnits
    BY <1>1, <1>2
  <2> QED BY <2>1, DeskImplementsLife, ImplementsFastHold, NeverOversold, PTL
<1>3. CASE ~ (Capacity <= Units)
  BY <1>3, PTL
<1> QED BY <1>2, <1>3
=============================================================================
