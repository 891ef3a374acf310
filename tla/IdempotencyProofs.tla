------------------------- MODULE IdempotencyProofs -------------------------
(***************************************************************************)
(* Theorems about Idempotency for any number of requests, any lock TTL and *)
(* any faults.                                                             *)
(*                                                                         *)
(* Mutual exclusion rests on LockInv: whoever is between SETNX and DEL has *)
(* a living lock, because the clock stands still meanwhile.  Replay rests  *)
(* on RetryInv, which says nothing of locks: an answer that had to be      *)
(* cached is cached before it is sent, and nothing removes it.             *)
(***************************************************************************)
EXTENDS Idempotency, TLAPS

LEMMA TypeInit == Init => IdempTypeOK
BY LockAssumption DEF Init, IdempTypeOK

LEMMA TypeNext == IdempTypeOK /\ [Next]_vars => IdempTypeOK'
<1> SUFFICES ASSUME IdempTypeOK, [Next]_vars
             PROVE  IdempTypeOK'
    OBVIOUS
<1> USE LockAssumption DEF IdempTypeOK, Running, Locked, Ended, Status, Step, Fails
<1>1. CASE \E r \in Request : Arrive(r)
    BY <1>1 DEF Arrive, Answered
<1>2. CASE \E r \in Request : GetHit(r) \/ GetMiss(r)
    BY <1>2 DEF GetHit, GetMiss
<1>3. CASE \E r \in Request : TakeLock(r) \/ Conflict(r) \/ FailOpen(r)
    BY <1>3 DEF TakeLock, Conflict, FailOpen
<1>4. CASE \E r \in Request : Handle(r)
    BY <1>4 DEF Handle
<1>5. CASE \E r \in Request : Save(r)
    BY <1>5 DEF Save, Saves
<1>6. CASE \E r \in Request : Unlock(r)
    BY <1>6 DEF Unlock
<1>7. CASE \E r \in Request : Crash(r)
    BY <1>7 DEF Crash
<1>8. CASE Tick
    BY <1>8 DEF Tick
<1>9. CASE UNCHANGED vars
    BY <1>9 DEF vars
<1> QED
    BY <1>1, <1>2, <1>3, <1>4, <1>5, <1>6, <1>7, <1>8, <1>9 DEF Next, Serve

\* The middleware's state, the two keys and the history variables stay
\* well-typed; in particular a lock never lives longer than idempLockTTL.
THEOREM IdempTypeCorrect == Spec => []IdempTypeOK
<1> QED
    BY TypeInit, TypeNext, PTL DEF Spec

-----------------------------------------------------------------------------
(* The lock *)

LockInv ==
    /\ OneAtATime
    /\ \A r \in Request : pc[r] \in Locked => lockTTL > 0

LEMMA LockNext ==
    ~SlowHandler /\ IdempTypeOK /\ LockInv /\ [Next]_vars => LockInv'
<1> SUFFICES ASSUME ~SlowHandler, IdempTypeOK, LockInv, [Next]_vars
             PROVE  LockInv'
    OBVIOUS
<1> USE LockAssumption DEF IdempTypeOK, LockInv, OneAtATime, Locked, Step
<1>1. CASE \E r \in Request : Arrive(r) \/ GetHit(r) \/ GetMiss(r)
    BY <1>1 DEF Arrive, GetHit, GetMiss
<1>2. CASE \E r \in Request : TakeLock(r)
    \* The key is free, so nobody has the lock.
    BY <1>2 DEF TakeLock
<1>3. CASE \E r \in Request : Conflict(r) \/ FailOpen(r)
    BY <1>3 DEF Conflict, FailOpen
<1>4. CASE \E r \in Request : Handle(r) \/ Save(r)
    BY <1>4 DEF Handle, Save
<1>5. CASE \E r \in Request : Unlock(r)
    \* The lock that is deleted is the request's own: no other has one.
    BY <1>5 DEF Unlock
<1>6. CASE \E r \in Request : Crash(r)
    BY <1>6 DEF Crash
<1>7. CASE Tick
    BY <1>7 DEF Tick
<1>8. CASE UNCHANGED vars
    BY <1>8 DEF vars
<1> QED
    BY <1>1, <1>2, <1>3, <1>4, <1>5, <1>6, <1>7, <1>8 DEF Next, Serve

\* As long as no handler outlives the lock, SETNX and DEL give mutual
\* exclusion, whatever Redis calls fail and whatever processes die.
THEOREM LockExcludes == ~SlowHandler /\ Spec => []OneAtATime
<1>1. Init => LockInv
    BY DEF Init, LockInv, OneAtATime, Locked
<1>2. LockInv => OneAtATime
    BY DEF LockInv
<1>3. CASE ~SlowHandler
    <2>1. IdempTypeOK /\ LockInv /\ [Next]_vars => LockInv'
        BY <1>3, LockNext
    <2> QED
        BY <1>1, <1>2, <2>1, IdempTypeCorrect, PTL DEF Spec
<1>4. CASE SlowHandler
    BY <1>4
<1> QED
    BY <1>3, <1>4

-----------------------------------------------------------------------------
(* Replay *)

\* q was answered with something that a retry must be sent again.
Keeps(q) == status[q] \in {"ok", "rejected"} \/ got[q] # {q}

\* What a handler has to keep is cached before it is sent, and what is cached
\* was written by a request that has left the handler.
CacheInv ==
    /\ \A q \in Request \ failed :
         pc[q] = "unlock" /\ status[q] \in {"ok", "rejected"} => resp # {}
    /\ \A q \in Request \ failed :
         pc[q] = "answered" /\ Keeps(q) => resp # {}
    /\ \A q \in resp : pc[q] \in {"unlock", "answered", "dead"}
    /\ \A q \in Request : pc[q] = "open" => q \in failed

\* The retry of such a request never gets past the GET.
RetryInv ==
    \A r \in Request \ failed : \A q \in before[r] \ failed :
        Keeps(q) =>
            /\ pc[r] \in {"get", "answered", "dead"}
            /\ pc[r] = "answered" => got[r] # {} /\ r \notin got[r]

IInv ==
    /\ IdempTypeOK
    /\ CacheInv
    /\ \A r \in Request : before[r] \subseteq Answered
    /\ \A r \in Request : pc[r] = "idle" => before[r] = {}
    /\ RetryInv

LEMMA InvInit == Init => IInv
BY TypeInit DEF Init, IInv, CacheInv, RetryInv

\* An answered request is over: nothing of it changes but the clock around it.
LEMMA AnsweredStays ==
    ASSUME IdempTypeOK, [Next]_vars
    PROVE  \A q \in Answered : /\ pc'[q] = "answered"
                               /\ status'[q] = status[q]
                               /\ got'[q] = got[q]
<1> USE DEF IdempTypeOK, Answered, Step
<1>1. CASE \E r \in Request : Arrive(r) \/ GetHit(r) \/ GetMiss(r)
    BY <1>1 DEF Arrive, GetHit, GetMiss
<1>2. CASE \E r \in Request : TakeLock(r) \/ Conflict(r) \/ FailOpen(r)
    BY <1>2 DEF TakeLock, Conflict, FailOpen
<1>3. CASE \E r \in Request : Handle(r) \/ Save(r) \/ Unlock(r)
    BY <1>3 DEF Handle, Save, Unlock
<1>4. CASE \E r \in Request : Crash(r)
    BY <1>4 DEF Crash, Running, Locked
<1>5. CASE Tick \/ UNCHANGED vars
    BY <1>5 DEF Tick, vars
<1> QED
    BY <1>1, <1>2, <1>3, <1>4, <1>5 DEF Next, Serve

LEMMA CacheNext == IInv /\ [Next]_vars => CacheInv'
<1> SUFFICES ASSUME IInv, [Next]_vars
             PROVE  CacheInv'
    OBVIOUS
<1> USE DEF IInv, IdempTypeOK, CacheInv, Keeps, Step, Fails
<1>1. CASE \E r \in Request : Arrive(r) \/ GetMiss(r)
    BY <1>1 DEF Arrive, GetMiss
<1>2. CASE \E r \in Request : GetHit(r)
    BY <1>2 DEF GetHit
<1>3. CASE \E r \in Request : TakeLock(r) \/ Conflict(r) \/ FailOpen(r)
    BY <1>3 DEF TakeLock, Conflict, FailOpen
<1>4. CASE \E r \in Request : Handle(r)
    \* With the lock the request has yet to save; without it, it has failed.
    BY <1>4 DEF Handle
<1>5. CASE \E r \in Request : Save(r)
    BY <1>5 DEF Save, Saves
<1>6. CASE \E r \in Request : Unlock(r)
    BY <1>6 DEF Unlock
<1>7. CASE \E r \in Request : Crash(r)
    BY <1>7 DEF Crash
<1>8. CASE Tick \/ UNCHANGED vars
    BY <1>8 DEF Tick, vars
<1> QED
    BY <1>1, <1>2, <1>3, <1>4, <1>5, <1>6, <1>7, <1>8 DEF Next, Serve

\* A retry is at GET with the answer cached, so its only way on is GetHit.
LEMMA RetryNext == IInv /\ [Next]_vars => RetryInv'
<1> SUFFICES ASSUME IInv, [Next]_vars,
                    NEW r \in Request \ failed', NEW q \in before'[r] \ failed',
                    Keeps(q)'
             PROVE  /\ pc'[r] \in {"get", "answered", "dead"}
                    /\ pc'[r] = "answered" => got'[r] # {} /\ r \notin got'[r]
    BY DEF RetryInv
<1> USE DEF Step, Fails
<1>1. CASE Arrive(r)
    BY <1>1 DEF Arrive, IInv, IdempTypeOK
<1>2. CASE ~Arrive(r)
  <2>1. before'[r] = before[r] /\ failed \subseteq failed'
    BY <1>2 DEF Next, Serve, Arrive, GetHit, GetMiss, TakeLock, Conflict, FailOpen,
                Handle, Save, Unlock, Crash, Tick, vars, IInv, IdempTypeOK
  <2>2. q \in Answered /\ q \in Request /\ q \notin failed /\ r \notin failed
    BY <2>1 DEF IInv, Answered
  <2>3. Keeps(q)
    BY <2>2, AnsweredStays DEF Keeps, IInv
  <2>4. /\ pc[r] \in {"get", "answered", "dead"}
        /\ pc[r] = "answered" => got[r] # {} /\ r \notin got[r]
    BY <2>1, <2>2, <2>3 DEF IInv, RetryInv
  <2>5. resp # {}
    BY <2>2, <2>3 DEF IInv, CacheInv, Answered
  <2>6. CASE pc[r] = "answered"
    BY <2>4, <2>6, AnsweredStays DEF Answered, IInv
  <2>7. CASE pc[r] = "dead"
    BY <2>7 DEF Next, Serve, Arrive, GetHit, GetMiss, TakeLock, Conflict, FailOpen,
                Handle, Save, Unlock, Crash, Running, Locked, Tick, vars,
                IInv, IdempTypeOK
  <2>8. CASE pc[r] = "get"
    <3>1. CASE GetHit(r)
      BY <2>5, <2>8, <3>1 DEF GetHit, IInv, IdempTypeOK, CacheInv
    <3>2. CASE GetMiss(r)
      \* Nothing is cached, or the GET failed.
      BY <2>5, <3>2 DEF GetMiss
    <3>3. CASE ~GetHit(r) /\ ~GetMiss(r)
      BY <1>2, <2>8, <3>3
         DEF Next, Serve, Arrive, GetHit, GetMiss, TakeLock, Conflict, FailOpen,
             Handle, Save, Unlock, Crash, Tick, vars, IInv, IdempTypeOK
    <3> QED
      BY <3>1, <3>2, <3>3
  <2> QED
    BY <2>4, <2>6, <2>7, <2>8
<1> QED
  BY <1>1, <1>2

LEMMA InvNext == IInv /\ [Next]_vars => IInv'
<1> SUFFICES ASSUME IInv, [Next]_vars
             PROVE  /\ \A r \in Request : before'[r] \subseteq Answered'
                    /\ \A r \in Request : pc'[r] = "idle" => before'[r] = {}
    BY TypeNext, CacheNext, RetryNext DEF IInv
<1>1. Answered \subseteq Answered'
    BY AnsweredStays DEF Answered, IInv
<1>2. CASE \E r \in Request : Arrive(r)
    BY <1>1, <1>2 DEF Arrive, Step, IInv, IdempTypeOK
<1>3. CASE ~\E r \in Request : Arrive(r)
  <2>1. UNCHANGED before
    BY <1>3 DEF Next, Serve, GetHit, GetMiss, TakeLock, Conflict, FailOpen,
                Handle, Save, Unlock, Crash, Tick, vars
  <2>2. \A r \in Request : pc'[r] = "idle" => pc[r] = "idle"
    BY <1>3 DEF Next, Serve, GetHit, GetMiss, TakeLock, Conflict, FailOpen, Step,
                Handle, Save, Unlock, Crash, Tick, vars, IInv, IdempTypeOK
  <2> QED
    BY <1>1, <2>1, <2>2 DEF IInv
<1> QED
    BY <1>2, <1>3

\* A retry that arrives after an answer that had to be kept never runs the
\* handler and is sent that earlier answer, whatever the timing and whatever
\* happens to other requests, unless Redis failed it or the earlier request.
THEOREM RetriesAreReplayed == Spec => []RetryIsReplayed
<1>1. IInv => RetryIsReplayed
    BY DEF IInv, RetryInv, RetryIsReplayed, Keeps, Running, Locked
<1> QED
    BY <1>1, InvInit, InvNext, PTL DEF Spec
=============================================================================
