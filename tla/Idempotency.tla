---------------------------- MODULE Idempotency ----------------------------
(***************************************************************************)
(* IdempotencyMiddleware in front of POST /v1/reservations/hold: the       *)
(* requests that carry ONE Idempotency-Key, first attempt and retries.     *)
(*                                                                         *)
(* Redis keeps two keys: the cached response and a processing lock with a  *)
(* TTL.  A request looks for the response, then takes the lock, runs the   *)
(* handler, caches what it answered and deletes the lock.  These are five  *)
(* separate calls; whatever other requests do may come between any two.    *)
(*                                                                         *)
(* The cached response lives for 24 hours, longer than a key is retried,   *)
(* so its expiry is left out.                                              *)
(***************************************************************************)
EXTENDS Integers, FiniteSets

CONSTANTS
    Request,      \* requests with this key
    LockTTL,      \* idempLockTTL (30 seconds) in ticks
    Faults,       \* what may go wrong
    SlowHandler   \* may the clock tick while a handler has the lock?

ASSUME LockAssumption   == LockTTL \in Nat \ {0}
\* "down": a Redis call is not carried out and returns an error; "lost": it is
\* carried out and returns an error; "crash": a process dies.
ASSUME FaultsAssumption == Faults \subseteq {"down", "lost", "crash"}
ASSUME SlowAssumption   == SlowHandler \in BOOLEAN

VARIABLES
    resp,         \* idemp:resp:key: {r} if the cached response is that of r
    lockTTL,      \* idemp:lock:key: its remaining life, 0 if there is no key
    pc,           \* where the request is in the middleware
    status,       \* the status its own run of the handler gave
    got,          \* {q}: what the client was sent is what q's handler wrote
    before,       \* history: requests answered before this one arrived
    failed        \* history: requests whose GET or SETNX gave an error, or
                  \* whose SET or DEL was not carried out

vars == <<resp, lockTTL, pc, status, got, before, failed>>

Locked  == {"run", "save", "unlock"}     \* between SETNX and the deferred DEL
Running == Locked \cup {"open"}          \* "open": the handler, failing open
Ended   == {"answered", "conflict", "dead"}
Status  == {"ok", "rejected", "error"}   \* 2xx, 4xx, 5xx or a panic

IdempTypeOK ==
    /\ resp \subseteq Request
    /\ lockTTL \in 0 .. LockTTL
    /\ pc \in [Request -> {"idle", "get", "setnx"} \cup Running \cup Ended]
    /\ status \in [Request -> {"none"} \cup Status]
    /\ got \in [Request -> SUBSET Request]
    /\ before \in [Request -> SUBSET Request]
    /\ failed \subseteq Request

Init ==
    /\ resp = {}
    /\ lockTTL = 0
    /\ pc = [r \in Request |-> "idle"]
    /\ status = [r \in Request |-> "none"]
    /\ got = [r \in Request |-> {}]
    /\ before = [r \in Request |-> {}]
    /\ failed = {}

Step(r, from, to) == pc[r] = from /\ pc' = [pc EXCEPT ![r] = to]

Fails(r) == failed' = failed \cup {r}

Answered == {q \in Request : pc[q] = "answered"}

-----------------------------------------------------------------------------
(* The middleware *)

Arrive(r) ==
    /\ Step(r, "idle", "get")
    /\ before' = [before EXCEPT ![r] = Answered]
    /\ UNCHANGED <<resp, lockTTL, status, got, failed>>

\* A cached response is sent again.
GetHit(r) ==
    /\ resp # {}
    /\ Step(r, "get", "answered")
    /\ got' = [got EXCEPT ![r] = resp]
    /\ UNCHANGED <<resp, lockTTL, status, before, failed>>

\* A GET that fails is taken for a miss.
GetMiss(r) ==
    /\ \/ resp = {} /\ UNCHANGED failed
       \/ Faults \cap {"down", "lost"} # {} /\ Fails(r)
    /\ Step(r, "get", "setnx")
    /\ UNCHANGED <<resp, lockTTL, status, got, before>>

\* Mutation: SET in place of SETNX.
SetLock(r) ==
    /\ Step(r, "setnx", "run")
    /\ lockTTL' = LockTTL
    /\ UNCHANGED <<resp, status, got, before, failed>>

TakeLock(r) ==
    /\ lockTTL = 0
    /\ Step(r, "setnx", "run")
    /\ lockTTL' = LockTTL
    /\ UNCHANGED <<resp, status, got, before, failed>>

Conflict(r) ==
    /\ lockTTL > 0
    /\ Step(r, "setnx", "conflict")
    /\ UNCHANGED <<resp, lockTTL, status, got, before, failed>>

\* An error of SETNX lets the request through without lock and cache; if only
\* the reply was lost, the lock is set and nobody will delete it.
FailOpen(r) ==
    /\ \/ /\ "down" \in Faults
          /\ UNCHANGED lockTTL
       \/ /\ "lost" \in Faults
          /\ lockTTL' = IF lockTTL = 0 THEN LockTTL ELSE lockTTL
    /\ Fails(r)
    /\ Step(r, "setnx", "open")
    /\ UNCHANGED <<resp, status, got, before>>

\* The handler returns.  Without the lock its answer goes straight out.
Handle(r) ==
    /\ \E s \in Status : status' = [status EXCEPT ![r] = s]
    /\ \/ /\ Step(r, "run", "save")
          /\ UNCHANGED got
       \/ /\ Step(r, "open", "answered")
          /\ got' = [got EXCEPT ![r] = {r}]
    /\ UNCHANGED <<resp, lockTTL, before, failed>>

\* Mutation: only 2xx answers are cached.
SavesSuccess(r) == status[r] = "ok"

\* 2xx and 4xx answers are cached, 5xx are not.
Saves(r) == status[r] \in {"ok", "rejected"}

Save(r) ==
    /\ Step(r, "save", "unlock")
    /\ \/ /\ resp' = IF Saves(r) THEN {r} ELSE resp
          /\ UNCHANGED failed
       \/ "down" \in Faults /\ Fails(r) /\ UNCHANGED resp
    /\ UNCHANGED <<lockTTL, status, got, before>>

\* The deferred DEL, whosever lock it is; then the server sends the answer.
Unlock(r) ==
    /\ Step(r, "unlock", "answered")
    /\ \/ lockTTL' = 0 /\ UNCHANGED failed
       \/ "down" \in Faults /\ Fails(r) /\ UNCHANGED lockTTL
    /\ got' = [got EXCEPT ![r] = {r}]
    /\ UNCHANGED <<resp, status, before>>

-----------------------------------------------------------------------------
(* Faults and time *)

Crash(r) ==
    /\ "crash" \in Faults
    /\ pc[r] \in {"get", "setnx"} \cup Running
    /\ pc' = [pc EXCEPT ![r] = "dead"]
    /\ UNCHANGED <<resp, lockTTL, status, got, before, failed>>

\* Mutation: the lock is set without a TTL.
TickWithoutTTL ==
    /\ ~SlowHandler => \A r \in Request : pc[r] \notin Locked
    /\ UNCHANGED vars

Tick ==
    /\ ~SlowHandler => \A r \in Request : pc[r] \notin Locked
    /\ lockTTL' = IF lockTTL = 0 THEN 0 ELSE lockTTL - 1
    /\ UNCHANGED <<resp, pc, status, got, before, failed>>

Serve(r) ==
    \/ GetHit(r)
    \/ GetMiss(r)
    \/ TakeLock(r)
    \/ Conflict(r)
    \/ FailOpen(r)
    \/ Handle(r)
    \/ Save(r)
    \/ Unlock(r)

Next ==
    \/ \E r \in Request : Arrive(r) \/ Serve(r) \/ Crash(r)
    \/ Tick

Spec == Init /\ [][Next]_vars

\* A request being served goes on, and time passes.
FairSpec ==
    /\ Spec
    /\ \A r \in Request : WF_vars(Serve(r))
    /\ WF_vars(Tick)

-----------------------------------------------------------------------------
(* Properties *)

\* "Acquire short-lived processing lock to prevent concurrent duplicate
\* execution": two requests never have the lock at the same time, so none
\* deletes the lock of another.  Requests that fail open have no lock.
OneAtATime ==
    \A q, r \in Request : pc[q] \in Locked /\ pc[r] \in Locked => q = r

\* "Return cached responses on subsequent retries": a request that arrives
\* after another was answered with something to be cached never runs the
\* handler, and what it is sent is what a handler wrote for an earlier one,
\* unless Redis failed one of the two.
RetryIsReplayed ==
    \A r \in Request \ failed : \A q \in before[r] \ failed :
        status[q] \in {"ok", "rejected"} \/ got[q] # {q} =>
            /\ pc[r] \notin Running
            /\ pc[r] = "answered" => got[r] # {} /\ r \notin got[r]

\* The key is not blocked for ever, also when the process that took the lock
\* dies or its DEL fails.
LockIsFreed == lockTTL > 0 ~> lockTTL = 0

\* idempotency.go:44: "requests with an Idempotency-Key header execute exactly
\* once".
ExactlyOnce == Cardinality({r \in Request : status[r] = "ok"}) <= 1
=============================================================================
