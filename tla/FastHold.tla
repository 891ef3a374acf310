------------------------------ MODULE FastHold ------------------------------
(***************************************************************************)
(* Layer 1 of the booking engine: the Redis hold store of ONE room type    *)
(* and the Go adapter that drives it.                                      *)
(*                                                                         *)
(* Redis keeps, for each night k, a counter key inv:hold:..:k with a TTL,  *)
(* and, for each hold token, a list inv:token:.. of the counter keys the   *)
(* token incremented, with a TTL of its own.  The two Lua scripts are      *)
(* atomic; AcquireFastHold calls the hold script once per night, and each  *)
(* call is an EVALSHA that falls back to an EVAL on ANY error, also when   *)
(* the EVALSHA did run and only its reply was lost.                        *)
(*                                                                         *)
(* Every request draws a fresh uuid token, so a request and its token are  *)
(* one identity here.  Clocks are relative: a TTL is the number of ticks   *)
(* left, 0 means that the key does not exist.                              *)
(***************************************************************************)
EXTENDS Integers, FiniteSets

CONSTANTS
    Request,      \* requests, each with the hold token it draws
    N,            \* the nights of the room type are 1 .. N
    Capacity,     \* the totalCapacity argument of the hold script
    TTL,          \* the hold's life (15 minutes) in ticks
    Faults,       \* what may go wrong
    SlowAcquire   \* may the clock tick while nights are being acquired?

Night   == 1 .. N
Attempt == {"sha", "eval"}           \* EVALSHA, then its EVAL fallback

ASSUME RequestAssumption  == IsFiniteSet(Request)
ASSUME NumbersAssumption  == /\ N \in Nat \ {0}
                             /\ Capacity \in Nat \ {0}
                             /\ TTL \in Nat \ {0}
\* "lost": the script ran but the caller saw an error (reply lost, context
\* cancelled); "down": it did not run (no connection, NOSCRIPT);
\* "crash": a process dies.
ASSUME FaultsAssumption   == Faults \subseteq {"lost", "down", "crash"}
ASSUME SlowAssumption     == SlowAcquire \in BOOLEAN

VARIABLES
    count,        \* [Night -> 0..Capacity]  value of the night's counter key
    countTTL,     \* [Night -> 0..TTL]       its remaining life
    index,        \* set of <<token, night, attempt>>: the RPUSHes not undone
    tokenTTL,     \* [Request -> 0..TTL]     remaining life of the token list
    pc,           \* where the request is in AcquireFastHold
    stay,         \* check-in night and (exclusive) check-out night
    night,        \* loop variable d of AcquireFastHold
    expires       \* ticks until the expiresAt that the call returns

store == <<count, countTTL, index, tokenTTL>>
vars  == <<count, countTTL, index, tokenTTL, pc, stay, night, expires>>

Acquiring == {"sha", "eval"}
Undoing   == {"undo_sha", "undo_eval"}
Ended     == {"held", "released"}
Stay      == [in : Night, out : 2 .. N + 1]
NoStay    == [in |-> 1, out |-> 2]

TypeOK ==
    /\ count \in [Night -> 0 .. Capacity]
    /\ countTTL \in [Night -> 0 .. TTL]
    /\ index \subseteq Request \X Night \X Attempt
    /\ tokenTTL \in [Request -> 0 .. TTL]
    /\ pc \in [Request -> {"idle"} \cup Acquiring \cup Undoing \cup Ended]
    /\ stay \in [Request -> Stay]
    /\ night \in [Request -> Night]
    /\ expires \in [Request -> 0 .. TTL]

Init ==
    /\ count = [k \in Night |-> 0]
    /\ countTTL = [k \in Night |-> 0]
    /\ index = {}
    /\ tokenTTL = [r \in Request |-> 0]
    /\ pc = [r \in Request |-> "idle"]
    /\ stay = [r \in Request |-> NoStay]
    /\ night = [r \in Request |-> 1]
    /\ expires = [r \in Request |-> 0]

-----------------------------------------------------------------------------
(* What the index says *)

On(k)        == {e \in index : e[2] = k}               \* pushes of counter k
Of(r)        == {e \in index : e[1] = r}               \* the token list of r
Pushed(r, k) == {e \in index : e[1] = r /\ e[2] = k}   \* k in the list of r
StayNights(r) == stay[r].in .. stay[r].out - 1

Less1(ttl)   == IF ttl = 0 THEN 0 ELSE ttl - 1

-----------------------------------------------------------------------------
(* The Lua scripts, each atomic in Redis *)

\* Mutation: current > capacity instead of current >= capacity.
AdmitsOneMore(k) == count[k] <= Capacity

\* inventory_hold.lua refuses when current >= capacity ...
Admits(k) == count[k] < Capacity

\* Mutation: EXPIRE on the counter only when INCR created it, and on the list
\* only for its first entry.
TakeExpireOnce(r, k, a) ==
    /\ count' = [count EXCEPT ![k] = @ + 1]
    /\ countTTL' = [countTTL EXCEPT ![k] = IF @ = 0 THEN TTL ELSE @]
    /\ index' = index \cup {<<r, k, a>>}
    /\ tokenTTL' = [tokenTTL EXCEPT ![r] = IF @ = 0 THEN TTL ELSE @]

\* ... and otherwise runs INCR, EXPIRE, RPUSH, EXPIRE: the counter and the
\* token list both get a full life again.
Take(r, k, a) ==
    /\ count' = [count EXCEPT ![k] = @ + 1]
    /\ countTTL' = [countTTL EXCEPT ![k] = TTL]
    /\ index' = index \cup {<<r, k, a>>}
    /\ tokenTTL' = [tokenTTL EXCEPT ![r] = TTL]

HoldScript(r, k, a) ==
    \/ Admits(k) /\ Take(r, k, a)
    \/ ~Admits(k) /\ UNCHANGED store

\* Mutation: one DECR per night of the token instead of one per entry.
RefundOnce(r, k) ==
    IF count[k] > 0 /\ Pushed(r, k) # {} THEN count[k] - 1 ELSE count[k]

\* inventory_release.lua: one DECR per entry of the list, never below zero.
Refund(r, k) ==
    LET n == Cardinality(Pushed(r, k))
    IN  IF count[k] > n THEN count[k] - n ELSE 0

\* Mutation: the script forgets to DEL the token list.
ReleaseKeepsToken(r) ==
    /\ count' = [k \in Night |-> Refund(r, k)]
    /\ UNCHANGED <<countTTL, index, tokenTTL>>

ReleaseScript(r) ==
    /\ count' = [k \in Night |-> Refund(r, k)]
    /\ index' = index \ Of(r)
    /\ tokenTTL' = [tokenTTL EXCEPT ![r] = 0]
    /\ UNCHANGED countTTL

-----------------------------------------------------------------------------
(* AcquireFastHold *)

\* Requests draw fresh tokens.  The identity r serves another request once
\* its earlier token has left Redis and is not a valid hold: this bounds the
\* requests alive at a time, not the requests served.
Fresh(r) ==
    /\ tokenTTL[r] = 0
    /\ \/ pc[r] \in {"idle", "released"}
       \/ pc[r] = "held" /\ expires[r] = 0

\* The call starts: the token is drawn and expiresAt fixed before the loop.
Begin(r, i, o) ==
    /\ Fresh(r)
    /\ i < o
    /\ pc' = [pc EXCEPT ![r] = "sha"]
    /\ stay' = [stay EXCEPT ![r] = [in |-> i, out |-> o]]
    /\ night' = [night EXCEPT ![r] = i]
    /\ expires' = [expires EXCEPT ![r] = TTL]
    /\ UNCHANGED store

\* Mutation: the loop runs while d is not after check-out, one night too far.
LastNightInclusive(r) == night[r] = stay[r].out

\* Mutation: the loop skips the last night of stays longer than one night.
LastNightEarly(r) == night[r] + 1 >= stay[r].out - 1

\* The loop ends when the next night is the check-out day.
LastNight(r) == night[r] + 1 = stay[r].out

\* The call is over without a token: its variables go out of scope.
NoToken(r) ==
    /\ pc' = [pc EXCEPT ![r] = "idle"]
    /\ stay' = [stay EXCEPT ![r] = NoStay]
    /\ night' = [night EXCEPT ![r] = 1]
    /\ expires' = [expires EXCEPT ![r] = 0]

\* A night is granted; the loop goes on or the call returns its token.
HoldGranted(r) ==
    /\ pc[r] \in Acquiring
    /\ Admits(night[r])
    /\ Take(r, night[r], pc[r])
    /\ IF LastNight(r)
         THEN /\ pc' = [pc EXCEPT ![r] = "held"]
              /\ night' = [night EXCEPT ![r] = 1]
         ELSE /\ pc' = [pc EXCEPT ![r] = "sha"]
              /\ night' = [night EXCEPT ![r] = @ + 1]
    /\ UNCHANGED <<stay, expires>>

\* Capacity exhausted for the night: roll the earlier nights back.
HoldRefused(r) ==
    /\ pc[r] \in Acquiring
    /\ ~Admits(night[r])
    /\ pc' = [pc EXCEPT ![r] = "undo_sha"]
    /\ UNCHANGED <<store, stay, night, expires>>

\* The call errs: EVALSHA is retried as EVAL, a failed EVAL rolls back.
HoldError(r) ==
    /\ pc[r] \in Acquiring
    /\ \/ "lost" \in Faults /\ HoldScript(r, night[r], pc[r])
       \/ "down" \in Faults /\ UNCHANGED store
    /\ pc' = [pc EXCEPT ![r] = IF @ = "sha" THEN "eval" ELSE "undo_sha"]
    /\ UNCHANGED <<stay, night, expires>>

\* The rollback inside AcquireFastHold: ReleaseFastHold, its error dropped.
UndoDone(r) ==
    /\ pc[r] \in Undoing
    /\ ReleaseScript(r)
    /\ NoToken(r)

UndoError(r) ==
    /\ pc[r] \in Undoing
    /\ \/ "lost" \in Faults /\ ReleaseScript(r)
       \/ "down" \in Faults /\ UNCHANGED store
    /\ IF pc[r] = "undo_eval"
         THEN NoToken(r)
         ELSE /\ pc' = [pc EXCEPT ![r] = "undo_eval"]
              /\ UNCHANGED <<stay, night, expires>>

\* The API process dies in the middle of the call.
Crash(r) ==
    /\ pc[r] \in Acquiring \cup Undoing
    /\ "crash" \in Faults
    /\ NoToken(r)
    /\ UNCHANGED store

-----------------------------------------------------------------------------
(* The holder of the token, and time *)

\* HoldService's compensation or the sweeper releases a hold it was given.
Release(r) ==
    /\ pc[r] \in Ended
    /\ ReleaseScript(r)
    /\ pc' = [pc EXCEPT ![r] = "released"]
    /\ UNCHANGED <<stay, night, expires>>

\* Mutation: the hold script never sets a life on the counter.
DropTokensOnly ==
    /\ tokenTTL' = [r \in Request |-> Less1(tokenTTL[r])]
    /\ index' = {e \in index : tokenTTL[e[1]] > 1}
    /\ UNCHANGED <<count, countTTL>>

\* Redis clock: keys whose life is over disappear.
DropExpired ==
    /\ countTTL' = [k \in Night |-> Less1(countTTL[k])]
    /\ tokenTTL' = [r \in Request |-> Less1(tokenTTL[r])]
    /\ count' = [k \in Night |-> IF countTTL[k] <= 1 THEN 0 ELSE count[k]]
    /\ index' = {e \in index : tokenTTL[e[1]] > 1}

Tick ==
    /\ SlowAcquire \/ \A r \in Request : pc[r] \notin Acquiring
    /\ DropExpired
    /\ expires' = [r \in Request |-> Less1(expires[r])]
    /\ UNCHANGED <<pc, stay, night>>

Call(r) ==
    \/ \E i \in Night, o \in 2 .. N + 1 : Begin(r, i, o)
    \/ HoldGranted(r) \/ HoldRefused(r) \/ HoldError(r)
    \/ UndoDone(r) \/ UndoError(r) \/ Crash(r)

Next ==
    \/ \E r \in Request : Call(r) \/ Release(r)
    \/ Tick

Spec == Init /\ [][Next]_vars

-----------------------------------------------------------------------------
(* Properties *)

Active(r) == pc[r] = "held" /\ expires[r] > 0
Guests(k) == {r \in Request : Active(r) /\ k \in StayNights(r)}

\* README "zero overselling": the holds that were handed out and are still
\* valid never exceed the capacity on any night, whatever replies were lost,
\* retried or rolled back in between.
NoOversell == \A k \in Night : Cardinality(Guests(k)) <= Capacity

\* The units of a counter that no token list names: nobody can release them.
Untracked(k) == count[k] - Cardinality(On(k))

\* Every entry of every token list is backed by a unit of its counter, so a
\* release (a rollback, a compensation, a sweep) never gives back a unit
\* that another request took.
Covered == \A k \in Night : Untracked(k) >= 0

\* Calls neither lose units nor make them up, whatever replies are lost and
\* scripts repeated: the untracked part of a counter changes only when time
\* passes and a key expires.
OnlyExpiryLeaks ==
    [][Tick \/ \A k \in Night : Untracked(k)' = Untracked(k)]_vars

\* As long as a hold is valid its token list exists and names every night of
\* the stay, so that a release finds all there is to give back.
HeldIsReleasable ==
    \A r \in Request : Active(r) =>
        /\ tokenTTL[r] >= expires[r]
        /\ \A k \in StayNights(r) : Pushed(r, k) # {}

\* The store implements the pool of rooms: the holds that are handed out and
\* valid, each on all the nights of its stay.
Pool == INSTANCE RoomPool WITH
            Guest  <- Request,
            Nights <- Night,
            Units  <- Capacity,
            booked <- [r \in Request |-> IF Active(r) THEN StayNights(r) ELSE {}]

\* AcquireFastHold grants a stay on every night or not at all, and only while
\* each night has a unit that no valid hold uses; a valid hold never changes.
ImplementsPool == Pool!Spec

=============================================================================
