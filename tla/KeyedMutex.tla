----------------------------- MODULE KeyedMutex -----------------------------
(***************************************************************************)
(* The promise chain behind one turn per key.  A caller replaces the tail  *)
(* of its key by a promise of its own and waits for the one it found; it   *)
(* resolves its own when it is done, whichever way it ends.                *)
(***************************************************************************)
EXTENDS Naturals

CONSTANTS
    Callers,    \* calls of runExclusive
    Keys,
    NoCaller    \* no promise

\* What the modules that instantiate this one must give it.
MutexParameters == NoCaller \notin Callers

VARIABLES
    tails,      \* tails[k]: the last promise of the key, named by its caller
    previous,   \* previous[n]: the promise the caller waits for
    phase,      \* phase[n]: not called, queued, inside fn, promise resolved or lost
    keyOf,      \* keyOf[n]: the key the caller gave
    ticket,     \* history: the callers' order of arrival
    issued      \* history: number of arrivals
mutexVars == <<tails, previous, phase, keyOf, ticket, issued>>

Phase == {"idle", "queued", "inside", "gone"}

MutexInit ==
    /\ tails = [k \in Keys |-> NoCaller]
    /\ previous = [n \in Callers |-> NoCaller]
    /\ phase = [n \in Callers |-> "idle"]
    /\ keyOf \in [Callers -> Keys]
    /\ ticket = [n \in Callers |-> 0]
    /\ issued = 0

\* The map's get and set happen before the first await.
Enqueue(n, k) ==
    /\ phase[n] = "idle"
    /\ previous' = [previous EXCEPT ![n] = tails[k]]
    /\ tails' = [tails EXCEPT ![k] = n]
    /\ phase' = [phase EXCEPT ![n] = "queued"]
    /\ keyOf' = [keyOf EXCEPT ![n] = k]
    /\ issued' = issued + 1
    /\ ticket' = [ticket EXCEPT ![n] = issued + 1]

\* await previous: fn starts when the promise in front is resolved.
MayEnter(n) == previous[n] # NoCaller => phase[previous[n]] = "gone"
Enter(n) ==
    /\ phase[n] = "queued" /\ MayEnter(n)
    /\ phase' = [phase EXCEPT ![n] = "inside"]
    /\ UNCHANGED <<tails, previous, keyOf, ticket, issued>>

\* finally: resolve, and forget the key when nobody queued up behind.
\* BUG: the key is forgotten whoever queued up behind.
ReleaseForgetting(n) ==
    /\ phase[n] = "inside"
    /\ phase' = [phase EXCEPT ![n] = "gone"]
    /\ tails' = [tails EXCEPT ![keyOf[n]] = NoCaller]
    /\ UNCHANGED <<previous, keyOf, ticket, issued>>
\* BUG: the promise of a caller with others behind it is never resolved.
ReleaseUnresolved(n) ==
    /\ phase[n] = "inside"
    /\ phase' = [phase EXCEPT ![n] = IF tails[keyOf[n]] = n THEN "gone" ELSE "inside"]
    /\ tails' = [tails EXCEPT ![keyOf[n]] = IF @ = n THEN NoCaller ELSE @]
    /\ UNCHANGED <<previous, keyOf, ticket, issued>>
Release(n) ==
    /\ phase[n] = "inside"
    /\ phase' = [phase EXCEPT ![n] = "gone"]
    /\ tails' = [tails EXCEPT ![keyOf[n]] = IF @ = n THEN NoCaller ELSE @]
    /\ UNCHANGED <<previous, keyOf, ticket, issued>>

\* The process ends, and with it the map and everyone in it.
ProcessLost ==
    /\ phase' = [n \in Callers |-> IF phase[n] = "idle" THEN "idle" ELSE "gone"]
    /\ tails' = [k \in Keys |-> NoCaller]
    /\ UNCHANGED <<previous, keyOf, ticket, issued>>

MutexNext ==
    \/ \E n \in Callers : (\E k \in Keys : Enqueue(n, k)) \/ Enter(n) \/ Release(n)
    \/ ProcessLost
MutexSpec == MutexInit /\ [][MutexNext]_mutexVars

-----------------------------------------------------------------------------
\* Who arrived later for the same key is not inside before the earlier one has
\* left: one run of a case at a time, in the order of the requests.
TurnsInOrder ==
    \A n, m \in Callers :
        /\ keyOf[n] = keyOf[m] /\ 0 < ticket[n] /\ ticket[n] < ticket[m]
        /\ phase[m] = "inside"
        => phase[n] = "gone"
=============================================================================
