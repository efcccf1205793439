-------------------------- MODULE KeyedMutexProofs --------------------------
(***************************************************************************)
(* One turn per key and in the order of arrival, for any callers and keys. *)
(* TurnsInOrder is not inductive: a caller only looks at the promise it    *)
(* found.  What makes that enough is that the promise it found is the last *)
(* one of its key (LastIsTail, FoundIsLast) and that whoever has left was  *)
(* not overtaken (NotOvertaken).                                           *)
(***************************************************************************)
EXTENDS KeyedMutex, TLAPS

MutexTypes ==
    /\ MutexParameters
    /\ tails \in [Keys -> Callers \cup {NoCaller}]
    /\ previous \in [Callers -> Callers \cup {NoCaller}]
    /\ phase \in [Callers -> Phase]
    /\ keyOf \in [Callers -> Keys]
    /\ ticket \in [Callers -> Nat]
    /\ issued \in Nat

\* Who has arrived holds a ticket, and no two hold the same.
Arrived(n) == phase[n] # "idle"
Tickets ==
    /\ \A n \in Callers : ticket[n] =< issued /\ (Arrived(n) <=> 0 < ticket[n])
    /\ \A n, m \in Callers : Arrived(n) /\ ticket[n] = ticket[m] => n = m

SameKey(n, m) == Arrived(n) /\ Arrived(m) /\ keyOf[n] = keyOf[m]
Before(n, m) == SameKey(n, m) /\ ticket[n] < ticket[m]

\* A key that is forgotten has nobody left; one that is not has its last
\* arrival for a tail.
LastIsTail ==
    \A k \in Keys, n \in Callers : Arrived(n) /\ keyOf[n] = k =>
        /\ tails[k] = NoCaller => phase[n] = "gone"
        /\ tails[k] # NoCaller => SameKey(n, tails[k]) /\ ticket[n] =< ticket[tails[k]]
TailHasNotLeft ==
    \A k \in Keys : tails[k] # NoCaller =>
        phase[tails[k]] \in {"queued", "inside"} /\ keyOf[tails[k]] = k

\* What a queued caller found was the last arrival in front of it.
FoundIsLast ==
    \A n, m \in Callers : phase[m] = "queued" /\ Before(n, m) =>
        /\ previous[m] = NoCaller => phase[n] = "gone"
        /\ previous[m] # NoCaller => SameKey(n, previous[m]) /\ ticket[n] =< ticket[previous[m]]

NotOvertaken ==
    \A n, m \in Callers : phase[m] \in {"inside", "gone"} /\ Before(n, m) => phase[n] = "gone"

MutexInv ==
    /\ MutexTypes /\ Tickets /\ LastIsTail /\ TailHasNotLeft /\ FoundIsLast /\ NotOvertaken

LEMMA MutexStarts == MutexParameters /\ MutexInit => MutexInv
  BY DEF MutexInit, MutexInv, MutexTypes, Tickets, LastIsTail, TailHasNotLeft, FoundIsLast,
         NotOvertaken, Arrived, SameKey, Before, Phase

\* The newcomer is the last of its key; nothing changes for the others.
LEMMA EnqueueKeeps ==
  ASSUME MutexInv, NEW c \in Callers, NEW k \in Keys, Enqueue(c, k)
  PROVE  MutexInv'
  <1> USE DEF MutexParameters
  <1>1. \A n \in Callers \ {c} :
           /\ phase'[n] = phase[n] /\ keyOf'[n] = keyOf[n] /\ ticket'[n] = ticket[n]
           /\ previous'[n] = previous[n]
    BY DEF MutexInv, MutexTypes, Enqueue
  <1>2. /\ phase'[c] = "queued" /\ keyOf'[c] = k /\ ticket'[c] = issued + 1
        /\ previous'[c] = tails[k] /\ tails'[k] = c
        /\ \A j \in Keys \ {k} : tails'[j] = tails[j]
    BY DEF MutexInv, MutexTypes, Enqueue
  <1>3. ~Arrived(c) /\ issued \in Nat /\ issued' = issued + 1
    BY DEF MutexInv, MutexTypes, Enqueue, Arrived
  <1>4. MutexTypes'
    BY DEF MutexInv, MutexTypes, Enqueue, Phase
  <1>5. Tickets'
    BY <1>1, <1>2, <1>3 DEF MutexInv, MutexTypes, Tickets, Arrived
  <1>6. TailHasNotLeft'
    BY <1>1, <1>2, <1>3 DEF MutexInv, MutexTypes, TailHasNotLeft, Arrived
  <1>7. LastIsTail'
    BY <1>1, <1>2, <1>3 DEF MutexInv, MutexTypes, Tickets, LastIsTail, TailHasNotLeft, Arrived, SameKey
  <1>8. FoundIsLast'
    BY <1>1, <1>2, <1>3
       DEF MutexInv, MutexTypes, Tickets, LastIsTail, FoundIsLast, Arrived, SameKey, Before
  <1>9. NotOvertaken'
    BY <1>1, <1>2, <1>3 DEF MutexInv, MutexTypes, Tickets, NotOvertaken, Arrived, SameKey, Before
  <1> QED BY <1>4, <1>5, <1>6, <1>7, <1>8, <1>9 DEF MutexInv

\* Who enters waited for the last arrival in front of it, which left in turn.
LEMMA EnterKeeps ==
  ASSUME MutexInv, NEW c \in Callers, Enter(c)
  PROVE  MutexInv'
  <1>1. \A n \in Callers \ {c} : phase'[n] = phase[n]
    BY DEF MutexInv, MutexTypes, Enter
  <1>2. phase[c] = "queued" /\ phase'[c] = "inside" /\ MayEnter(c)
    BY DEF MutexInv, MutexTypes, Enter
  <1>3. UNCHANGED <<tails, previous, keyOf, ticket, issued>>
    BY DEF Enter
  <1>4. \A n \in Callers : Arrived(n)' <=> Arrived(n)
    BY <1>1, <1>2 DEF Arrived
  <1>5. \A n \in Callers : Before(n, c) => phase[n] = "gone"
    <2> SUFFICES ASSUME NEW n \in Callers, Before(n, c) PROVE phase[n] = "gone"
      OBVIOUS
    <2>1. CASE previous[c] = NoCaller
      BY <1>2, <2>1 DEF MutexInv, FoundIsLast
    <2>2. CASE previous[c] # NoCaller
      <3> DEFINE p == previous[c]
      <3>1. p \in Callers /\ phase[p] = "gone"
        BY <1>2, <2>2 DEF MutexInv, MutexTypes, MayEnter
      <3>2. SameKey(n, p) /\ ticket[n] =< ticket[p]
        BY <1>2, <2>2 DEF MutexInv, FoundIsLast
      <3>3. CASE n = p
        BY <3>1, <3>3
      <3>4. CASE n # p
        <4>1. ticket[n] < ticket[p]
          BY <3>1, <3>2, <3>4 DEF MutexInv, MutexTypes, Tickets, SameKey
        <4> QED BY <3>1, <3>2, <4>1 DEF MutexInv, NotOvertaken, Before
      <3> QED BY <3>3, <3>4
    <2> QED BY <2>1, <2>2
  <1>6. MutexTypes'
    BY DEF MutexInv, MutexTypes, Enter, Phase
  <1>7. Tickets'
    BY <1>3, <1>4 DEF MutexInv, Tickets
  <1>8. TailHasNotLeft'
    BY <1>1, <1>2, <1>3 DEF MutexInv, MutexTypes, TailHasNotLeft
  <1>9. LastIsTail'
    BY <1>1, <1>2, <1>3, <1>4 DEF MutexInv, MutexTypes, LastIsTail, SameKey
  <1>10. FoundIsLast'
    BY <1>1, <1>2, <1>3, <1>4 DEF MutexInv, MutexTypes, FoundIsLast, SameKey, Before
  <1>11. NotOvertaken'
    BY <1>1, <1>2, <1>3, <1>4, <1>5 DEF MutexInv, MutexTypes, NotOvertaken, SameKey, Before
  <1> QED BY <1>6, <1>7, <1>8, <1>9, <1>10, <1>11 DEF MutexInv

\* Who leaves a key it is the tail of leaves nobody behind.
LEMMA ReleaseKeeps ==
  ASSUME MutexInv, NEW c \in Callers, Release(c)
  PROVE  MutexInv'
  <1> USE DEF MutexParameters
  <1>1. \A n \in Callers \ {c} : phase'[n] = phase[n]
    BY DEF MutexInv, MutexTypes, Release
  <1>2. phase[c] = "inside" /\ phase'[c] = "gone"
    BY DEF MutexInv, MutexTypes, Release
  <1>3. UNCHANGED <<previous, keyOf, ticket, issued>>
    BY DEF Release
  <1>4. /\ \A k \in Keys \ {keyOf[c]} : tails'[k] = tails[k]
        /\ tails'[keyOf[c]] = IF tails[keyOf[c]] = c THEN NoCaller ELSE tails[keyOf[c]]
    BY DEF MutexInv, MutexTypes, Release
  <1>5. \A n \in Callers : Arrived(n)' <=> Arrived(n)
    BY <1>1, <1>2 DEF Arrived
  <1>6. MutexTypes'
    BY DEF MutexInv, MutexTypes, Release, Phase
  <1>7. \A n \in Callers : Before(n, c) => phase[n] = "gone"
    BY <1>2 DEF MutexInv, NotOvertaken
  <1>8. Tickets' /\ TailHasNotLeft'
    BY <1>1, <1>2, <1>3, <1>4, <1>5 DEF MutexInv, MutexTypes, Tickets, TailHasNotLeft
  <1>9. LastIsTail'
    BY <1>1, <1>2, <1>3, <1>4, <1>5, <1>7
       DEF MutexInv, MutexTypes, Tickets, LastIsTail, TailHasNotLeft, SameKey, Before
  <1>10. FoundIsLast'
    BY <1>1, <1>2, <1>3, <1>5 DEF MutexInv, MutexTypes, FoundIsLast, SameKey, Before
  <1>11. NotOvertaken'
    BY <1>1, <1>2, <1>3, <1>5, <1>7 DEF MutexInv, MutexTypes, NotOvertaken, SameKey, Before
  <1> QED BY <1>6, <1>8, <1>9, <1>10, <1>11 DEF MutexInv

LEMMA ProcessLostKeeps == MutexInv /\ ProcessLost => MutexInv'
  BY DEF MutexParameters, ProcessLost, MutexInv, MutexTypes, Tickets, LastIsTail, TailHasNotLeft, FoundIsLast,
         NotOvertaken, Arrived, SameKey, Before, Phase

LEMMA MutexStep == MutexInv /\ [MutexNext]_mutexVars => MutexInv'
  <1> SUFFICES ASSUME MutexInv, [MutexNext]_mutexVars PROVE MutexInv'
    OBVIOUS
  <1>1. CASE \E n \in Callers : (\E k \in Keys : Enqueue(n, k)) \/ Enter(n) \/ Release(n)
    BY <1>1, EnqueueKeeps, EnterKeeps, ReleaseKeeps
  <1>2. CASE ProcessLost
    BY <1>2, ProcessLostKeeps
  <1>3. CASE UNCHANGED mutexVars
    BY <1>3 DEF mutexVars, MutexInv, MutexTypes, Tickets, LastIsTail, TailHasNotLeft,
                FoundIsLast, NotOvertaken, Arrived, SameKey, Before
  <1> QED BY <1>1, <1>2, <1>3 DEF MutexNext

LEMMA OrderFollows == MutexInv => TurnsInOrder
  BY DEF MutexInv, MutexTypes, Tickets, NotOvertaken, TurnsInOrder, Arrived, SameKey, Before

\* However many callers and keys there are, whatever fails and whenever the
\* process ends: nobody is inside before everyone who came earlier for the same
\* key has left (keyed-mutex.ts).
THEOREM MutexOrder == MutexParameters /\ MutexSpec => []TurnsInOrder
  <1>1. MutexParameters /\ MutexSpec => []MutexInv
    BY MutexStarts, MutexStep, PTL DEF MutexSpec
  <1> QED BY <1>1, OrderFollows, PTL
=============================================================================
