----------------------------- MODULE RateLimiter -----------------------------
(***************************************************************************)
(* The fixed-window rate limiter.  Its Map of buckets keeps the order in   *)
(* which keys were inserted, so it is a sequence here: a key that is set   *)
(* again stays where it is.                                                *)
(***************************************************************************)
EXTENDS Naturals, Sequences, FiniteSets, SequencesExt

CONSTANTS Window, MaxRequests, MaxBuckets
ASSUME RateLimiterAssumption ==
    Window \in Nat \ {0} /\ MaxRequests \in Nat \ {0} /\ MaxBuckets \in Nat \ {0}

Expired(bucket, t) == t >= bucket.resetAt
HasBucket(buckets, key) == \E b \in ToSet(buckets) : b.key = key
BucketOf(buckets, key) == CHOOSE b \in ToSet(buckets) : b.key = key

\* The bucket a request at time t is counted in.
Counted(buckets, key, t) ==
    LET existing == BucketOf(buckets, key) IN
    IF HasBucket(buckets, key) /\ ~Expired(existing, t)
    THEN [key |-> key, count |-> existing.count + 1, resetAt |-> existing.resetAt]
    ELSE [key |-> key, count |-> 1, resetAt |-> t + Window]

\* The buckets at the positions in kept, in the order they had.
Kept(buckets, kept) ==
    LET Place(n) == Cardinality({m \in kept : m =< n})
    IN [k \in 1..Cardinality(kept) |-> buckets[CHOOSE n \in kept : Place(n) = k]]
Live(buckets, t) == {n \in DOMAIN buckets : ~Expired(buckets[n], t)}

\* Room for a new key: first the expired buckets go, then the oldest.
\* BUG: one bucket too many.
MakeRoomLate(buckets, t) ==
    LET live == Kept(buckets, Live(buckets, t)) IN
    IF Len(buckets) =< MaxBuckets THEN buckets
    ELSE IF Len(live) =< MaxBuckets THEN live ELSE Tail(live)
MakeRoom(buckets, t) ==
    LET live == Kept(buckets, Live(buckets, t)) IN
    IF Len(buckets) < MaxBuckets THEN buckets
    ELSE IF Len(live) < MaxBuckets THEN live ELSE Tail(live)

\* BUG: room is made for a key that has its place.
TouchedMakingRoom(buckets, key, t) ==
    Append(SelectSeq(MakeRoom(buckets, t), LAMBDA b : b.key # key), Counted(buckets, key, t))
Touched(buckets, key, t) ==
    IF HasBucket(buckets, key)
    THEN [n \in DOMAIN buckets |->
            IF buckets[n].key = key THEN Counted(buckets, key, t) ELSE buckets[n]]
    ELSE Append(MakeRoom(buckets, t), Counted(buckets, key, t))

OverLimit(buckets, key, t) == Counted(buckets, key, t).count > MaxRequests
=============================================================================
