------------------------------ MODULE RateLimit ------------------------------
(***************************************************************************)
(* The fixed-window counter behind @RateLimit (ratelimit/storage.ts, class *)
(* MemoryStorage) as operators on its Map of buckets, a function whose     *)
(* domain is the set of keys that have a bucket.  Time is in milliseconds  *)
(* of the model's clock; the headers round it up to seconds.               *)
(***************************************************************************)
EXTENDS Naturals, Functions

CONSTANTS
    MaxHits,    \* hits of one key that a window allows
    WindowMs,   \* the length of a window
    SecondMs    \* model milliseconds in a second

ASSUME RateLimitAssumption ==
    MaxHits \in Nat /\ WindowMs \in Nat \ {0} /\ SecondMs \in Nat \ {0}

Bucket == [count : Nat, resetAt : Nat]
AreBuckets(b, keys) == DOMAIN b \subseteq keys /\ b \in [DOMAIN b -> Bucket]
NoBuckets == [k \in {} |-> [count |-> 0, resetAt |-> 0]]

Elapsed(bucket, now) == now >= bucket.resetAt

\* hit(): the bucket of the key after it.  A window that has elapsed, or was
\* swept, is followed by a new one.
HitBucket(buckets, key, now) ==
    IF key \in DOMAIN buckets /\ ~Elapsed(buckets[key], now)
    THEN [buckets[key] EXCEPT !.count = @ + 1]
    ELSE [count |-> 1, resetAt |-> now + WindowMs]

Hit(buckets, key, now) ==
    [k \in DOMAIN buckets \cup {key} |->
        IF k = key THEN HitBucket(buckets, key, now) ELSE buckets[k]]

Allowed(bucket) == bucket.count <= MaxHits

\* Slip: the sweep compares the wrong way and removes the windows in use.
SweptLive(buckets, now) ==
    Restrict(buckets, { k \in DOMAIN buckets : Elapsed(buckets[k], now) })

\* sweep(): the buckets it leaves.
Swept(buckets, now) ==
    Restrict(buckets, { k \in DOMAIN buckets : ~Elapsed(buckets[k], now) })

CeilSeconds(ms) == (ms + SecondMs - 1) \div SecondMs

\* The Retry-After header: the seconds until the window ends, never negative.
RetryAfter(bucket, now) ==
    IF now >= bucket.resetAt THEN 0 ELSE CeilSeconds(bucket.resetAt - now)
=============================================================================
