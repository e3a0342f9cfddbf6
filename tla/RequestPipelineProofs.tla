------------------------ MODULE RequestPipelineProofs -------------------------
(***************************************************************************)
(* Theorems about RequestPipeline, for any requests, routes, limit, window *)
(* and clock.  The inductive invariant has two halves that do not depend   *)
(* on each other.  LimitInv keeps the windows that the admitted hits fell  *)
(* into, which MemoryStorage itself forgets.  Legal says of one context    *)
(* what its stage, its history and its answer have to do with each other;  *)
(* every step of the pipeline takes one legal context to another.          *)
(***************************************************************************)
EXTENDS RequestPipeline, Integers, TLAPS, FiniteSetTheorems, WellFoundedInduction

-----------------------------------------------------------------------------
(* The rate limiter. *)

\* The start of the current window, if there is one.
Start == buckets[Key].resetAt - WindowMs

\* w gives each admitted hit the start of its window: windows follow each other
\* without overlap, and none admits more than MaxHits.
Windows(w) ==
    /\ w \in [DOMAIN admitted -> Int]
    /\ \A i \in DOMAIN admitted : w[i] <= admitted[i] /\ admitted[i] < w[i] + WindowMs
    /\ \A i, j \in DOMAIN admitted :
          /\ i <= j => w[i] = w[j] \/ w[i] + WindowMs <= w[j]
          /\ i + MaxHits <= j => w[i] # w[j]

\* The current window has admitted no more hits than it has counted, and those
\* before it have elapsed.
Counted(w) ==
    IF Key \in DOMAIN buckets
    THEN \A i \in DOMAIN admitted :
            \/ w[i] = Start /\ Len(admitted) < i + buckets[Key].count
            \/ w[i] + WindowMs <= Start
    ELSE \A i \in DOMAIN admitted : w[i] + WindowMs <= now

LimitTypes ==
    /\ now \in 0..MaxTime
    /\ AreBuckets(buckets, {Key})
    /\ stopped \in BOOLEAN
    /\ admitted \in Seq(Nat)
    /\ \A i \in DOMAIN admitted : admitted[i] \in 0..now

\* Once the storage is closed nothing is admitted that the limit is about.
LimitInv ==
    /\ LimitTypes
    /\ Key \in DOMAIN buckets => Start <= now
    /\ \E w : Windows(w) /\ (stopped \/ Counted(w))

USE RateLimitAssumption

\* The clock has a bound.
LEMMA MaxTimeNat == MaxTime \in Nat
BY PipelineAssumption

\* An element that is appended stands last, and the others stay in place.
LEMMA Appended ==
    ASSUME NEW S, NEW s \in Seq(S), NEW e \in S
    PROVE  /\ Append(s, e) \in Seq(S) /\ Len(Append(s, e)) = Len(s) + 1
           /\ DOMAIN Append(s, e) = 1..Len(s) + 1
           /\ Append(s, e)[Len(s) + 1] = e
           /\ \A i \in 1..Len(s) : Append(s, e)[i] = s[i]
OBVIOUS

\* The storage is empty and nothing is admitted.
LEMMA InitLimit == Init => LimitInv
<1> SUFFICES ASSUME Init PROVE LimitInv
  OBVIOUS
<1>1. LimitTypes
  <2>1. AreBuckets(buckets, {Key})
    BY DEF Init, AreBuckets, NoBuckets
  <2>2. now \in 0..MaxTime
    BY MaxTimeNat DEF Init
  <2>5. stopped \in BOOLEAN
    BY DEF Init
  <2>4. admitted \in Seq(Nat)
    BY DEF Init
  <2>3. \A i \in DOMAIN admitted : admitted[i] \in 0..now
    BY DEF Init
  <2> QED BY <2>1, <2>2, <2>3, <2>4, <2>5 DEF LimitTypes
<1>2. Key \notin DOMAIN buckets
  BY DEF Init, NoBuckets
<1>3. DOMAIN admitted = {}
  BY DEF Init
<1>4. Windows([i \in {} |-> 0]) /\ Counted([i \in {} |-> 0])
  BY <1>2, <1>3 DEF Windows, Counted
<1> QED BY <1>1, <1>2, <1>4 DEF LimitInv

\* hit() counts in the window that is running, or opens one that begins now.
LEMMA HitBucketCounts ==
    ASSUME LimitTypes
    PROVE  LET b == HitBucket(buckets, Key, now) IN
           /\ b \in Bucket
           /\ \/ /\ Key \in DOMAIN buckets /\ now < buckets[Key].resetAt
                 /\ b.count = buckets[Key].count + 1 /\ b.resetAt = buckets[Key].resetAt
              \/ /\ Key \in DOMAIN buckets => buckets[Key].resetAt <= now
                 /\ b.count = 1 /\ b.resetAt = now + WindowMs
           /\ AreBuckets(Hit(buckets, Key, now), {Key})
           /\ DOMAIN Hit(buckets, Key, now) = {Key}
           /\ Hit(buckets, Key, now)[Key] = b
<1> DEFINE b == HitBucket(buckets, Key, now)
<1>1. now \in Nat /\ DOMAIN buckets \subseteq {Key} /\ buckets \in [DOMAIN buckets -> Bucket]
  BY DEF LimitTypes, AreBuckets
<1>2. CASE Key \in DOMAIN buckets /\ ~(now >= buckets[Key].resetAt)
  <2>1. buckets[Key] \in Bucket
    BY <1>1, <1>2
  <2>2. b = [buckets[Key] EXCEPT !.count = @ + 1]
    BY <1>2 DEF HitBucket, Elapsed
  <2>3. /\ b \in Bucket /\ now < buckets[Key].resetAt
        /\ b.count = buckets[Key].count + 1 /\ b.resetAt = buckets[Key].resetAt
    BY <1>1, <1>2, <2>1, <2>2 DEF Bucket
  <2> HIDE DEF b
  <2>4. Hit(buckets, Key, now) = [k \in {Key} |-> b]
    BY <1>1, <1>2 DEF Hit, b
  <2> QED BY <1>2, <2>3, <2>4 DEF AreBuckets, b
<1>3. CASE ~(Key \in DOMAIN buckets /\ ~(now >= buckets[Key].resetAt))
  <2>1. b = [count |-> 1, resetAt |-> now + WindowMs]
    BY <1>3 DEF HitBucket, Elapsed
  <2>2. b \in Bucket /\ b.count = 1 /\ b.resetAt = now + WindowMs
    BY <1>1, <2>1 DEF Bucket
  <2>3. Key \in DOMAIN buckets => buckets[Key].resetAt <= now
    BY <1>3, <1>1 DEF Bucket
  <2> HIDE DEF b
  <2>4. Hit(buckets, Key, now) = [k \in {Key} |-> b]
    BY <1>1 DEF Hit, b
  <2> QED BY <2>2, <2>3, <2>4 DEF AreBuckets, b
<1> QED BY <1>2, <1>3

\* A hit that is allowed joins the window it is counted in; one that is not
\* only counts.
LEMMA HitKeepsLimit ==
    ASSUME LimitInv,
           LET b == HitBucket(buckets, Key, now) IN
           /\ buckets' = Hit(buckets, Key, now)
           /\ admitted' = IF Allowed(b) /\ ~stopped THEN Append(admitted, now) ELSE admitted
           /\ UNCHANGED <<now, stopped>>
    PROVE  LimitInv'
<1> DEFINE b == HitBucket(buckets, Key, now)
           start == b.resetAt - WindowMs
           last == Len(admitted)
<1>1. /\ LimitTypes /\ (Key \in DOMAIN buckets => Start <= now)
      /\ now \in Nat /\ now \in 0..MaxTime /\ stopped \in BOOLEAN /\ admitted \in Seq(Nat)
      /\ DOMAIN admitted = 1..last /\ last \in Nat
      /\ \A i \in 1..last : admitted[i] \in 0..now
      /\ Key \in DOMAIN buckets => buckets[Key].resetAt \in Nat /\ buckets[Key].count \in Nat
  BY DEF LimitInv, LimitTypes, AreBuckets, Bucket
<1>2. /\ b \in Bucket /\ b.count \in Nat /\ b.resetAt \in Nat /\ b.count >= 1
      /\ \/ /\ Key \in DOMAIN buckets /\ now < buckets[Key].resetAt
            /\ b.count = buckets[Key].count + 1 /\ b.resetAt = buckets[Key].resetAt
         \/ /\ Key \in DOMAIN buckets => buckets[Key].resetAt <= now
            /\ b.count = 1 /\ b.resetAt = now + WindowMs
      /\ AreBuckets(buckets', {Key}) /\ DOMAIN buckets' = {Key} /\ buckets'[Key] = b
  <2>1. b \in Bucket => b.count \in Nat /\ b.resetAt \in Nat
    BY DEF Bucket
  <2> HIDE DEF b
  <2> QED BY <1>1, <2>1, HitBucketCounts DEF b
<1>3. /\ admitted' = IF b.count <= MaxHits /\ ~stopped THEN Append(admitted, now) ELSE admitted
      /\ UNCHANGED <<now, stopped>>
  BY DEF Allowed
<1> HIDE DEF b
<1>4. Start' = start /\ start <= now /\ now < start + WindowMs /\ start \in Int
  BY <1>1, <1>2 DEF Start
<1>n. /\ Key \in DOMAIN buckets =>
            /\ Start \in Int /\ buckets[Key].count \in Nat
            /\ \/ Start = start /\ b.count = buckets[Key].count + 1
               \/ Start + WindowMs <= start
      /\ Key \notin DOMAIN buckets => start = now
  BY <1>1, <1>2 DEF Start
<1>l. last = Len(admitted)
  OBVIOUS
<1>5. LimitTypes'
  <2>1. admitted' \in Seq(Nat) /\ \A i \in DOMAIN admitted' : admitted'[i] \in 0..now
    <3>1. CASE admitted' = Append(admitted, now)
      BY <1>1, <3>1
    <3> QED BY <1>1, <1>3, <3>1
  <2> QED BY <1>1, <1>2, <1>3, <2>1 DEF LimitTypes
<1> HIDE DEF start, last
<1>6. PICK w : Windows(w) /\ (stopped \/ Counted(w))
  BY DEF LimitInv
<1>7. /\ \A i \in 1..last : w[i] \in Int /\ w[i] <= admitted[i] /\ admitted[i] < w[i] + WindowMs
      /\ \A i, j \in 1..last : /\ i <= j => w[i] = w[j] \/ w[i] + WindowMs <= w[j]
                            /\ i + MaxHits <= j => w[i] # w[j]
  BY <1>1, <1>6 DEF Windows
<1>8. CASE stopped
  <2>1. Windows(w)'
    BY <1>1, <1>3, <1>6, <1>8 DEF Windows
  <2> QED BY <1>2, <1>3, <1>4, <1>5, <1>8, <2>1 DEF LimitInv
<1>9. CASE ~stopped
  <2>1. ASSUME NEW i \in 1..last
        PROVE  \/ w[i] = start /\ last + 1 < i + b.count
               \/ w[i] + WindowMs <= start
    <3>1. CASE Key \in DOMAIN buckets
      <4>1. \/ w[i] = Start /\ last < i + buckets[Key].count
            \/ w[i] + WindowMs <= Start
        BY <1>1, <1>6, <1>9, <1>l, <3>1 DEF Counted
      <4>2. last \in Nat /\ i \in Nat /\ w[i] \in Int /\ b.count \in Nat
        BY <1>1, <1>2, <1>7
      <4> QED BY <1>4, <1>n, <3>1, <4>1, <4>2
    <3>2. CASE Key \notin DOMAIN buckets
      <4>1. w[i] + WindowMs <= now
        BY <1>1, <1>6, <1>9, <3>2 DEF Counted
      <4> QED BY <1>n, <3>2, <4>1
    <3> QED BY <3>1, <3>2
  <2>2. CASE b.count > MaxHits
    <3>1. admitted' = admitted
      BY <1>2, <1>3, <2>2
    <3>2. Windows(w)'
      BY <1>6, <3>1 DEF Windows
    <3>3. Counted(w)'
      <4>1. \A i \in 1..last : last + 1 < i + b.count => last < i + b.count
        BY <1>1, <1>2
      <4> QED BY <1>1, <1>2, <1>4, <1>l, <2>1, <3>1, <4>1 DEF Counted
    <3> QED BY <1>2, <1>3, <1>4, <1>5, <3>2, <3>3 DEF LimitInv
  <2>3. CASE b.count <= MaxHits
    <3>0. PICK v : v = [i \in 1..last + 1 |-> IF i = last + 1 THEN start ELSE w[i]]
      OBVIOUS
    <3>1. /\ admitted' = Append(admitted, now) /\ DOMAIN admitted' = 1..last + 1
          /\ Len(admitted') = last + 1 /\ admitted'[last + 1] = now
          /\ \A i \in 1..last : admitted'[i] = admitted[i]
      <4>1. admitted' = Append(admitted, now)
        BY <1>3, <1>9, <2>3
      <4>2. /\ Len(Append(admitted, now)) = last + 1
            /\ DOMAIN Append(admitted, now) = 1..last + 1
            /\ Append(admitted, now)[last + 1] = now
            /\ \A i \in 1..last : Append(admitted, now)[i] = admitted[i]
        BY <1>1, <1>l, Appended
      <4> QED BY <4>1, <4>2
    <3>2. /\ v[last + 1] = start
          /\ \A i \in 1..last : v[i] = w[i]
          /\ v \in [DOMAIN admitted' -> Int]
      BY <1>1, <1>4, <1>7, <3>0, <3>1
    <3>3. ASSUME NEW i \in DOMAIN admitted'
          PROVE  v[i] <= admitted'[i] /\ admitted'[i] < v[i] + WindowMs
      <4>1. CASE i \in 1..last
        BY <1>7, <3>1, <3>2, <4>1
      <4>2. CASE i = last + 1
        BY <1>4, <3>1, <3>2, <4>2
      <4> QED BY <1>1, <3>1, <4>1, <4>2
    <3>4. ASSUME NEW i \in DOMAIN admitted', NEW j \in DOMAIN admitted'
          PROVE  /\ i <= j => v[i] = v[j] \/ v[i] + WindowMs <= v[j]
                 /\ i + MaxHits <= j => v[i] # v[j]
      <4>n. last \in Nat /\ i \in 1..last + 1 /\ j \in 1..last + 1 /\ b.count \in Nat
        BY <1>1, <1>2, <3>1
      <4>1. CASE j \in 1..last
        <5>1. CASE i \in 1..last
          <6>1. v[i] = w[i] /\ v[j] = w[j]
            BY <3>2, <4>1, <5>1
          <6>2. /\ i <= j => w[i] = w[j] \/ w[i] + WindowMs <= w[j]
                /\ i + MaxHits <= j => w[i] # w[j]
            <7>1. i \in DOMAIN admitted /\ j \in DOMAIN admitted
              BY <1>1, <4>1, <5>1
            <7> QED BY <1>6, <7>1 DEF Windows
          <6> QED BY <6>1, <6>2
        <5>2. CASE i = last + 1
          BY <4>n, <4>1, <5>2
        <5> QED BY <4>n, <5>1, <5>2
      <4>2. CASE j = last + 1 /\ i \in 1..last
        <5>1. w[i] \in Int /\ v[i] = w[i] /\ v[j] = start /\ start \in Int
          BY <1>4, <1>7, <3>2, <4>2
        <5>2. \/ w[i] = start /\ last + 1 < i + b.count
              \/ w[i] + WindowMs <= start
          BY <2>1, <4>2
        <5> QED BY <2>3, <4>n, <4>2, <5>1, <5>2
      <4>3. CASE j = last + 1 /\ i = last + 1
        BY <1>1, <1>2, <2>3, <3>2, <4>3
      <4> QED BY <1>1, <3>1, <4>1, <4>2, <4>3
    <3>5. Windows(v)'
      BY <3>2, <3>3, <3>4 DEF Windows
    <3>6. Counted(v)'
      <4>1. ASSUME NEW i \in DOMAIN admitted'
            PROVE  \/ v[i] = Start' /\ Len(admitted') < i + b.count
                   \/ v[i] + WindowMs <= Start'
        <5>1. CASE i \in 1..last
          BY <1>4, <2>1, <3>1, <3>2, <5>1
        <5>2. CASE i = last + 1
          BY <1>1, <1>2, <1>4, <3>1, <3>2, <5>2
        <5> QED BY <1>1, <3>1, <5>1, <5>2
      <4>2. Key \in DOMAIN buckets' /\ buckets'[Key].count = b.count
        BY <1>2
      <4> HIDE DEF start
      <4> QED BY <4>1, <4>2 DEF Counted
    <3> QED BY <1>2, <1>3, <1>4, <1>5, <3>5, <3>6 DEF LimitInv
  <2> QED BY <1>2, <2>2, <2>3
<1> QED BY <1>8, <1>9, <1>1

\* The sweep takes away only windows that have elapsed.
LEMMA SweepKeepsLimit ==
    ASSUME LimitInv, Sweep
    PROVE  LimitInv'
<1>1. LimitTypes /\ buckets' = Swept(buckets, now) /\ UNCHANGED <<now, stopped, admitted>>
  BY DEF LimitInv, Sweep
<1>2. /\ DOMAIN buckets \subseteq {Key} /\ buckets \in [DOMAIN buckets -> Bucket]
      /\ now \in Nat /\ now \in 0..MaxTime
  BY <1>1 DEF LimitTypes, AreBuckets
<1>3. /\ DOMAIN buckets' = {k \in DOMAIN buckets : ~Elapsed(buckets[k], now)}
      /\ buckets' = [k \in DOMAIN buckets' |-> buckets[k]]
  BY <1>1 DEF Swept, Restrict
<1>4. LimitTypes'
  BY <1>1, <1>2, <1>3 DEF LimitTypes, AreBuckets
<1>5. PICK w : Windows(w) /\ (stopped \/ Counted(w))
  BY DEF LimitInv
<1>6. Windows(w)'
  BY <1>1, <1>5 DEF Windows
<1>7. CASE Key \in DOMAIN buckets'
  <2>1. Key \in DOMAIN buckets /\ buckets'[Key] = buckets[Key]
    BY <1>3, <1>7
  <2> QED BY <1>1, <1>4, <1>5, <1>6, <1>7, <2>1 DEF LimitInv, Counted, Start
<1>8. CASE Key \notin DOMAIN buckets'
  <2>1. CASE Key \in DOMAIN buckets
    <3>1. buckets[Key].resetAt <= now /\ buckets[Key].resetAt \in Nat
      BY <1>2, <1>3, <1>8, <2>1 DEF Elapsed, Bucket
    <3>2. Counted(w) => Counted(w)'
      <4> SUFFICES ASSUME Counted(w), NEW i \in DOMAIN admitted
                   PROVE  w[i] + WindowMs <= now
        BY <1>1, <1>8 DEF Counted
      <4>1. w[i] = Start \/ w[i] + WindowMs <= Start
        BY <2>1 DEF Counted
      <4>2. w[i] \in Int
        BY <1>5 DEF Windows
      <4> QED BY <1>2, <3>1, <4>1, <4>2 DEF Start
    <3> QED BY <1>1, <1>4, <1>5, <1>6, <1>8, <3>2 DEF LimitInv
  <2>2. CASE Key \notin DOMAIN buckets
    BY <1>1, <1>4, <1>5, <1>6, <1>8, <2>2 DEF LimitInv, Counted
  <2> QED BY <2>1, <2>2
<1> QED BY <1>7, <1>8

\* The clock and the end of the storage.
LEMMA ClockKeepsLimit ==
    ASSUME LimitInv, Tick \/ Stop
    PROVE  LimitInv'
<1>1. /\ LimitTypes /\ UNCHANGED admitted
      /\ admitted \in Seq(Nat) /\ DOMAIN admitted = 1..Len(admitted)
  BY DEF LimitInv, LimitTypes, Tick, Stop
<1>2. PICK w : Windows(w) /\ (stopped \/ Counted(w))
  BY DEF LimitInv
<1>3. Windows(w)'
  BY <1>1, <1>2 DEF Windows
<1>4. CASE Tick
  <2>1. now \in Nat /\ now' = now + 1 /\ now' \in 0..MaxTime /\ UNCHANGED <<buckets, stopped>>
    BY <1>1, <1>4, MaxTimeNat DEF Tick, LimitTypes
  <2>2. LimitTypes'
    BY <1>1, <2>1 DEF LimitTypes
  <2>3. Counted(w) => Counted(w)'
    <3>1. \A i \in DOMAIN admitted : w[i] \in Int
      BY <1>2 DEF Windows
    <3> QED BY <1>1, <2>1, <3>1 DEF Counted, Start
  <2>4. Key \in DOMAIN buckets => Start <= now'
    <3>1. Key \in DOMAIN buckets => buckets[Key].resetAt \in Nat /\ Start <= now
      BY <1>1 DEF LimitInv, LimitTypes, AreBuckets, Bucket
    <3> QED BY <2>1, <3>1 DEF Start
  <2>5. Start' = Start
    BY <2>1 DEF Start
  <2> QED BY <1>2, <1>3, <2>1, <2>2, <2>3, <2>4, <2>5 DEF LimitInv
<1>5. CASE Stop
  <2>1. stopped' /\ buckets' = NoBuckets /\ UNCHANGED now
    BY <1>5 DEF Stop
  <2>2. AreBuckets(buckets', {Key}) /\ Key \notin DOMAIN buckets'
    BY <2>1 DEF AreBuckets, NoBuckets
  <2> QED BY <1>1, <1>3, <2>1, <2>2 DEF LimitInv, LimitTypes
<1> QED BY <1>4, <1>5

\* Hits 2 * MaxHits apart are a whole window apart: between them lies a window
\* that neither is in.
LEMMA TwoWindowsApart ==
    ASSUME LimitInv, NEW i \in DOMAIN admitted, NEW j \in DOMAIN admitted,
           i + 2 * MaxHits <= j
    PROVE  admitted[i] + WindowMs <= admitted[j]
<1>1. admitted \in Seq(Nat) /\ i \in Nat /\ j \in Nat /\ DOMAIN admitted = 1..Len(admitted)
      /\ admitted[i] \in Nat /\ admitted[j] \in Nat
  BY DEF LimitInv, LimitTypes
<1>2. PICK w : Windows(w)
  BY DEF LimitInv
<1> DEFINE m == i + MaxHits
<1>3. m \in DOMAIN admitted /\ i <= m /\ m <= j /\ m + MaxHits <= j
  BY <1>1
<1>4. /\ w[i] \in Int /\ w[m] \in Int /\ w[j] \in Int
      /\ w[i] + WindowMs <= w[m] /\ w[m] + WindowMs <= w[j]
  <2> HIDE DEF m
  <2>1. i + MaxHits <= m
    BY <1>1 DEF m
  <2> QED BY <1>2, <1>3, <2>1 DEF Windows
<1>5. admitted[i] < w[i] + WindowMs /\ w[j] <= admitted[j]
  BY <1>2 DEF Windows
<1> HIDE DEF m
<1> QED BY <1>1, <1>4, <1>5, SMTT(30)

\* Every set of natural numbers that is not empty has a smallest one.
LEMMA SmallestElement ==
    ASSUME NEW S \in SUBSET Nat, S # {}
    PROVE  \E m \in S : \A n \in S : m <= n
<1>1. IsWellFoundedOn(OpToRel(<, Nat), Nat)
  BY NatLessThanWellFounded
<1>2. PICK m \in S : \A n \in S : <<n, m>> \notin OpToRel(<, Nat)
  <2> HIDE DEF OpToRel
  <2> QED BY <1>1, WFMin
<1>3. ASSUME NEW n \in S PROVE m <= n
  <2>1. ~(n < m)
    BY <1>2 DEF OpToRel
  <2> QED BY <2>1
<1> QED BY <1>3

\* The hits of one window's length lie within 2 * MaxHits of the first of them.
LEMMA LimitBounds == LimitInv => AtMostTwiceTheLimit
<1> SUFFICES ASSUME LimitInv, NEW t \in 0..MaxTime
             PROVE  Cardinality({i \in DOMAIN admitted : admitted[i] \in t..(t + WindowMs - 1)})
                        <= 2 * MaxHits
  BY DEF AtMostTwiceTheLimit
<1> DEFINE S == {i \in DOMAIN admitted : admitted[i] \in t..(t + WindowMs - 1)}
<1>1. /\ S \subseteq DOMAIN admitted /\ S \in SUBSET Nat
      /\ \A i \in DOMAIN admitted : admitted[i] \in Nat
  BY DEF LimitInv, LimitTypes
<1>2. t \in Nat
  BY MaxTimeNat
<1>3. CASE S = {}
  <2>1. Cardinality(S) = 0 /\ 2 * MaxHits >= 0
    BY <1>3, FS_EmptySet
  <2> QED BY <2>1
<1>4. CASE S # {}
  <2>1. PICK m \in S : \A i \in S : m <= i
    BY <1>1, <1>4, SmallestElement
  <2>2. ASSUME NEW i \in S PROVE i \in m..(m + 2 * MaxHits - 1)
    <3>1. /\ admitted[m] \in Nat /\ admitted[i] \in Nat /\ m \in Nat /\ i \in Nat
          /\ admitted[m] >= t /\ admitted[i] <= t + WindowMs - 1 /\ m <= i
      BY <1>1, <1>2, <2>1
    <3>2. ~(m + 2 * MaxHits <= i)
      <4> SUFFICES ASSUME m + 2 * MaxHits <= i PROVE FALSE
        OBVIOUS
      <4>1. admitted[m] + WindowMs <= admitted[i]
        BY <1>1, <2>1, TwoWindowsApart
      <4> QED BY <1>2, <3>1, <4>1
    <3> QED BY <3>1, <3>2
  <2> DEFINE T == m..(m + 2 * MaxHits - 1)
  <2>3. m \in Nat
    BY <1>1
  <2>4. IsFiniteSet(T) /\ Cardinality(T) <= 2 * MaxHits /\ Cardinality(T) \in Nat
    <3>1. m \in Int /\ m + 2 * MaxHits - 1 \in Int
      BY <2>3
    <3>2. /\ IsFiniteSet(T)
          /\ Cardinality(T) = IF m > m + 2 * MaxHits - 1 THEN 0 ELSE (m + 2 * MaxHits - 1) - m + 1
      BY <3>1, FS_Interval
    <3> QED BY <2>3, <3>2
  <2>5. S \in SUBSET T
    BY <2>2
  <2> HIDE DEF S, T
  <2>6. IsFiniteSet(S) /\ Cardinality(S) <= Cardinality(T)
    BY <2>4, <2>5, FS_Subset
  <2>7. Cardinality(S) \in Nat
    BY <2>6, FS_CardinalityType
  <2>8. Cardinality(S) <= 2 * MaxHits
    BY <2>4, <2>6, <2>7
  <2> QED BY <2>8 DEF S
<1> QED BY <1>3, <1>4

-----------------------------------------------------------------------------
(* The context of one request. *)

Errors == {"badRequest", "unauthorized", "forbidden", "other", "tooMany", "zod", "error"}
Event == {"admitted", "passed", "unreadable", "invalid", "handled", "chosen"} \cup Errors
Statuses == {0, 200, 204, 400, 401, 403, 409, 429, 500}

Context ==
    [ stage : Stage, content : Contents, step : Nat, taken : BOOLEAN,
      bodyRead : BOOLEAN, jwt : BOOLEAN, headers : SUBSET Header, status : Statuses,
      answer : SUBSET Header, retryAfter : Nat, bucket : Bucket,
      aborted : BOOLEAN, span : BOOLEAN, stream : Stream, took : BOOLEAN,
      log : Seq(Event) ]

All(r) == Guards(RouteOf[r])

\* What the history says when n guards have passed.
Prior(r, n) ==
    (IF Limited(r) THEN <<"admitted">> ELSE << >>) \o [i \in 1..n |-> "passed"]
Paid(r, c, n) == (\E i \in 1..n : All(r)[i] = "jwt") => c.jwt

\* Limit, guards and handler come in this order.
Logged(r, c) ==
    /\ c.stage \in {"new", "limit"} => c.log = << >>
    /\ c.stage = "limit" => Limited(r)
    /\ c.stage = "guards" => /\ c.step \in 1..Len(All(r))
                             /\ c.log = Prior(r, c.step - 1) /\ Paid(r, c, c.step - 1)
    /\ c.stage = "params" => c.log = Prior(r, Len(All(r))) /\ Paid(r, c, Len(All(r)))
    /\ c.stage \in {"handler", "streaming"} =>
          c.log = Append(Prior(r, Len(All(r))), "handled") /\ Paid(r, c, Len(All(r)))

\* The stream was taken by a guard or for a parameter that comes before.
Read(r, c) ==
    /\ c.stage \in {"new", "limit", "guards"} => ~c.bodyRead /\ (c.taken => c.took)
    /\ c.stage = "params" =>
          /\ c.step \in 1..Len(RouteOf[r].params) + 1
          /\ c.taken => c.took \/ \E i \in 1..c.step - 1 : RouteOf[r].params[i].source # "plain"
          /\ ~c.bodyRead => \A i \in 1..c.step - 1 : RouteOf[r].params[i].source # "body"

\* The headers are collected in the order of the stages.
Headed(r, c) ==
    /\ c.stage \in {"limit", "guards", "params", "handler"} => "static" \in c.headers
    /\ c.stage \in {"guards", "params", "handler"} /\ Limited(r) => "rate limit" \in c.headers

\* Why a body may not be readable.
Unreadable(r, c) ==
    \/ c.content = "broken json"
    \/ HasParam(r, "form") /\ c.content # "multipart"
    \/ HasParam(r, "form") /\ Cardinality(Readers(r)) > 1
    \/ c.took

Handled(r, c) ==
    "handled" \in ToSet(c.log) =>
        /\ IsPrefix(Append(Prior(r, Len(All(r))), "handled"), c.log)
        /\ Paid(r, c, Len(All(r)))

Refused(r, c) ==
    /\ Limited(r) /\ c.bucket.count > MaxHits /\ c.retryAfter >= c.bucket.resetAt

\* What the history and the headers of an answer tell, whoever chose its status.
Told(r, c, headers) ==
    /\ "tooMany" \in ToSet(c.log) =>
          /\ Refused(r, c) /\ "retry-after" \in headers
          /\ "passed" \notin ToSet(c.log) /\ "handled" \notin ToSet(c.log)
    /\ "unreadable" \in ToSet(c.log) => Unreadable(r, c)
    /\ "admitted" \in ToSet(c.log) \/ "tooMany" \in ToSet(c.log) => "rate limit" \in headers
    /\ "static" \in headers
    /\ Handled(r, c)

\* Why the framework gives an answer this status.
Reason(r, c, status) ==
    /\ status = 429 => "tooMany" \in ToSet(c.log)
    /\ status = 401 => "jwt" \in ToSet(All(r))
    /\ status = 403 => "custom" \in ToSet(All(r))
    /\ status = 400 => "unreadable" \in ToSet(c.log) \/ "invalid" \in ToSet(c.log)
    /\ status \in {429, 401, 403, 400} => "handled" \notin ToSet(c.log)
    /\ status \in {200, 204} => "handled" \in ToSet(c.log)

\* An answer has its reason in the history, unless user code chose it.
Reasoned(r, c) ==
    c.stage = "answered" =>
        /\ "chosen" \in ToSet(c.log) \/ Reason(r, c, c.status)
        /\ Told(r, c, c.answer)

Typed(c) ==
    /\ c \in Context /\ LetsGo(c.stream)
    /\ c.span <=> c.stage \notin {"new", "streaming", "answered"}
    /\ c.status # 0 <=> c.stage \in {"streaming", "answered"}

Legal(r, c) == Typed(c) /\ Logged(r, c) /\ Read(r, c) /\ Headed(r, c) /\ Reasoned(r, c)

ContextsInv ==
    /\ req \in [Requests -> Context]
    /\ \A r \in Requests : Legal(r, req[r])

\* The status of an exception tells which it is, other than 400.
LEMMA StatusFacts ==
    /\ Exceptions = Errors
    /\ \A e \in Errors : /\ StatusOf[e] \in Statuses \ {0, 200, 204}
                         /\ StatusOf[e] = 429 => e = "tooMany"
                         /\ StatusOf[e] = 401 => e = "unauthorized"
                         /\ StatusOf[e] = 403 => e = "forbidden"
                         /\ StatusOf[e] = 400 => e \in {"badRequest", "zod"}
BY DEF Exceptions, StatusOf, Errors, Statuses

\* The routes are what buildRoutes() makes of the metadata.
LEMMA RouteFacts ==
    ASSUME NEW r \in Requests
    PROVE  /\ RouteOf[r].limited \in BOOLEAN /\ RouteOf[r].sse \in BOOLEAN
           /\ RouteOf[r].params \in Seq(Param)
           /\ All(r) \in Seq(Guard) /\ Len(All(r)) \in Nat
           /\ DOMAIN RouteOf[r].params = 1..Len(RouteOf[r].params)
           /\ RouteOf[r].contents \subseteq Contents
<1>1. /\ RouteOf[r].classGuards \in Seq(Guard) /\ RouteOf[r].routeGuards \in Seq(Guard)
      /\ RouteOf[r].params \in Seq(Param) /\ RouteOf[r].contents \subseteq Contents
      /\ RouteOf[r].limited \in BOOLEAN /\ RouteOf[r].sse \in BOOLEAN
  BY PipelineAssumption
<1>2. All(r) \in Seq(Guard)
  BY <1>1 DEF All, Guards
<1> QED BY <1>1, <1>2

\* The elements of two sequences in a row are those of both.
LEMMA Concatenated ==
    ASSUME NEW s \in Seq(Event), NEW t \in Seq(Event), NEW e \in Event
    PROVE  /\ s \o t \in Seq(Event)
           /\ s \o << >> = s
           /\ Append(s \o t, e) = s \o Append(t, e)
           /\ ToSet(s \o t) = ToSet(s) \cup ToSet(t)
<1>1. /\ s \o t \in Seq(Event) /\ Len(s \o t) = Len(s) + Len(t)
      /\ Len(s) \in Nat /\ Len(t) \in Nat
      /\ DOMAIN s = 1..Len(s) /\ DOMAIN t = 1..Len(t) /\ DOMAIN (s \o t) = 1..Len(s) + Len(t)
      /\ \A i \in 1..Len(s) : (s \o t)[i] = s[i]
      /\ \A i \in 1..Len(t) : (s \o t)[Len(s) + i] = t[i]
  OBVIOUS
<1>2. s \o << >> = s
  OBVIOUS
<1>3. Append(s \o t, e) = s \o Append(t, e)
  OBVIOUS
<1>4. ASSUME NEW x \in ToSet(s \o t) PROVE x \in ToSet(s) \cup ToSet(t)
  <2>1. PICK i \in 1..Len(s) + Len(t) : x = (s \o t)[i]
    BY <1>1, <1>4 DEF ToSet
  <2>2. CASE i \in 1..Len(s)
    BY <1>1, <2>1, <2>2 DEF ToSet
  <2>3. CASE i \notin 1..Len(s)
    <3>1. i - Len(s) \in 1..Len(t) /\ i = Len(s) + (i - Len(s))
      BY <1>1, <2>1, <2>3
    <3>2. x = t[i - Len(s)]
      BY <1>1, <2>1, <3>1
    <3> QED BY <1>1, <3>1, <3>2 DEF ToSet
  <2> QED BY <2>2, <2>3
<1>5. ASSUME NEW x \in ToSet(s) PROVE x \in ToSet(s \o t)
  <2>1. PICK i \in 1..Len(s) : x = s[i]
    BY <1>1, <1>5 DEF ToSet
  <2>2. i \in 1..Len(s) + Len(t) /\ x = (s \o t)[i]
    BY <1>1, <2>1
  <2> QED BY <1>1, <2>2 DEF ToSet
<1>6. ASSUME NEW x \in ToSet(t) PROVE x \in ToSet(s \o t)
  <2>1. PICK i \in 1..Len(t) : x = t[i]
    BY <1>1, <1>6 DEF ToSet
  <2>2. Len(s) + i \in 1..Len(s) + Len(t) /\ x = (s \o t)[Len(s) + i]
    BY <1>1, <2>1
  <2> QED BY <1>1, <2>2 DEF ToSet
<1> QED BY <1>1, <1>2, <1>3, <1>4, <1>5, <1>6

\* The history of the first n guards, event by event.
LEMMA PriorFacts ==
    ASSUME NEW r \in Requests, NEW n \in Nat
    PROVE  /\ Prior(r, n) \in Seq(Event)
           /\ Prior(r, 0) = IF Limited(r) THEN <<"admitted">> ELSE << >>
           /\ Append(Prior(r, n), "passed") = Prior(r, n + 1)
           /\ ToSet(Prior(r, n)) \subseteq {"admitted", "passed"}
           /\ "admitted" \in ToSet(Prior(r, n)) <=> Limited(r)
<1> DEFINE a == IF Limited(r) THEN <<"admitted">> ELSE << >>
           P(k) == [i \in 1..k |-> "passed"]
<1>0. "admitted" \in Event /\ "passed" \in Event
  BY DEF Event
<1>1. /\ a \in Seq(Event)
      /\ ToSet(a) \subseteq {"admitted"}
      /\ "admitted" \in ToSet(a) <=> Limited(r)
  <2>1. Limited(r) \in BOOLEAN
    BY RouteFacts DEF Limited
  <2>2. CASE Limited(r)
    BY <1>0, <2>2 DEF ToSet
  <2>3. CASE ~Limited(r)
    BY <2>3 DEF ToSet
  <2> QED BY <2>1, <2>2, <2>3
<1>2. P(n) \in Seq(Event) /\ ToSet(P(n)) \subseteq {"passed"}
  BY <1>0 DEF ToSet
<1>3. \A k \in Nat : Prior(r, k) = a \o P(k)
  BY DEF Prior
<1>4. P(0) = << >>
  OBVIOUS
<1>5. Append(P(n), "passed") = P(n + 1)
  OBVIOUS
<1> HIDE DEF a, P
<1>6. /\ a \o P(n) \in Seq(Event) /\ a \o << >> = a
      /\ Append(a \o P(n), "passed") = a \o Append(P(n), "passed")
      /\ ToSet(a \o P(n)) = ToSet(a) \cup ToSet(P(n))
  <2>1. PICK q : q = P(n)
    OBVIOUS
  <2>2. PICK e : e = "passed"
    OBVIOUS
  <2>3. PICK p : p = a
    OBVIOUS
  <2>4. p \in Seq(Event) /\ q \in Seq(Event) /\ e \in Event
    BY <1>0, <1>1, <1>2, <2>1, <2>2, <2>3
  <2>5. /\ p \o q \in Seq(Event) /\ p \o << >> = p
        /\ Append(p \o q, e) = p \o Append(q, e)
        /\ ToSet(p \o q) = ToSet(p) \cup ToSet(q)
    BY ONLY <2>4, Concatenated
  <2> QED BY <2>1, <2>2, <2>3, <2>5
<1>7. Prior(r, n) \in Seq(Event) /\ ToSet(Prior(r, n)) = ToSet(a) \cup ToSet(P(n))
  BY <1>3, <1>6
<1>8. Prior(r, 0) = a
  BY <1>3, <1>4, <1>6
<1>9. Append(Prior(r, n), "passed") = Prior(r, n + 1)
  <2>0. n + 1 \in Nat
    OBVIOUS
  <2>1. Prior(r, n) = a \o P(n) /\ Prior(r, n + 1) = a \o P(n + 1)
    BY <1>3, <2>0
  <2> QED BY <2>1, <1>5, <1>6
<1>10. ToSet(Prior(r, n)) \subseteq {"admitted", "passed"}
       /\ ("admitted" \in ToSet(Prior(r, n)) <=> Limited(r))
  BY <1>1, <1>2, <1>7
<1> QED BY <1>7, <1>8, <1>9, <1>10 DEF a

\* An event that is noted is said, and what the history began with stays.
LEMMA AppendSaid ==
    ASSUME NEW s \in Seq(Event), NEW e \in Event
    PROVE  /\ Append(s, e) \in Seq(Event)
           /\ ToSet(Append(s, e)) = ToSet(s) \cup {e}
           /\ IsPrefix(s, s)
           /\ \A p \in Seq(Event) : IsPrefix(p, s) => IsPrefix(p, Append(s, e))
<1>1. /\ Append(s, e) \in Seq(Event) /\ Len(Append(s, e)) = Len(s) + 1
      /\ DOMAIN Append(s, e) = 1..Len(s) + 1
      /\ Append(s, e)[Len(s) + 1] = e
      /\ \A i \in 1..Len(s) : Append(s, e)[i] = s[i]
  BY Appended
<1>2. ToSet(Append(s, e)) = ToSet(s) \cup {e}
  BY <1>1 DEF ToSet
<1>3. ASSUME NEW p \in Seq(Event), IsPrefix(p, s) PROVE IsPrefix(p, Append(s, e))
  <2>1. Len(p) \in Nat /\ Len(s) \in Nat /\ Len(p) <= Len(s) /\ SubSeq(p, 1, Len(p)) = SubSeq(s, 1, Len(p))
    BY <1>3 DEF IsPrefix
  <2>2. SubSeq(Append(s, e), 1, Len(p)) = SubSeq(s, 1, Len(p))
    BY <1>1, <2>1
  <2> QED BY <1>1, <2>1, <2>2 DEF IsPrefix
<1> QED BY <1>1, <1>2, <1>3 DEF IsPrefix

\* What a context needs for an answer to be legal.
Answerable(r, c) ==
    /\ c \in Context /\ LetsGo(c.stream)
    /\ Told(r, c, c.headers)

\* An answer that has its reason is legal.
LEMMA AnsweredLegal ==
    ASSUME NEW r \in Requests, NEW c, Answerable(r, c),
           NEW status \in Statuses \ {0},
           "chosen" \in ToSet(c.log) \/ Reason(r, c, status)
    PROVE  Legal(r, Answered(c, status))
<1> DEFINE d == Answered(c, status)
<1>1. c \in Context
  BY DEF Answerable
<1>2. /\ d \in Context /\ d.stage = "answered" /\ d.status = status /\ d.answer = c.headers
      /\ d.span = FALSE /\ d.log = c.log /\ d.content = c.content /\ d.took = c.took
      /\ d.jwt = c.jwt /\ d.bucket = c.bucket /\ d.retryAfter = c.retryAfter
      /\ d.stream = c.stream
  BY <1>1 DEF Answered, Context, Stage, Header
<1> HIDE DEF d
<1>3. Typed(d)
  BY <1>2 DEF Answerable, Typed
<1>4. Logged(r, d) /\ Read(r, d) /\ Headed(r, d)
  BY <1>2 DEF Logged, Read, Headed
<1>5. Reasoned(r, d)
  <2>1. Unreadable(r, c) => Unreadable(r, d)
    BY <1>2 DEF Unreadable
  <2>2. Handled(r, c) => Handled(r, d)
    BY <1>2 DEF Handled, Paid
  <2>3. Refused(r, c) => Refused(r, d)
    BY <1>2 DEF Refused
  <2>4. Told(r, d, d.answer)
    BY <1>2, <2>1, <2>2, <2>3 DEF Answerable, Told
  <2>5. Reason(r, c, status) => Reason(r, d, d.status)
    BY <1>2 DEF Reason
  <2> QED BY <1>2, <2>4, <2>5 DEF Reasoned
<1> QED BY <1>3, <1>4, <1>5 DEF Legal, d

\* Noting an event changes nothing else of a context.
LEMMA NotedFacts ==
    ASSUME NEW c \in Context, NEW e \in Event
    PROVE  LET d == Noted(c, e) IN
           /\ d \in Context
           /\ d.stage = c.stage /\ d.content = c.content /\ d.step = c.step
           /\ d.taken = c.taken /\ d.bodyRead = c.bodyRead /\ d.jwt = c.jwt
           /\ d.headers = c.headers /\ d.status = c.status /\ d.answer = c.answer
           /\ d.retryAfter = c.retryAfter /\ d.bucket = c.bucket
           /\ d.aborted = c.aborted /\ d.span = c.span /\ d.stream = c.stream
           /\ d.took = c.took /\ d.log = Append(c.log, e)
<1>1. c.log \in Seq(Event)
  BY DEF Context
<1>2. Append(c.log, e) \in Seq(Event)
  BY <1>1, AppendSaid
<1> QED BY <1>1, <1>2 DEF Noted, Context

\* The limiter has refused the request, and its headers say so.
OverLimit(r, c) ==
    /\ Refused(r, c) /\ {"rate limit", "retry-after"} \subseteq c.headers
    /\ "passed" \notin ToSet(c.log) /\ "handled" \notin ToSet(c.log)

\* What is noted on the way to an answer leaves it possible.
LEMMA NotedAnswerable ==
    ASSUME NEW r \in Requests, NEW c, Answerable(r, c),
           NEW e \in Event \ {"handled", "admitted", "passed"},
           e = "unreadable" => Unreadable(r, c),
           e = "tooMany" => OverLimit(r, c)
    PROVE  /\ Answerable(r, Noted(c, e))
           /\ ToSet(Noted(c, e).log) = ToSet(c.log) \cup {e}
<1> DEFINE d == Noted(c, e)
<1>1. c \in Context /\ c.log \in Seq(Event)
  BY DEF Answerable, Context
<1>2. /\ d \in Context /\ d.content = c.content /\ d.jwt = c.jwt /\ d.headers = c.headers
      /\ d.stream = c.stream /\ d.took = c.took /\ d.log = Append(c.log, e)
      /\ d.bucket = c.bucket /\ d.retryAfter = c.retryAfter
  BY <1>1, NotedFacts
<1> HIDE DEF d
<1>3. /\ ToSet(d.log) = ToSet(c.log) \cup {e}
      /\ \A p \in Seq(Event) : IsPrefix(p, c.log) => IsPrefix(p, d.log)
  BY <1>1, <1>2, AppendSaid
<1>4. (Unreadable(r, c) <=> Unreadable(r, d)) /\ (Refused(r, c) <=> Refused(r, d))
  BY <1>2 DEF Unreadable, Refused
<1>5. Handled(r, d)
  <2>1. Append(Prior(r, Len(All(r))), "handled") \in Seq(Event)
    <3>1. Prior(r, Len(All(r))) \in Seq(Event) /\ "handled" \in Event
      BY RouteFacts, PriorFacts DEF Event
    <3> QED BY <3>1, AppendSaid
  <2> QED BY <1>2, <1>3, <2>1 DEF Answerable, Told, Handled, Paid
<1>6. Told(r, d, d.headers)
  BY <1>2, <1>3, <1>4, <1>5 DEF Answerable, Told, OverLimit
<1> QED BY <1>2, <1>3, <1>6 DEF Answerable, d

\* errorToResponse gives the framework's own exceptions a legal answer.
LEMMA RefusesLegal ==
    ASSUME NEW r \in Requests, NEW c, Answerable(r, c), NEW e \in Errors \ {"zod"},
           e = "tooMany" => OverLimit(r, c),
           e = "unauthorized" => "jwt" \in ToSet(All(r)),
           e = "forbidden" => "custom" \in ToSet(All(r)),
           e = "badRequest" => "unreadable" \in ToSet(c.log) \/ "invalid" \in ToSet(c.log),
           e \in {"error", "other"} \/ "handled" \notin ToSet(c.log)
    PROVE  Legal(r, Refuses(c, e))
<1> DEFINE d == Noted(c, e)
           status == StatusOf[e]
<1>1. e \in Event \ {"handled", "admitted", "passed", "unreadable"}
  BY DEF Event, Errors
<1>2. Answerable(r, d) /\ ToSet(d.log) = ToSet(c.log) \cup {e}
  BY <1>1, NotedAnswerable
<1>3. /\ status \in Statuses \ {0, 200, 204}
      /\ status = 429 => e = "tooMany"
      /\ status = 401 => e = "unauthorized"
      /\ status = 403 => e = "forbidden"
      /\ status = 400 => e = "badRequest"
  BY StatusFacts
<1> HIDE DEF d, status
<1>4. Reason(r, d, status)
  BY <1>1, <1>2, <1>3 DEF Reason
<1>5. Legal(r, Answered(d, status))
  BY <1>2, <1>3, <1>4, AnsweredLegal
<1> QED BY <1>5 DEF Refuses, Failed, d, status

\* A status that user code chooses makes a legal answer, whichever it is.
LEMMA ChosenLegal ==
    ASSUME NEW r \in Requests, NEW c, Answerable(r, c), NEW status \in ErrorStatus
    PROVE  Legal(r, Answered(Noted(c, "chosen"), status))
<1> DEFINE d == Noted(c, "chosen")
<1>1. "chosen" \in Event \ {"handled", "admitted", "passed", "unreadable", "tooMany"}
  BY DEF Event
<1>2. Answerable(r, d) /\ "chosen" \in ToSet(d.log)
  BY <1>1, NotedAnswerable
<1> HIDE DEF d
<1>3. status \in Statuses \ {0}
  BY StatusFacts DEF ErrorStatus
<1> QED BY <1>2, <1>3, AnsweredLegal DEF d

\* Whatever user code throws is answered legally.
LEMMA ThrowsLegal ==
    ASSUME NEW r \in Requests, NEW c, Answerable(r, c), NEW e \in Exceptions
    PROVE  Legal(r, Throws(c, e))
<1>1. PICK status : status = StatusOf[e]
  OBVIOUS
<1>2. status \in ErrorStatus
  BY <1>1 DEF ErrorStatus
<1>3. Legal(r, Answered(Noted(c, "chosen"), status))
  BY <1>2, ChosenLegal
<1> QED BY <1>1, <1>3 DEF Throws, Failed

\* Until the handler has answered, a legal context can be answered.
LEMMA LegalAnswerable ==
    ASSUME NEW r \in Requests, NEW c, Legal(r, c),
           c.stage \in {"limit", "guards", "params", "handler"}
    PROVE  /\ Answerable(r, c)
           /\ c.stage # "handler" => "handled" \notin ToSet(c.log)
<1>1. c \in Context /\ LetsGo(c.stream) /\ "static" \in c.headers
  BY DEF Legal, Typed, Headed
<1>2. Len(All(r)) \in Nat
  BY RouteFacts
<1>3. CASE c.stage = "limit"
  <2>1. c.log = << >> /\ ToSet(c.log) = {}
    BY <1>3 DEF Legal, Logged, ToSet
  <2> QED BY <1>1, <2>1 DEF Answerable, Told, Handled
<1>4. CASE c.stage \in {"guards", "params"}
  <2>1. PICK n \in Nat : c.log = Prior(r, n)
    <3>1. CASE c.stage = "guards"
      <4>1. c.step \in 1..Len(All(r)) /\ c.log = Prior(r, c.step - 1)
        BY <3>1 DEF Legal, Logged
      <4>2. c.step - 1 \in Nat
        BY <1>2, <4>1
      <4> QED BY <4>1, <4>2
    <3>2. CASE c.stage = "params"
      BY <1>2, <3>2 DEF Legal, Logged
    <3> QED BY <1>4, <3>1, <3>2
  <2>2. ToSet(c.log) \subseteq {"admitted", "passed"} /\ ("admitted" \in ToSet(c.log) <=> Limited(r))
    BY <2>1, PriorFacts
  <2>3. Limited(r) => "rate limit" \in c.headers
    BY <1>4 DEF Legal, Headed
  <2> QED BY <1>1, <2>2, <2>3 DEF Answerable, Told, Handled
<1>5. CASE c.stage = "handler"
  <2> DEFINE p == Prior(r, Len(All(r)))
  <2>1. c.log = Append(p, "handled") /\ Paid(r, c, Len(All(r)))
    BY <1>5 DEF Legal, Logged
  <2>2. /\ p \in Seq(Event) /\ ToSet(p) \subseteq {"admitted", "passed"}
        /\ "admitted" \in ToSet(p) <=> Limited(r)
    BY <1>2, PriorFacts
  <2> HIDE DEF p
  <2>3. ToSet(c.log) = ToSet(p) \cup {"handled"} /\ c.log \in Seq(Event)
    <3>1. "handled" \in Event
      BY DEF Event
    <3> QED BY <2>1, <2>2, <3>1, AppendSaid
  <2>4. IsPrefix(c.log, c.log)
    <3>1. "handled" \in Event
      BY DEF Event
    <3> QED BY <2>3, <3>1, AppendSaid
  <2>5. Limited(r) => "rate limit" \in c.headers
    BY <1>5 DEF Legal, Headed
  <2>6. Handled(r, c)
    BY <2>1, <2>4 DEF Handled, p
  <2> QED BY <1>1, <1>5, <2>2, <2>3, <2>5, <2>6 DEF Answerable, Told
<1> QED BY <1>3, <1>4, <1>5

\* A context that g guards have let pass.
Passed(r, c, g) ==
    /\ c \in Context /\ LetsGo(c.stream)
    /\ c.span /\ c.status = 0
    /\ c.log = Prior(r, g) /\ Paid(r, c, g)
    /\ ~c.bodyRead /\ (c.taken => c.took)
    /\ "static" \in c.headers
    /\ Limited(r) => "rate limit" \in c.headers

\* When g guards have passed, the next one or the parameters come.
LEMMA AfterGuardLegal ==
    ASSUME NEW r \in Requests, NEW c, NEW g \in 0..Len(All(r)), Passed(r, c, g)
    PROVE  Legal(r, AfterGuard(c, All(r), g))
<1> DEFINE d == AfterGuard(c, All(r), g)
<1>1. Len(All(r)) \in Nat /\ Len(RouteOf[r].params) \in Nat /\ g \in Nat
  <2>1. Len(All(r)) \in Nat /\ RouteOf[r].params \in Seq(Param)
    BY RouteFacts
  <2>2. Len(RouteOf[r].params) \in Nat
    BY <2>1
  <2> QED BY <2>1, <2>2
<1>2. /\ d.stage = (IF g = Len(All(r)) THEN "params" ELSE "guards")
      /\ d.step = (IF g = Len(All(r)) THEN 1 ELSE g + 1)
      /\ d.taken = c.taken /\ d.bodyRead = c.bodyRead /\ d.jwt = c.jwt
      /\ d.headers = c.headers /\ d.status = c.status /\ d.span = c.span
      /\ d.stream = c.stream /\ d.took = c.took /\ d.log = c.log
  BY DEF AfterGuard, Context, Passed
<1>3. d \in Context
  <2>1. (IF g = Len(All(r)) THEN 1 ELSE g + 1) \in Nat
    BY <1>1
  <2> QED BY <2>1 DEF AfterGuard, Context, Stage, Passed
<1> HIDE DEF d
<1>4. Typed(d)
  BY <1>2, <1>3 DEF Typed, Passed
<1>5. CASE g = Len(All(r))
  <2>1. d.stage = "params" /\ d.step = 1
    BY <1>2, <1>5
  <2>2. Paid(r, d, Len(All(r)))
    BY <1>2, <1>5 DEF Paid, Passed
  <2>3. Logged(r, d)
    BY <1>2, <1>5, <2>1, <2>2 DEF Logged, Passed
  <2>4. d.step \in 1..Len(RouteOf[r].params) + 1 /\ 1..d.step - 1 = {}
    <3> DEFINE k == Len(RouteOf[r].params)
    <3>1. k \in Nat
      BY <1>1
    <3> HIDE DEF k
    <3>2. 1 \in 1..k + 1 /\ 1..1 - 1 = {}
      BY <3>1
    <3> QED BY <2>1, <3>2 DEF k
  <2>5. Read(r, d)
    BY <1>2, <2>1, <2>4 DEF Read, Passed
  <2>6. Headed(r, d) /\ Reasoned(r, d)
    BY <1>2, <2>1 DEF Headed, Reasoned, Passed
  <2> QED BY <1>4, <2>3, <2>5, <2>6 DEF Legal, d
<1>6. CASE g # Len(All(r))
  <2>1. d.stage = "guards" /\ d.step = g + 1 /\ d.step \in 1..Len(All(r)) /\ d.step - 1 = g
    <3>1. g + 1 \in 1..Len(All(r)) /\ (g + 1) - 1 = g
      BY <1>1, <1>6
    <3> QED BY <1>2, <1>6, <3>1
  <2>2. Paid(r, d, g)
    BY <1>2 DEF Paid, Passed
  <2>3. Logged(r, d)
    BY <1>2, <2>1, <2>2 DEF Logged, Passed
  <2>4. Read(r, d)
    BY <1>2, <2>1 DEF Read, Passed
  <2>5. Headed(r, d) /\ Reasoned(r, d)
    BY <1>2, <2>1 DEF Headed, Reasoned, Passed
  <2> QED BY <1>4, <2>3, <2>4, <2>5 DEF Legal, d
<1> QED BY <1>5, <1>6

\* What a response's stream does leaves it in order.
LEMMA StreamFacts ==
    ASSUME NEW s \in Stream, LetsGo(s)
    PROVE  /\ Aborted(s) \in Stream /\ LetsGo(Aborted(s))
           /\ s.loop = "waiting" =>
                 /\ SourceOver(s) \in Stream /\ LetsGo(SourceOver(s))
                 /\ \A a, p \in BOOLEAN : Yielded(s, a, p) \in Stream /\ LetsGo(Yielded(s, a, p))
<1>1. Aborted(s) \in Stream /\ LetsGo(Aborted(s))
  BY DEF Stream, LetsGo, Released, Aborted
<1>2. ASSUME s.loop = "waiting" PROVE s.late = 0
  BY <1>2 DEF Stream, LetsGo
<1>3. ASSUME s.loop = "waiting" PROVE SourceOver(s) \in Stream /\ LetsGo(SourceOver(s))
  BY <1>2, <1>3 DEF Stream, LetsGo, Released, SourceOver, Finished
<1>4. ASSUME NEW t \in Stream, t.late <= 1 PROVE Left(t) \in Stream /\ LetsGo(Left(t))
  BY <1>4 DEF Stream, LetsGo, Released, Left, Finished
<1>5. ASSUME s.loop = "waiting", NEW a \in BOOLEAN, NEW p \in BOOLEAN
      PROVE  Yielded(s, a, p) \in Stream /\ LetsGo(Yielded(s, a, p))
  <2> DEFINE t == [s EXCEPT !.late = @ + 1]
  <2>1. t \in Stream /\ t.late <= 1
    BY <1>2, <1>5 DEF Stream
  <2>2. s.late <= 1
    BY <1>2, <1>5
  <2>3. CASE a = TRUE
    BY <1>4, <2>1, <2>3 DEF Yielded
  <2>4. CASE a = FALSE /\ p = FALSE
    BY <1>4, <2>2, <2>4 DEF Yielded
  <2>5. CASE a = FALSE /\ p = TRUE
    BY <2>5 DEF Yielded
  <2> QED BY <2>3, <2>4, <2>5
<1> QED BY <1>1, <1>3, <1>5

\* A new response's stream is in order, and so is one that ends at once.
LEMMA StartedFacts ==
    /\ NoStream \in Stream /\ LetsGo(NoStream)
    /\ Started(HeartbeatMs) \in Stream /\ LetsGo(Started(HeartbeatMs))
    /\ SourceOver(Started(HeartbeatMs)) \in Stream /\ LetsGo(SourceOver(Started(HeartbeatMs)))
<1>1. NoStream \in Stream /\ LetsGo(NoStream)
  BY DEF NoStream, Stream, LetsGo
<1>2. /\ Started(HeartbeatMs) \in Stream /\ LetsGo(Started(HeartbeatMs))
      /\ Started(HeartbeatMs).loop = "waiting"
  <2> DEFINE h == (HeartbeatMs # 0)
  <2>1. h \in BOOLEAN
    OBVIOUS
  <2> HIDE DEF h
  <2>2. Started(HeartbeatMs) =
            [ loop |-> "waiting", heartbeat |-> h, listener |-> TRUE,
              closed |-> FALSE, source |-> "open", late |-> 0 ]
    <3>1. Started(HeartbeatMs) = [NoStream EXCEPT !.loop = "waiting", !.listener = TRUE,
                                                  !.heartbeat = h]
      BY Zenon DEF Started, h
    <3> QED BY <2>1, <3>1 DEF NoStream
  <2> DEFINE s == Started(HeartbeatMs)
  <2>3. s.loop = "waiting" /\ s.late = 0
    BY <2>2
  <2>4. s \in Stream
    BY <2>1, <2>2 DEF Stream
  <2> HIDE DEF s
  <2>5. LetsGo(s)
    BY <2>3 DEF LetsGo
  <2> QED BY <2>3, <2>4, <2>5 DEF s
<1> QED BY <1>1, <1>2, StreamFacts

\* The stream and the signal of a request matter to nothing but themselves.
LEMMA StreamLegal ==
    ASSUME NEW r \in Requests, NEW c, Legal(r, c),
           NEW s \in Stream, LetsGo(s), NEW a \in BOOLEAN
    PROVE  Legal(r, [c EXCEPT !.stream = s]) /\ Legal(r, [c EXCEPT !.aborted = a, !.stream = s])
<1>1. c \in Context
  BY DEF Legal, Typed
<1>2. ASSUME NEW d \in Context, d.stream = s,
             d.stage = c.stage, d.content = c.content, d.step = c.step, d.taken = c.taken,
             d.bodyRead = c.bodyRead, d.jwt = c.jwt, d.headers = c.headers,
             d.status = c.status, d.answer = c.answer, d.retryAfter = c.retryAfter,
             d.bucket = c.bucket, d.span = c.span, d.took = c.took, d.log = c.log
      PROVE  Legal(r, d)
  <2>1. Typed(d)
    BY <1>2 DEF Legal, Typed
  <2>2. \A n \in Nat : Paid(r, c, n) <=> Paid(r, d, n)
    BY <1>2 DEF Paid
  <2>l. Len(All(r)) \in Nat
    BY RouteFacts
  <2>3. Logged(r, d)
    <3>1. CASE d.stage = "guards"
      <4>1. c.step - 1 \in Nat /\ c.step = d.step
        <5>1. c.step \in 1..Len(All(r))
          BY <1>2, <3>1 DEF Legal, Logged
        <5> QED BY <1>2, <2>l, <5>1
      <4> QED BY <1>2, <2>2, <3>1, <4>1 DEF Legal, Logged
    <3>2. CASE d.stage # "guards"
      BY <1>2, <2>2, <2>l, <3>2 DEF Legal, Logged
    <3> QED BY <3>1, <3>2
  <2>4. Read(r, d)
    BY <1>2 DEF Legal, Read
  <2>5. Headed(r, d)
    BY <1>2 DEF Legal, Headed
  <2>6. Reasoned(r, d)
    <3>1. Unreadable(r, c) <=> Unreadable(r, d)
      BY <1>2 DEF Unreadable
    <3>2. Handled(r, c) <=> Handled(r, d)
      BY <1>2, <2>2, <2>l DEF Handled
    <3>3. Refused(r, c) <=> Refused(r, d)
      BY <1>2 DEF Refused
    <3>4. Told(r, c, c.answer) => Told(r, d, d.answer)
      BY <1>2, <3>1, <3>2, <3>3 DEF Told
    <3>5. Reason(r, c, c.status) => Reason(r, d, d.status)
      BY <1>2 DEF Reason
    <3> QED BY <1>2, <3>4, <3>5 DEF Legal, Reasoned
  <2> QED BY <2>1, <2>3, <2>4, <2>5, <2>6 DEF Legal
<1>3. Legal(r, [c EXCEPT !.stream = s])
  <2> DEFINE d == [c EXCEPT !.stream = s]
  <2>1. /\ d \in Context /\ d.stream = s
        /\ d.stage = c.stage /\ d.content = c.content /\ d.step = c.step /\ d.taken = c.taken
        /\ d.bodyRead = c.bodyRead /\ d.jwt = c.jwt /\ d.headers = c.headers
        /\ d.status = c.status /\ d.answer = c.answer /\ d.retryAfter = c.retryAfter
        /\ d.bucket = c.bucket /\ d.span = c.span /\ d.took = c.took /\ d.log = c.log
    BY <1>1 DEF Context
  <2> HIDE DEF d
  <2>2. Legal(r, d)
    BY <1>2, <2>1
  <2> QED BY <2>2 DEF d
<1>4. Legal(r, [c EXCEPT !.aborted = a, !.stream = s])
  <2> DEFINE d == [c EXCEPT !.aborted = a, !.stream = s]
  <2>1. /\ d \in Context /\ d.stream = s
        /\ d.stage = c.stage /\ d.content = c.content /\ d.step = c.step /\ d.taken = c.taken
        /\ d.bodyRead = c.bodyRead /\ d.jwt = c.jwt /\ d.headers = c.headers
        /\ d.status = c.status /\ d.answer = c.answer /\ d.retryAfter = c.retryAfter
        /\ d.bucket = c.bucket /\ d.span = c.span /\ d.took = c.took /\ d.log = c.log
    BY <1>1 DEF Context
  <2> HIDE DEF d
  <2>2. Legal(r, d)
    BY <1>2, <2>1
  <2> QED BY <2>2 DEF d
<1> QED BY <1>3, <1>4

\* A step of one request that leaves its context legal.
LEMMA GoesLegal ==
    ASSUME ContextsInv, NEW r \in Requests, NEW c, Legal(r, c), Goes(r, c)
    PROVE  ContextsInv'
<1>1. req \in [Requests -> Context] /\ c \in Context /\ req' = [req EXCEPT ![r] = c]
  BY DEF ContextsInv, Legal, Typed, Goes
<1>2. req' \in [Requests -> Context]
  BY <1>1
<1>3. ASSUME NEW q \in Requests PROVE Legal(q, req'[q])
  <2>1. CASE q = r
    BY <1>1, <2>1
  <2>2. CASE q # r
    BY <1>1, <2>2 DEF ContextsInv
  <2> QED BY <2>1, <2>2
<1> QED BY <1>2, <1>3 DEF ContextsInv

\* A new context is legal.
LEMMA NewLegal ==
    ASSUME NEW r \in Requests
    PROVE  NewContext \in Context /\ Legal(r, NewContext)
<1> DEFINE c == NewContext
<1>1. NoBucket \in Bucket
  BY DEF NoBucket, Bucket
<1>2. /\ c \in Context /\ c.stage = "new" /\ c.stream = NoStream /\ c.span = FALSE
      /\ c.status = 0 /\ c.log = << >> /\ c.bodyRead = FALSE /\ c.taken = FALSE
  BY <1>1, StartedFacts DEF NewContext, Context, Stage, Contents, Header, Statuses, Event
<1> HIDE DEF c
<1>3. Typed(c)
  BY <1>2, StartedFacts DEF Typed
<1>4. Logged(r, c) /\ Read(r, c) /\ Headed(r, c) /\ Reasoned(r, c)
  BY <1>2 DEF Logged, Read, Headed, Reasoned
<1> QED BY <1>2, <1>3, <1>4 DEF Legal, c

\* What arrives has the static headers, and its limit is checked first.
LEMMA ArriveLegal ==
    ASSUME LimitTypes, ContextsInv, NEW r \in Requests,
           NEW content \in RouteOf[r].contents, Arrive(r, content)
    PROVE  ContextsInv'
<1> DEFINE c == [NewContext EXCEPT !.content = content, !.headers = {"static"},
                                   !.span = TRUE, !.aborted = req[r].aborted]
           b == HitBucket(buckets, Key, now)
<1>1. content \in Contents /\ req[r].aborted \in BOOLEAN
  BY RouteFacts DEF ContextsInv, Context
<1>2. /\ c \in Context /\ c.stage = "new" /\ c.headers = {"static"} /\ c.span = TRUE
      /\ c.status = 0 /\ c.stream = NoStream /\ c.log = << >>
      /\ c.bodyRead = FALSE /\ c.taken = FALSE
  BY <1>1, NewLegal DEF NewContext, Context, Header
<1>3. b \in Bucket
  BY HitBucketCounts
<1>4. CASE Limited(r)
  <2>1. Goes(r, [c EXCEPT !.stage = "limit", !.bucket = b])
    BY <1>4 DEF Arrive
  <2> HIDE DEF c, b
  <2>2. PICK d : d = [c EXCEPT !.stage = "limit", !.bucket = b]
    OBVIOUS
  <2>3. /\ d \in Context /\ d.stage = "limit" /\ d.headers = {"static"} /\ d.span = TRUE
        /\ d.status = 0 /\ d.stream = NoStream /\ d.log = << >>
        /\ d.bodyRead = FALSE /\ d.taken = FALSE
    BY <1>2, <1>3, <2>2 DEF Context, Stage
  <2>4. Typed(d)
    BY <2>3, StartedFacts DEF Typed
  <2>5. Logged(r, d) /\ Read(r, d) /\ Headed(r, d) /\ Reasoned(r, d)
    BY <1>4, <2>3 DEF Logged, Read, Headed, Reasoned
  <2>6. Legal(r, d)
    BY <2>4, <2>5 DEF Legal
  <2> QED BY <2>1, <2>2, <2>6, GoesLegal
<1>5. CASE ~Limited(r)
  <2>1. Goes(r, AfterGuard(c, All(r), 0))
    BY <1>5 DEF Arrive, All
  <2> HIDE DEF c
  <2>2. Prior(r, 0) = << >>
    BY <1>5, PriorFacts
  <2>3. Passed(r, c, 0)
    BY <1>2, <1>5, <2>2, StartedFacts DEF Passed, Paid
  <2>4. 0 \in 0..Len(All(r))
    BY RouteFacts
  <2> QED BY <2>1, <2>3, <2>4, AfterGuardLegal, GoesLegal
<1> QED BY <1>4, <1>5

\* A request whose key cannot be made is answered with what was thrown.
LEMMA KeyGeneratorThrowsLegal ==
    ASSUME ContextsInv, NEW r \in Requests, NEW error \in Exceptions,
           KeyGeneratorThrows(r, error)
    PROVE  ContextsInv'
<1> DEFINE c == [NewContext EXCEPT !.headers = {"static"}, !.aborted = req[r].aborted]
<1>1. req[r].aborted \in BOOLEAN
  BY DEF ContextsInv, Context
<1>2. c \in Context /\ c.headers = {"static"} /\ c.stream = NoStream /\ c.log = << >>
  BY <1>1, NewLegal DEF NewContext, Context, Header
<1>3. Goes(r, Throws(c, error))
  BY DEF KeyGeneratorThrows
<1> HIDE DEF c
<1>4. ToSet(c.log) = {}
  BY <1>2 DEF ToSet
<1>5. Answerable(r, c)
  BY <1>2, <1>4, StartedFacts DEF Answerable, Told, Handled
<1>6. Legal(r, Throws(c, error))
  BY <1>5, ThrowsLegal
<1> QED BY <1>3, <1>6, GoesLegal

\* Rounded up to seconds, a time is no shorter.
LEMMA CeilingCovers ==
    ASSUME NEW ms \in Nat
    PROVE  CeilSeconds(ms) \in Nat /\ CeilSeconds(ms) * SecondMs >= ms
<1> DEFINE x == ms + SecondMs - 1
           q == x \div SecondMs
<1>1. x \in Nat /\ SecondMs \in Nat /\ SecondMs > 0
  OBVIOUS
<1>2. q \in Nat /\ x < (q + 1) * SecondMs
  <2> HIDE DEF x
  <2> QED BY <1>1
<1>3. (q + 1) * SecondMs = q * SecondMs + SecondMs /\ q * SecondMs \in Nat
  BY <1>1, <1>2
<1>4. CeilSeconds(ms) = q
  BY DEF CeilSeconds
<1> HIDE DEF q
<1> QED BY <1>1, <1>2, <1>3, <1>4

\* Retry-After covers the rest of the window.
LEMMA RetryAfterCovers ==
    ASSUME NEW b \in Bucket, NEW t \in Nat
    PROVE  /\ t + RetryAfter(b, t) * SecondMs \in Nat
           /\ t + RetryAfter(b, t) * SecondMs >= b.resetAt
<1>1. b.resetAt \in Nat
  BY DEF Bucket
<1>2. CASE t >= b.resetAt
  <2>1. RetryAfter(b, t) = 0
    BY <1>2 DEF RetryAfter
  <2> QED BY <1>1, <1>2, <2>1
<1>3. CASE ~(t >= b.resetAt)
  <2>1. PICK ms : ms = b.resetAt - t
    OBVIOUS
  <2>2. ms \in Nat /\ RetryAfter(b, t) = CeilSeconds(ms)
    BY <1>1, <1>3, <2>1 DEF RetryAfter
  <2>3. PICK s : s = CeilSeconds(ms)
    OBVIOUS
  <2>4. s \in Nat /\ s * SecondMs >= ms
    BY <2>2, <2>3, CeilingCovers
  <2>5. s * SecondMs \in Nat
    BY <2>4
  <2> QED BY <1>1, <2>1, <2>2, <2>3, <2>4, <2>5
<1> QED BY <1>2, <1>3

\* A request goes on to its guards or is refused.
LEMMA EnforceLegal ==
    ASSUME LimitTypes, ContextsInv, NEW r \in Requests, Enforce(r)
    PROVE  ContextsInv'
<1> DEFINE c == req[r]
           d == [c EXCEPT !.headers = @ \cup {"rate limit"}]
<1>1. Legal(r, c) /\ c.stage = "limit" /\ Limited(r) /\ c \in Context /\ now \in Nat
  BY DEF ContextsInv, Enforce, At, Legal, Logged, LimitTypes
<1>2. c.span = TRUE /\ c.status = 0 /\ LetsGo(c.stream)
  BY <1>1 DEF Legal, Typed, Context
<1>3. /\ c.log = << >> /\ c.bodyRead = FALSE /\ (c.taken => c.took) /\ "static" \in c.headers
      /\ Answerable(r, c)
  BY <1>1, LegalAnswerable DEF Legal, Logged, Read, Headed, Context
<1>4. Goes(r, IF Allowed(c.bucket)
              THEN AfterGuard(Noted([d EXCEPT !.bucket = NoBucket], "admitted"), All(r), 0)
              ELSE Refuses([d EXCEPT !.headers = @ \cup {"retry-after"},
                                     !.retryAfter = now + RetryAfter(d.bucket, now) * SecondMs],
                           "tooMany"))
  <2>1. d.bucket = c.bucket
    BY <1>1 DEF Context
  <2> QED BY <2>1 DEF Enforce, All
<1> HIDE DEF c
<1>5. CASE Allowed(c.bucket)
  <2>1. PICK e : e = [d EXCEPT !.bucket = NoBucket]
    OBVIOUS
  <2>2. /\ e \in Context /\ LetsGo(e.stream) /\ e.span = TRUE /\ e.status = 0
        /\ e.log = << >> /\ e.bodyRead = FALSE /\ e.taken = c.taken /\ e.took = c.took
        /\ e.headers = c.headers \cup {"rate limit"}
    <3>1. NoBucket \in Bucket
      BY DEF NoBucket, Bucket
    <3> QED BY <1>1, <1>2, <1>3, <2>1, <3>1 DEF Context, Header
  <2>3. PICK f : f = Noted(e, "admitted")
    OBVIOUS
  <2>4. /\ f \in Context /\ f.stream = e.stream /\ f.span = TRUE /\ f.status = 0
        /\ f.log = Append(<< >>, "admitted") /\ f.bodyRead = FALSE
        /\ f.taken = c.taken /\ f.took = c.took /\ f.headers = c.headers \cup {"rate limit"}
    <3>1. "admitted" \in Event
      BY DEF Event
    <3> HIDE DEF d
    <3>2. e \in Context
      BY <2>2
    <3>3. /\ f \in Context /\ f.log = Append(e.log, "admitted") /\ f.stream = e.stream
          /\ f.span = e.span /\ f.status = e.status /\ f.bodyRead = e.bodyRead
          /\ f.taken = e.taken /\ f.took = e.took /\ f.headers = e.headers
      BY ONLY <2>3, <3>1, <3>2, NotedFacts
    <3> QED BY ONLY <2>2, <3>3
  <2>5. Prior(r, 0) = Append(<< >>, "admitted")
    BY <1>1, PriorFacts
  <2>6. Passed(r, f, 0)
    <3>1. Paid(r, f, 0)
      BY DEF Paid
    <3> QED BY <1>3, <2>2, <2>4, <2>5, <3>1 DEF Passed
  <2>7. 0 \in 0..Len(All(r))
    BY RouteFacts
  <2>8. Legal(r, AfterGuard(f, All(r), 0))
    BY <2>6, <2>7, AfterGuardLegal
  <2>9. Goes(r, AfterGuard(f, All(r), 0))
    BY <1>4, <1>5, <2>1, <2>3
  <2> QED BY <2>8, <2>9, GoesLegal
<1>6. CASE ~Allowed(c.bucket)
  <2>1. PICK retry : retry = now + RetryAfter(d.bucket, now) * SecondMs
    OBVIOUS
  <2>2. c.bucket \in Bucket /\ d.bucket = c.bucket
    BY <1>1 DEF Context
  <2>3. retry \in Nat /\ retry >= c.bucket.resetAt
    BY <1>1, <2>1, <2>2, RetryAfterCovers
  <2>4. PICK e : e = [d EXCEPT !.headers = @ \cup {"retry-after"}, !.retryAfter = retry]
    OBVIOUS
  <2>5. /\ e \in Context /\ e.stream = c.stream /\ e.log = c.log /\ e.bucket = c.bucket
        /\ e.retryAfter = retry /\ e.headers = c.headers \cup {"rate limit", "retry-after"}
    BY <1>1, <2>3, <2>4 DEF Context, Header
  <2>6. ToSet(c.log) = {}
    BY <1>3 DEF ToSet
  <2>7. Answerable(r, e)
    BY <1>2, <1>3, <2>5, <2>6 DEF Answerable, Told, Handled
  <2>8. OverLimit(r, e)
    <3>1. c.bucket.count > MaxHits
      BY <1>6, <2>2 DEF Allowed, Bucket
    <3>2. Refused(r, e)
      BY <1>1, <2>3, <2>5, <3>1 DEF Refused
    <3> QED BY <2>5, <2>6, <3>2 DEF OverLimit
  <2>9. Legal(r, Refuses(e, "tooMany"))
    <3>1. "tooMany" \in Errors \ {"zod"} /\ "handled" \notin ToSet(e.log)
      BY <2>5, <2>6 DEF Errors
    <3> QED BY <2>7, <2>8, <3>1, RefusesLegal
  <2>10. Goes(r, Refuses(e, "tooMany"))
    BY <1>4, <1>6, <2>1, <2>4
  <2> QED BY <2>9, <2>10, GoesLegal
<1> QED BY <1>5, <1>6

\* A guard that passes is followed by the next one; d is the context it leaves.
LEMMA PassesLegal ==
    ASSUME ContextsInv, NEW r \in Requests, At(r, "guards"), NEW d \in Context, Passes(r, d),
           LET c == req[r] IN
           /\ d.stage = c.stage /\ d.step = c.step /\ d.log = c.log /\ d.stream = c.stream
           /\ d.span = c.span /\ d.status = c.status /\ d.headers = c.headers
           /\ d.bodyRead = c.bodyRead
           /\ d.taken /\ ~d.took => c.taken /\ ~c.took
           /\ c.jwt => d.jwt
           /\ All(r)[c.step] = "jwt" => d.jwt
    PROVE  ContextsInv'
<1> DEFINE c == req[r]
<1>1. Legal(r, c) /\ c.stage = "guards" /\ c \in Context
  BY DEF ContextsInv, At
<1>2. /\ c.step \in 1..Len(All(r)) /\ c.log = Prior(r, c.step - 1)
      /\ Paid(r, c, c.step - 1)
  BY <1>1 DEF Legal, Logged
<1>3. Len(All(r)) \in Nat
  BY RouteFacts
<1> HIDE DEF c
<1>4. c.step - 1 \in Nat /\ c.step \in 0..Len(All(r)) /\ (c.step - 1) + 1 = c.step
  BY <1>2, <1>3
<1>5. PICK f : f = Noted(d, "passed")
  OBVIOUS
<1>6. /\ f \in Context /\ f.step = c.step /\ f.log = Append(c.log, "passed")
      /\ f.stream = c.stream /\ f.span = c.span /\ f.status = c.status
      /\ f.headers = c.headers /\ f.bodyRead = c.bodyRead
      /\ f.taken = d.taken /\ f.took = d.took /\ f.jwt = d.jwt
  <2>1. "passed" \in Event
    BY DEF Event
  <2> QED BY <1>5, <2>1, NotedFacts DEF c
<1>7. Append(Prior(r, c.step - 1), "passed") = Prior(r, c.step)
  <2>1. \A n \in Nat : Append(Prior(r, n), "passed") = Prior(r, n + 1)
    BY PriorFacts
  <2> QED BY <1>4, <2>1
<1>8. Paid(r, f, c.step)
  <2> SUFFICES ASSUME NEW i \in 1..c.step, All(r)[i] = "jwt" PROVE f.jwt
    BY DEF Paid
  <2>1. CASE i = c.step
    BY <1>6, <2>1 DEF c
  <2>2. CASE i # c.step
    <3>1. i \in 1..c.step - 1
      BY <1>4, <2>2
    <3> QED BY <1>2, <1>6, <3>1 DEF c, Paid
  <2> QED BY <2>1, <2>2
<1>9. Passed(r, f, c.step)
  <2>1. c.span /\ c.status = 0 /\ LetsGo(c.stream)
    BY <1>1 DEF Legal, Typed
  <2>2. ~c.bodyRead /\ (c.taken => c.took)
    BY <1>1 DEF Legal, Read
  <2>3. "static" \in c.headers /\ (Limited(r) => "rate limit" \in c.headers)
    BY <1>1 DEF Legal, Headed
  <2>4. f.taken => f.took
    BY <1>6, <2>2 DEF c
  <2> QED BY <1>2, <1>6, <1>7, <1>8, <2>1, <2>2, <2>3, <2>4 DEF Passed
<1>10. Legal(r, AfterGuard(f, All(r), c.step))
  BY <1>4, <1>9, AfterGuardLegal
<1>11. Goes(r, AfterGuard(f, All(r), c.step))
  BY <1>5 DEF Passes, All, c
<1> QED BY <1>10, <1>11, GoesLegal

\* A guard that refuses leaves a legal answer.
LEMMA GuardRefusesLegal ==
    ASSUME ContextsInv, NEW r \in Requests, NEW e \in {"unauthorized", "forbidden", "error"},
           At(r, "guards"), Goes(r, Refuses(req[r], e)),
           e = "unauthorized" => All(r)[req[r].step] = "jwt",
           e = "forbidden" => All(r)[req[r].step] = "custom"
    PROVE  ContextsInv'
<1> DEFINE c == req[r]
<1>1. Legal(r, c) /\ c.stage = "guards"
  BY DEF ContextsInv, At
<1>2. Answerable(r, c) /\ "handled" \notin ToSet(c.log)
  BY <1>1, LegalAnswerable
<1>3. All(r)[c.step] \in ToSet(All(r))
  <2>1. c.step \in 1..Len(All(r)) /\ All(r) \in Seq(Guard)
    BY <1>1, RouteFacts DEF Legal, Logged
  <2> QED BY <2>1 DEF ToSet
<1>4. e \in Errors \ {"zod"}
  BY DEF Errors
<1>5. /\ e = "unauthorized" => "jwt" \in ToSet(All(r))
      /\ e = "forbidden" => "custom" \in ToSet(All(r))
  BY <1>3
<1> HIDE DEF c
<1>6. Legal(r, Refuses(c, e))
  BY <1>2, <1>4, <1>5, RefusesLegal
<1> QED BY <1>6, GoesLegal DEF c

\* User code that throws in a later stage leaves a legal answer.
LEMMA UserThrowsLegal ==
    ASSUME ContextsInv, NEW r \in Requests, NEW e \in Exceptions,
           req[r].stage \in {"guards", "params", "handler"},
           Goes(r, Throws(req[r], e))
    PROVE  ContextsInv'
<1> DEFINE c == req[r]
<1>1. Legal(r, c)
  BY DEF ContextsInv
<1>2. Answerable(r, c)
  BY <1>1, LegalAnswerable
<1>3. Legal(r, Throws(c, e))
  BY <1>2, ThrowsLegal
<1> QED BY <1>3, GoesLegal

\* JwtGuard throws, or leaves a payload.
LEMMA JwtGuardLegal ==
    ASSUME ContextsInv, NEW r \in Requests, JwtGuard(r)
    PROVE  ContextsInv'
<1>1. At(r, "guards") /\ All(r)[req[r].step] = "jwt" /\ req[r].stage = "guards"
  BY DEF JwtGuard, Awaited, At, All
<1>2. CASE \E error \in {"unauthorized", "error"} : Goes(r, Refuses(req[r], error))
  <2>1. PICK error \in {"unauthorized", "error"} : Goes(r, Refuses(req[r], error))
    BY <1>2
  <2> QED BY <1>1, <2>1, GuardRefusesLegal
<1>3. CASE Passes(r, [req[r] EXCEPT !.jwt = TRUE])
  <2> DEFINE c == req[r]
  <2>1. c \in Context
    BY DEF ContextsInv
  <2>2. PICK d : d = [c EXCEPT !.jwt = TRUE]
    OBVIOUS
  <2> HIDE DEF c
  <2>3. /\ d \in Context /\ d.jwt = TRUE
        /\ d.stage = c.stage /\ d.step = c.step /\ d.log = c.log /\ d.stream = c.stream
        /\ d.span = c.span /\ d.status = c.status /\ d.headers = c.headers
        /\ d.bodyRead = c.bodyRead /\ d.taken = c.taken /\ d.took = c.took
    BY <2>1, <2>2 DEF Context
  <2>4. Passes(r, d)
    BY <1>3, <2>2 DEF c
  <2> QED BY <1>1, <2>3, <2>4, PassesLegal DEF c
<1> QED BY <1>2, <1>3 DEF JwtGuard

\* Another guard throws, or passes and may have read the stream.
LEMMA CustomGuardLegal ==
    ASSUME ContextsInv, NEW r \in Requests, CustomGuard(r)
    PROVE  ContextsInv'
<1> DEFINE c == req[r]
<1>1. At(r, "guards") /\ All(r)[c.step] = "custom" /\ c.stage = "guards"
  BY DEF CustomGuard, Awaited, At, All
<1>2. c \in Context
  BY DEF ContextsInv
<1>3. CASE \E error \in {"forbidden", "error"} : Goes(r, Refuses(c, error))
  <2>1. PICK error \in {"forbidden", "error"} : Goes(r, Refuses(c, error))
    BY <1>3
  <2> QED BY <1>1, <2>1, GuardRefusesLegal
<1>6. CASE \E error \in Exceptions : Goes(r, Throws(c, error))
  <2>1. PICK error \in Exceptions : Goes(r, Throws(c, error))
    BY <1>6
  <2> QED BY <1>1, <2>1, UserThrowsLegal
<1>4. CASE Passes(r, c)
  <2> HIDE DEF c
  <2> QED BY <1>1, <1>2, <1>4, PassesLegal DEF c
<1>5. CASE Passes(r, [c EXCEPT !.taken = TRUE, !.took = TRUE])
  <2>2. PICK d : d = [c EXCEPT !.taken = TRUE, !.took = TRUE]
    OBVIOUS
  <2> HIDE DEF c
  <2>3. /\ d \in Context /\ d.took = TRUE
        /\ d.stage = c.stage /\ d.step = c.step /\ d.log = c.log /\ d.stream = c.stream
        /\ d.span = c.span /\ d.status = c.status /\ d.headers = c.headers
        /\ d.bodyRead = c.bodyRead /\ d.jwt = c.jwt
    BY <1>2, <2>2 DEF Context
  <2>4. Passes(r, d)
    BY <1>5, <2>2 DEF c
  <2> QED BY <1>1, <2>3, <2>4, PassesLegal DEF c
<1> QED BY <1>3, <1>4, <1>5, <1>6 DEF CustomGuard

\* Two parameters that read the stream are more than one.
LEMMA TwoReaders ==
    ASSUME NEW r \in Requests, NEW i \in Readers(r), NEW j \in Readers(r), i # j
    PROVE  Cardinality(Readers(r)) > 1
<1>1. RouteOf[r].params \in Seq(Param)
  BY RouteFacts
<1>2. Len(RouteOf[r].params) \in Nat /\ DOMAIN RouteOf[r].params = 1..Len(RouteOf[r].params)
  BY <1>1
<1>3. IsFiniteSet(Readers(r))
  <2>1. IsFiniteSet(1..Len(RouteOf[r].params))
    BY <1>2, FS_Interval
  <2> QED BY <1>2, <2>1, FS_Subset DEF Readers
<1>4. Cardinality({i, j}) = 2 /\ {i, j} \subseteq Readers(r)
  <2>1. IsFiniteSet({i}) /\ Cardinality({i}) = 1
    BY FS_Singleton
  <2>2. j \notin {i} /\ {i} \cup {j} = {i, j}
    OBVIOUS
  <2>3. Cardinality({i} \cup {j}) = Cardinality({i}) + 1
    BY <2>1, <2>2, FS_AddElement
  <2> QED BY <2>1, <2>2, <2>3
<1>5. Cardinality({i, j}) <= Cardinality(Readers(r)) /\ Cardinality(Readers(r)) \in Nat
  BY <1>3, <1>4, FS_Subset, FS_CardinalityType
<1> QED BY <1>4, <1>5

\* A body that cannot be read has its reason.
LEMMA FailsUnreadable ==
    ASSUME NEW r \in Requests, NEW c, Legal(r, c), c.stage = "params",
           c.step \in 1..Len(RouteOf[r].params),
           \/ RouteOf[r].params[c.step].source = "body" /\ BodyFails(c)
           \/ RouteOf[r].params[c.step].source = "form" /\ FormFails(c)
    PROVE  Unreadable(r, c)
<1> DEFINE params == RouteOf[r].params
           k == c.step
<1>1. /\ params \in Seq(Param) /\ DOMAIN params = 1..Len(params) /\ Len(params) \in Nat
      /\ \A i \in DOMAIN params : params[i].source \in Source
  <2>1. params \in Seq(Param) /\ DOMAIN params = 1..Len(params)
    BY RouteFacts
  <2> HIDE DEF params
  <2>2. Len(params) \in Nat /\ \A i \in DOMAIN params : params[i] \in Param
    BY <2>1
  <2> QED BY <2>1, <2>2 DEF Param
<1>2. k \in 1..Len(params) /\ k \in DOMAIN params
  BY <1>1
<1>3. ASSUME c.taken, ~c.took,
             ~c.bodyRead \/ params[k].source = "form"
      PROVE  HasParam(r, "form") /\ Cardinality(Readers(r)) > 1
  <2>1. PICK i \in 1..k - 1 : params[i].source # "plain"
    BY <1>3 DEF Legal, Read
  <2>2. i \in DOMAIN params /\ i # k
    <3> HIDE DEF params, k
    <3> QED BY <1>1, <1>2, <2>1
  <2>3. params[k].source # "plain"
    OBVIOUS
  <2>4. i \in Readers(r) /\ k \in Readers(r)
    BY <1>2, <2>1, <2>2, <2>3 DEF Readers
  <2>5. Cardinality(Readers(r)) > 1
    BY <2>2, <2>4, TwoReaders
  <2>6. CASE ~c.bodyRead
    <3>1. params[i].source # "body"
      BY <2>1, <2>6 DEF Legal, Read
    <3>2. params[i].source = "form"
      BY <1>1, <2>1, <2>2, <3>1 DEF Source
    <3> QED BY <2>2, <2>5, <3>2 DEF HasParam
  <2>7. CASE params[k].source = "form"
    BY <1>2, <2>5, <2>7 DEF HasParam
  <2> QED BY <1>3, <2>6, <2>7
<1>4. CASE params[k].source = "body" /\ BodyFails(c)
  BY <1>3, <1>4 DEF BodyFails, Unread, Unreadable
<1>5. CASE params[k].source = "form" /\ FormFails(c)
  <2>1. HasParam(r, "form")
    BY <1>2, <1>5 DEF HasParam
  <2> QED BY <1>3, <1>5, <2>1 DEF FormFails, Unreadable
<1> QED BY <1>4, <1>5

\* A parameter is read in turn; one that is not there or not valid is refused.
LEMMA ReadParamLegal ==
    ASSUME ContextsInv, NEW r \in Requests, ReadParam(r)
    PROVE  ContextsInv'
<1> DEFINE c == req[r]
           params == RouteOf[r].params
           p == params[c.step]
           fails == \/ p.source = "body" /\ BodyFails(c)
                    \/ p.source = "form" /\ FormFails(c)
<1>1. PICK d : d = IF p.source = "plain" THEN c
                   ELSE [c EXCEPT !.taken = TRUE, !.bodyRead = @ \/ p.source = "body"]
  OBVIOUS
<1>2. /\ Legal(r, c) /\ c \in Context /\ c.stage = "params"
      /\ c.step <= Len(params)
      /\ \/ fails /\ Goes(r, Refuses(Noted(d, "unreadable"), "badRequest"))
         \/ Goes(r, [d EXCEPT !.step = @ + 1])
         \/ Goes(r, Refuses(Noted(d, "invalid"), "badRequest"))
         \/ \E error \in Exceptions : Goes(r, Throws(d, error))
  BY <1>1 DEF ContextsInv, ReadParam, At
<1>3. Answerable(r, c) /\ "handled" \notin ToSet(c.log)
  BY <1>2, LegalAnswerable
<1> HIDE DEF c
<1>4. c.step \in 1..Len(params) /\ Len(params) \in Nat /\ c.step \in Nat
  <2>1. params \in Seq(Param)
    BY RouteFacts
  <2> HIDE DEF params
  <2>2. Len(params) \in Nat
    BY <2>1
  <2>3. c.step \in 1..Len(params) + 1
    BY <1>2 DEF Legal, Read, params
  <2> QED BY <1>2, <2>2, <2>3
<1> HIDE DEF p, fails
<1>5. /\ d \in Context /\ d.stage = "params" /\ d.step = c.step /\ d.log = c.log
      /\ d.headers = c.headers /\ d.stream = c.stream /\ d.span = c.span
      /\ d.status = c.status /\ d.jwt = c.jwt /\ d.took = c.took /\ d.content = c.content
      /\ d.bucket = c.bucket /\ d.retryAfter = c.retryAfter
      /\ d.taken => c.taken \/ p.source # "plain"
      /\ ~d.bodyRead => ~c.bodyRead /\ p.source # "body"
  <2>1. CASE p.source = "plain"
    <3>1. d = c
      BY <1>1, <2>1
    <3> QED BY <1>2, <2>1, <3>1
  <2>2. CASE p.source # "plain"
    <3>1. PICK b \in BOOLEAN : b = (c.bodyRead \/ p.source = "body")
      OBVIOUS
    <3>2. d = [c EXCEPT !.taken = TRUE, !.bodyRead = b]
      <4>1. d = [c EXCEPT !.taken = TRUE, !.bodyRead = c.bodyRead \/ p.source = "body"]
        BY <1>1, <2>2
      <4> QED BY <3>1, <4>1, Zenon
    <3>3. /\ d \in Context /\ d.stage = "params" /\ d.step = c.step /\ d.log = c.log
          /\ d.headers = c.headers /\ d.stream = c.stream /\ d.span = c.span
          /\ d.status = c.status /\ d.jwt = c.jwt /\ d.took = c.took /\ d.content = c.content
          /\ d.bucket = c.bucket /\ d.retryAfter = c.retryAfter
          /\ d.bodyRead = b
      BY <1>2, <3>2 DEF Context
    <3>4. ~d.bodyRead => ~c.bodyRead /\ p.source # "body"
      BY <3>1, <3>3, Zenon
    <3> QED BY <2>2, <3>3, <3>4
  <2> QED BY <2>1, <2>2
<1>6. (Unreadable(r, c) <=> Unreadable(r, d)) /\ (Refused(r, c) <=> Refused(r, d))
  BY <1>5 DEF Unreadable, Refused
<1>7. Answerable(r, d) /\ "handled" \notin ToSet(d.log)
  <2>1. Handled(r, d)
    BY <1>3, <1>5 DEF Answerable, Told, Handled, Paid
  <2> QED BY <1>3, <1>5, <1>6, <2>1 DEF Answerable, Told
<1>12. ASSUME NEW e \in {"unreadable", "invalid"}, e = "unreadable" => Unreadable(r, d)
       PROVE  Legal(r, Refuses(Noted(d, e), "badRequest"))
  <2>1. e \in Event \ {"handled", "admitted", "passed", "tooMany"}
    BY DEF Event
  <2>2. PICK f : f = Noted(d, e)
    OBVIOUS
  <2>3. Answerable(r, f) /\ ToSet(f.log) = ToSet(d.log) \cup {e}
    BY <1>7, <1>12, <2>1, <2>2, NotedAnswerable
  <2>4. "badRequest" \in Errors \ {"zod"}
    BY DEF Errors
  <2>5. /\ "unreadable" \in ToSet(f.log) \/ "invalid" \in ToSet(f.log)
        /\ "handled" \notin ToSet(f.log)
    BY <1>7, <2>3
  <2> QED BY <2>2, <2>3, <2>4, <2>5, RefusesLegal
<1>8. CASE fails /\ Goes(r, Refuses(Noted(d, "unreadable"), "badRequest"))
  <2>1. Unreadable(r, c)
    BY <1>2, <1>4, <1>8, FailsUnreadable DEF fails, p
  <2>2. Legal(r, Refuses(Noted(d, "unreadable"), "badRequest"))
    BY <1>6, <1>12, <2>1
  <2> QED BY <1>8, <2>2, GoesLegal
<1>9. CASE Goes(r, [d EXCEPT !.step = @ + 1])
  <2>1. PICK f : f = [d EXCEPT !.step = @ + 1]
    OBVIOUS
  <2>2. /\ f \in Context /\ f.stage = "params" /\ f.step = c.step + 1 /\ f.log = c.log
        /\ f.headers = c.headers /\ f.span = c.span /\ f.status = c.status
        /\ f.stream = c.stream /\ f.jwt = c.jwt /\ f.took = c.took
        /\ f.taken = d.taken /\ f.bodyRead = d.bodyRead
    <3>1. /\ d \in Context /\ d.stage = "params" /\ d.step = c.step /\ d.log = c.log
          /\ d.headers = c.headers /\ d.stream = c.stream /\ d.span = c.span
          /\ d.status = c.status /\ d.jwt = c.jwt /\ d.took = c.took
      BY <1>5
    <3>2. d.step + 1 \in Nat
      BY <1>4, <3>1
    <3> QED BY <2>1, <3>1, <3>2 DEF Context
  <2>3. Typed(f)
    BY <1>2, <2>2 DEF Legal, Typed
  <2>4. Logged(r, f) /\ Headed(r, f) /\ Reasoned(r, f)
    BY <1>2, <2>2 DEF Legal, Logged, Headed, Reasoned, Paid
  <2>5. Read(r, f)
    <3>1. /\ c.step + 1 \in 1..Len(params) + 1 /\ (c.step + 1) - 1 = c.step
          /\ 1..c.step = (1..c.step - 1) \cup {c.step}
      BY <1>4
    <3>2. f.step - 1 = c.step
      BY <2>2, <3>1
    <3>3. /\ c.taken => c.took \/ \E i \in 1..c.step - 1 : params[i].source # "plain"
          /\ ~c.bodyRead => \A i \in 1..c.step - 1 : params[i].source # "body"
      BY <1>2 DEF Legal, Read
    <3>4. f.taken => f.took \/ \E i \in 1..c.step : params[i].source # "plain"
      BY <1>5, <2>2, <3>1, <3>3, Zenon DEF p
    <3>5. ~f.bodyRead => \A i \in 1..c.step : params[i].source # "body"
      BY <1>5, <2>2, <3>1, <3>3, Zenon DEF p
    <3> QED BY <2>2, <3>1, <3>2, <3>4, <3>5 DEF Read
  <2>6. Legal(r, f)
    BY <2>3, <2>4, <2>5 DEF Legal
  <2> QED BY <1>9, <2>1, <2>6, GoesLegal
<1>10. CASE Goes(r, Refuses(Noted(d, "invalid"), "badRequest"))
  <2>1. Legal(r, Refuses(Noted(d, "invalid"), "badRequest"))
    BY <1>12
  <2> QED BY <1>10, <2>1, GoesLegal
<1>11. CASE \E error \in Exceptions : Goes(r, Throws(d, error))
  <2>1. PICK error \in Exceptions : Goes(r, Throws(d, error))
    BY <1>11
  <2>2. Legal(r, Throws(d, error))
    BY <1>7, ThrowsLegal
  <2> QED BY <2>1, <2>2, GoesLegal
<1> QED BY <1>2, <1>8, <1>9, <1>10, <1>11

\* The handler is called after all guards.
LEMMA CallHandlerLegal ==
    ASSUME ContextsInv, NEW r \in Requests, CallHandler(r)
    PROVE  ContextsInv'
<1> DEFINE c == req[r]
<1>1. Legal(r, c) /\ c \in Context /\ c.stage = "params"
  BY DEF ContextsInv, CallHandler, At
<1>2. Goes(r, [Noted(c, "handled") EXCEPT !.stage = "handler"])
  BY DEF CallHandler
<1> HIDE DEF c
<1>3. PICK d : d = Noted(c, "handled")
  OBVIOUS
<1>4. /\ d \in Context /\ d.log = Append(c.log, "handled") /\ d.jwt = c.jwt
      /\ d.headers = c.headers /\ d.span = c.span /\ d.status = c.status
      /\ d.stream = c.stream
  <2>1. "handled" \in Event
    BY DEF Event
  <2> QED BY <1>1, <1>3, <2>1, NotedFacts
<1>5. PICK f : f = [d EXCEPT !.stage = "handler"]
  OBVIOUS
<1>6. /\ f \in Context /\ f.stage = "handler" /\ f.log = Append(c.log, "handled")
      /\ f.jwt = c.jwt /\ f.headers = c.headers /\ f.span = c.span
      /\ f.status = c.status /\ f.stream = c.stream
  BY <1>4, <1>5 DEF Context, Stage
<1>7. Typed(f)
  BY <1>1, <1>6 DEF Legal, Typed
<1>8. Logged(r, f) /\ Read(r, f) /\ Headed(r, f) /\ Reasoned(r, f)
  BY <1>1, <1>6 DEF Legal, Logged, Read, Headed, Reasoned, Paid
<1>9. Legal(r, f)
  BY <1>7, <1>8 DEF Legal
<1> QED BY <1>2, <1>3, <1>5, <1>9, GoesLegal

\* The handler's answer, unless it is an error.
LEMMA HandlerReturnsLegal ==
    ASSUME ContextsInv, NEW r \in Requests, HandlerReturns(r)
    PROVE  ContextsInv'
<1> DEFINE c == req[r]
<1>1. Legal(r, c) /\ c.stage = "handler"
  BY DEF ContextsInv, HandlerReturns, At
<1>2. CASE Goes(r, Refuses(c, "error"))
  <2>1. Answerable(r, c) /\ "error" \in Errors \ {"zod"}
    BY <1>1, LegalAnswerable DEF Errors
  <2> HIDE DEF c
  <2>2. Legal(r, Refuses(c, "error"))
    BY <2>1, RefusesLegal
  <2> QED BY <1>2, <2>2, GoesLegal
<1>4. CASE \E status \in ErrorStatus : Goes(r, Answered(Noted(c, "chosen"), status))
  <2>1. PICK status \in ErrorStatus : Goes(r, Answered(Noted(c, "chosen"), status))
    BY <1>4
  <2>2. Answerable(r, c)
    BY <1>1, LegalAnswerable
  <2> HIDE DEF c
  <2>3. Legal(r, Answered(Noted(c, "chosen"), status))
    BY <2>2, ChosenLegal
  <2> QED BY <2>1, <2>3, GoesLegal
<1>3. CASE \E status \in {200, 204} : Goes(r, Answered(c, status))
  <2>1. PICK status \in {200, 204} : Goes(r, Answered(c, status))
    BY <1>3
  <2>2. Answerable(r, c)
    BY <1>1, LegalAnswerable
  <2>3. "handled" \in ToSet(c.log)
    <3>1. Prior(r, Len(All(r))) \in Seq(Event) /\ "handled" \in Event
      BY RouteFacts, PriorFacts DEF Event
    <3>2. c.log = Append(Prior(r, Len(All(r))), "handled")
      BY <1>1 DEF Legal, Logged
    <3> QED BY <3>1, <3>2, AppendSaid
  <2>4. status \in Statuses \ {0} /\ Reason(r, c, status)
    BY <2>3 DEF Statuses, Reason
  <2> HIDE DEF c
  <2>5. Legal(r, Answered(c, status))
    BY <2>2, <2>4, AnsweredLegal
  <2> QED BY <2>1, <2>5, GoesLegal
<1> QED BY <1>2, <1>3, <1>4 DEF HandlerReturns

\* The context of a request whose event stream has begun keeps its shape.
LEMMA StreamingContext ==
    ASSUME NEW c \in Context, NEW s \in Stream
    PROVE  [c EXCEPT !.stage = "streaming", !.status = 200, !.span = FALSE, !.stream = s] \in Context
<1>1. PICK stage, status : stage = "streaming" /\ status = 200
  OBVIOUS
<1>2. stage \in Stage /\ status \in Statuses
  BY <1>1 DEF Stage, Statuses
<1>3. [c EXCEPT !.stage = stage] \in Context
  BY <1>2 DEF Context
<1>4. PICK d : d = [c EXCEPT !.stage = stage]
  OBVIOUS
<1>5. d \in Context
  BY <1>3, <1>4
<1>6. [d EXCEPT !.status = status] \in Context
  BY <1>2, <1>5 DEF Context
<1>7. PICK e : e = [d EXCEPT !.status = status]
  OBVIOUS
<1>8. e \in Context
  BY <1>6, <1>7
<1>9. [e EXCEPT !.span = FALSE, !.stream = s] \in Context
  BY <1>8 DEF Context
<1> QED BY ONLY <1>1, <1>4, <1>7, <1>9

\* An event stream begins, or is over at once.
LEMMA HandlerStreamsLegal ==
    ASSUME ContextsInv, NEW r \in Requests, HandlerStreams(r)
    PROVE  ContextsInv'
<1> DEFINE c == req[r]
<1>1. Legal(r, c) /\ c \in Context /\ c.stage = "handler"
  BY DEF ContextsInv, HandlerStreams, At
<1>2. PICK s : s = Started(HeartbeatMs)
  OBVIOUS
<1>3. PICK d : d = [c EXCEPT !.stage = "streaming", !.status = 200, !.span = FALSE, !.stream = s]
  OBVIOUS
<1>4. Goes(r, d) \/ Goes(r, [d EXCEPT !.stream = SourceOver(@)])
  BY <1>2, <1>3 DEF HandlerStreams
<1> HIDE DEF c
<1>5. s \in Stream /\ SourceOver(s) \in Stream /\ LetsGo(s) /\ LetsGo(SourceOver(s))
  BY <1>2, StartedFacts
<1>6. /\ d \in Context /\ d.stage = "streaming" /\ d.status = 200 /\ d.span = FALSE
      /\ d.stream = s /\ d.log = c.log /\ d.jwt = c.jwt
  <2>1. c \in Context /\ s \in Stream
    BY <1>1, <1>5
  <2>2. d \in Context
    BY ONLY <1>3, <2>1, StreamingContext
  <2>3. /\ d.stage = "streaming" /\ d.status = 200 /\ d.span = FALSE
        /\ d.stream = s /\ d.log = c.log /\ d.jwt = c.jwt
    BY <1>1, <1>3 DEF Context
  <2> QED BY <2>2, <2>3
<1>7. Legal(r, d)
  <2>1. Typed(d)
    BY <1>5, <1>6 DEF Typed
  <2>2. Logged(r, d) /\ Read(r, d) /\ Headed(r, d) /\ Reasoned(r, d)
    BY <1>1, <1>6 DEF Legal, Logged, Read, Headed, Reasoned, Paid
  <2> QED BY <2>1, <2>2 DEF Legal
<1>8. Legal(r, [d EXCEPT !.stream = SourceOver(@)])
  <2>1. PICK t : t = SourceOver(s)
    OBVIOUS
  <2>2. [d EXCEPT !.stream = SourceOver(@)] = [d EXCEPT !.stream = t]
    BY <1>6, <2>1
  <2>3. Legal(r, [d EXCEPT !.stream = t])
    <3>1. \A a \in BOOLEAN : a \in BOOLEAN
      OBVIOUS
    <3> QED BY <1>5, <1>7, <2>1, StreamLegal
  <2> QED BY <2>2, <2>3
<1> QED BY <1>4, <1>7, <1>8, GoesLegal

\* The stream of a response sends, ends or sees the client go.
LEMMA StreamingLegal ==
    ASSUME ContextsInv, NEW r \in Requests,
           \/ \E printable \in BOOLEAN : SourceYields(r, printable)
           \/ SourceEnds(r)
           \/ ClientGone(r)
    PROVE  ContextsInv'
<1> DEFINE c == req[r]
<1>1. Legal(r, c) /\ c.stream \in Stream /\ LetsGo(c.stream) /\ c.aborted \in BOOLEAN
  BY DEF ContextsInv, Legal, Typed, Context
<1>2. CASE \E printable \in BOOLEAN : SourceYields(r, printable)
  <2>1. PICK printable \in BOOLEAN : SourceYields(r, printable)
    BY <1>2
  <2>2. c.stream.loop = "waiting" /\ Goes(r, [c EXCEPT !.stream = Yielded(c.stream, c.aborted, printable)])
    BY <2>1 DEF SourceYields, Waiting, Streams
  <2> HIDE DEF c
  <2>3. PICK s : s = Yielded(c.stream, c.aborted, printable)
    OBVIOUS
  <2>4. s \in Stream /\ LetsGo(s)
    BY <1>1, <2>2, <2>3, StreamFacts
  <2>5. Legal(r, [c EXCEPT !.stream = s])
    BY <1>1, <2>4, StreamLegal
  <2> QED BY <2>2, <2>3, <2>5, GoesLegal
<1>3. CASE SourceEnds(r)
  <2>1. c.stream.loop = "waiting" /\ Goes(r, [c EXCEPT !.stream = SourceOver(c.stream)])
    BY <1>3 DEF SourceEnds, Waiting, Streams
  <2> HIDE DEF c
  <2>2. PICK s : s = SourceOver(c.stream)
    OBVIOUS
  <2>3. s \in Stream /\ LetsGo(s)
    BY <1>1, <2>1, <2>2, StreamFacts
  <2>4. Legal(r, [c EXCEPT !.stream = s])
    BY <1>1, <2>3, StreamLegal
  <2> QED BY <2>1, <2>2, <2>4, GoesLegal
<1>4. CASE ClientGone(r)
  <2>1. Goes(r, [c EXCEPT !.aborted = TRUE, !.stream = Aborted(@)])
    BY <1>4 DEF ClientGone
  <2> HIDE DEF c
  <2>2. PICK s : s = Aborted(c.stream)
    OBVIOUS
  <2>3. s \in Stream /\ LetsGo(s)
    BY <1>1, <2>2, StreamFacts
  <2>4. Legal(r, [c EXCEPT !.aborted = TRUE, !.stream = s])
    BY <1>1, <2>3, StreamLegal
  <2>5. [c EXCEPT !.aborted = TRUE, !.stream = Aborted(@)] = [c EXCEPT !.aborted = TRUE, !.stream = s]
    BY <2>2
  <2> QED BY <2>1, <2>4, <2>5, GoesLegal
<1> QED BY <1>2, <1>3, <1>4

-----------------------------------------------------------------------------
(* Limiter and contexts together. *)

IInv == LimitInv /\ ContextsInv

\* At the start nothing is counted and no request has arrived.
LEMMA InitIInv == Init => IInv
<1> SUFFICES ASSUME Init PROVE IInv
  OBVIOUS
<1>1. ContextsInv
  BY NewLegal DEF Init, ContextsInv
<1> QED BY <1>1, InitLimit DEF IInv

\* Every step keeps both halves; only hits, the sweep, the clock and the end
\* of the storage touch the first.
LEMMA NextIInv ==
    ASSUME IInv, [Next]_vars
    PROVE  IInv'
<1>1. LimitInv /\ ContextsInv /\ LimitTypes
  BY DEF IInv, LimitInv
<1>2. ASSUME UNCHANGED <<now, buckets, stopped, admitted>> PROVE LimitInv'
  BY <1>1, <1>2 DEF LimitInv, LimitTypes, Windows, Counted, Start
<1>3. ASSUME UNCHANGED req PROVE ContextsInv'
  BY <1>1, <1>3 DEF ContextsInv
<1>4. ASSUME NEW r \in Requests, NEW content \in RouteOf[r].contents, Arrive(r, content)
      PROVE  IInv'
  <2>1. ContextsInv'
    BY <1>1, <1>4, ArriveLegal
  <2>2. CASE Limited(r)
    <3>1. LET b == HitBucket(buckets, Key, now) IN
          /\ buckets' = Hit(buckets, Key, now)
          /\ admitted' = IF Allowed(b) /\ ~stopped THEN Append(admitted, now) ELSE admitted
          /\ UNCHANGED <<now, stopped>>
      BY <1>4, <2>2 DEF Arrive
    <3> QED BY <1>1, <2>1, <3>1, HitKeepsLimit DEF IInv
  <2>3. CASE ~Limited(r)
    <3>1. UNCHANGED <<now, buckets, stopped, admitted>>
      BY <1>4, <2>3 DEF Arrive
    <3> QED BY <1>2, <2>1, <3>1 DEF IInv
  <2> QED BY <2>2, <2>3
<1>5. ASSUME NEW r \in Requests, NEW error \in Exceptions, KeyGeneratorThrows(r, error)
      PROVE  IInv'
  <2>1. UNCHANGED <<now, buckets, stopped, admitted>>
    BY <1>5 DEF KeyGeneratorThrows, Other
  <2> QED BY <1>1, <1>2, <1>5, <2>1, KeyGeneratorThrowsLegal DEF IInv
<1>6. ASSUME NEW r \in Requests, Continues(r) PROVE IInv'
  <2>1. UNCHANGED <<now, buckets, stopped, admitted>>
    BY <1>6 DEF Continues, Enforce, JwtGuard, CustomGuard, ReadParam, CallHandler,
                HandlerThrows, HandlerReturns, HandlerStreams, Other
  <2>2. ASSUME Enforce(r) PROVE ContextsInv'
    BY <1>1, <2>2, EnforceLegal
  <2>3. ASSUME JwtGuard(r) PROVE ContextsInv'
    BY <1>1, <2>3, JwtGuardLegal
  <2>4. ASSUME CustomGuard(r) PROVE ContextsInv'
    BY <1>1, <2>4, CustomGuardLegal
  <2>5. ASSUME ReadParam(r) PROVE ContextsInv'
    BY <1>1, <2>5, ReadParamLegal
  <2>6. ASSUME CallHandler(r) PROVE ContextsInv'
    BY <1>1, <2>6, CallHandlerLegal
  <2>7. ASSUME HandlerReturns(r) PROVE ContextsInv'
    BY <1>1, <2>7, HandlerReturnsLegal
  <2>8. ASSUME HandlerStreams(r) PROVE ContextsInv'
    BY <1>1, <2>8, HandlerStreamsLegal
  <2>9. ASSUME \E error \in Exceptions : HandlerThrows(r, error)
        PROVE  ContextsInv'
    <3>1. PICK error \in Exceptions : HandlerThrows(r, error)
      BY <2>9
    <3>2. req[r].stage = "handler" /\ Goes(r, Throws(req[r], error))
      BY <3>1 DEF HandlerThrows, At
    <3> QED BY <1>1, <3>2, UserThrowsLegal
  <2>10. ContextsInv'
    BY <1>6, <2>2, <2>3, <2>4, <2>5, <2>6, <2>7, <2>8, <2>9 DEF Continues
  <2> QED BY <1>2, <2>1, <2>10 DEF IInv
<1>7. ASSUME NEW r \in Requests,
             \/ \E printable \in BOOLEAN : SourceYields(r, printable)
             \/ SourceEnds(r)
             \/ ClientGone(r)
      PROVE  IInv'
  <2>1. UNCHANGED <<now, buckets, stopped, admitted>>
    BY <1>7 DEF SourceYields, SourceEnds, ClientGone, Other
  <2> QED BY <1>1, <1>2, <1>7, <2>1, StreamingLegal DEF IInv
<1>8. CASE Sweep
  <2>1. UNCHANGED req
    BY <1>8 DEF Sweep
  <2> QED BY <1>1, <1>3, <1>8, <2>1, SweepKeepsLimit DEF IInv
<1>9. CASE Tick \/ Stop
  <2>1. UNCHANGED req
    BY <1>9 DEF Tick, Stop
  <2> QED BY <1>1, <1>3, <1>9, <2>1, ClockKeepsLimit DEF IInv
<1>10. CASE UNCHANGED vars
  BY <1>2, <1>3, <1>10 DEF vars, IInv
<1> QED BY <1>4, <1>5, <1>6, <1>7, <1>8, <1>9, <1>10 DEF Next

\* The inductive invariant holds in every state of every execution.
THEOREM AlwaysIInv == Spec => []IInv
BY InitIInv, NextIInv, PTL DEF Spec

\* The contexts, the buckets and the streams keep their types, the span of a
\* request is open from its arrival to its answer and no longer, and a request
\* has a status exactly when its answer began (createRouteHandler,
\* instrumentRequest, sseResponse).
THEOREM TypeCorrect == Spec => []TypeOK
<1>1. IInv => TypeOK
  <2> SUFFICES ASSUME IInv PROVE TypeOK
    OBVIOUS
  <2>1. LimitTypes
    BY DEF IInv, LimitInv
  <2>2. ASSUME NEW r \in Requests
        PROVE  /\ req[r].stage \in Stage
               /\ req[r].content \in Contents
               /\ req[r].headers \subseteq Header /\ req[r].answer \subseteq Header
               /\ req[r].status \in {0, 200, 204} \cup ErrorStatus
               /\ req[r].stream \in Stream
               /\ req[r].span <=> req[r].stage \notin {"new", "streaming", "answered"}
               /\ req[r].status # 0 <=> req[r].stage \in {"streaming", "answered"}
               /\ LetsGo(req[r].stream)
    <3>1. req[r] \in Context /\ Typed(req[r])
      BY DEF IInv, ContextsInv, Legal, Typed
    <3>2. Statuses \subseteq {0, 200, 204} \cup ErrorStatus
      <4> DEFINE S == { StatusOf[e] : e \in Exceptions }
      <4>1. Exceptions = Errors
        BY StatusFacts
      <4>2. StatusOf["badRequest"] \in S /\ StatusOf["unauthorized"] \in S
            /\ StatusOf["forbidden"] \in S /\ StatusOf["other"] \in S
            /\ StatusOf["tooMany"] \in S /\ StatusOf["error"] \in S
        BY <4>1 DEF Errors
      <4>3. 400 \in S /\ 401 \in S /\ 403 \in S /\ 409 \in S /\ 429 \in S /\ 500 \in S
        <5> HIDE DEF S
        <5> QED BY <4>2 DEF StatusOf
      <4> HIDE DEF S
      <4>4. Statuses \subseteq {0, 200, 204} \cup S
        BY <4>3 DEF Statuses
      <4> QED BY <4>4 DEF S, ErrorStatus
    <3>3. /\ req[r].stage \in Stage /\ req[r].content \in Contents
          /\ req[r].headers \subseteq Header /\ req[r].answer \subseteq Header
          /\ req[r].status \in Statuses /\ req[r].stream \in Stream
      BY <3>1 DEF Context
    <3> QED BY <3>1, <3>2, <3>3 DEF Typed
  <2>3. /\ now \in 0..MaxTime /\ AreBuckets(buckets, {Key}) /\ stopped \in BOOLEAN
        /\ \A i \in DOMAIN admitted : admitted[i] \in 0..now
    BY <2>1 DEF LimitTypes
  <2> QED BY <2>2, <2>3, Zenon DEF TypeOK
<1> QED BY <1>1, AlwaysIInv, PTL

\* Whatever requests arrive and whenever the sweep runs, no span of one
\* window's length sees more than twice the limit (MemoryStorage).
THEOREM LimitHolds == Spec => []AtMostTwiceTheLimit
<1>1. IInv => AtMostTwiceTheLimit
  BY LimitBounds DEF IInv
<1> QED BY <1>1, AlwaysIInv, PTL

\* A handler runs only when its request was admitted and every guard, of the
\* class first, passed; then the payload of a JwtGuard is there
\* (createRouteHandler, buildRoutes).
THEOREM HandlersAdmitted == Spec => []HandlerWasAdmitted
<1>1. ASSUME NEW r \in Requests, NEW c, Legal(r, c) PROVE Handled(r, c)
  <2> DEFINE p == Prior(r, Len(All(r)))
  <2>1. /\ Len(All(r)) \in Nat /\ p \in Seq(Event) /\ ToSet(p) \subseteq {"admitted", "passed"}
    BY RouteFacts, PriorFacts
  <2>2. CASE c.stage \in {"limit", "guards", "params", "handler"}
    BY <1>1, <2>2, LegalAnswerable DEF Answerable, Told
  <2>3. CASE c.stage = "new"
    <3>1. ToSet(c.log) = {}
      BY <1>1, <2>3 DEF Legal, Logged, ToSet
    <3> QED BY <3>1 DEF Handled
  <2>4. CASE c.stage = "streaming"
    <3>1. c.log = Append(p, "handled") /\ Paid(r, c, Len(All(r)))
      BY <1>1, <2>4 DEF Legal, Logged
    <3>2. IsPrefix(c.log, c.log)
      <4>1. "handled" \in Event
        BY DEF Event
      <4>2. c.log \in Seq(Event)
        BY <2>1, <3>1, <4>1, AppendSaid
      <4> QED BY <4>1, <4>2, AppendSaid
    <3> QED BY <3>1, <3>2 DEF Handled
  <2>5. CASE c.stage = "answered"
    BY <1>1, <2>5 DEF Legal, Reasoned, Told
  <2>6. c.stage \in Stage
    BY <1>1 DEF Legal, Typed, Context
  <2> QED BY <2>2, <2>3, <2>4, <2>5, <2>6 DEF Stage
<1>2. IInv => HandlerWasAdmitted
  <2> SUFFICES ASSUME IInv, NEW r \in Requests, Said(r, "handled")
               PROVE  LET guards == RouteOf[r].classGuards \o RouteOf[r].routeGuards
                          before == (IF Limited(r) THEN <<"admitted">> ELSE << >>)
                                        \o [i \in DOMAIN guards |-> "passed"]
                      IN  /\ IsPrefix(Append(before, "handled"), req[r].log)
                          /\ Contains(guards, "jwt") => req[r].jwt
    BY DEF HandlerWasAdmitted
  <2>1. Handled(r, req[r]) /\ "handled" \in ToSet(req[r].log)
    BY <1>1 DEF IInv, ContextsInv, Said
  <2>2. /\ IsPrefix(Append(Prior(r, Len(All(r))), "handled"), req[r].log)
        /\ Paid(r, req[r], Len(All(r)))
    BY <2>1 DEF Handled
  <2>3. DOMAIN All(r) = 1..Len(All(r)) /\ All(r) = RouteOf[r].classGuards \o RouteOf[r].routeGuards
    BY RouteFacts DEF All, Guards
  <2> QED BY <2>2, <2>3 DEF Prior, Paid, Contains
<1> QED BY <1>2, AlwaysIInv, PTL

\* Every answer whose status user code did not choose has its reason in the
\* request's history, and every answer the headers of the stages it went
\* through (enforceRateLimit, extractArgs, errorToResponse).
THEOREM AnswersReasoned == Spec => []AnswersAreReal
<1>1. IInv => AnswersAreReal
  <2> SUFFICES ASSUME IInv, NEW r \in Requests, At(r, "answered")
               PROVE  LET status == req[r].status
                          guards == ToSet(RouteOf[r].classGuards \o RouteOf[r].routeGuards)
                      IN
                      /\ Said(r, "chosen")
                         \/ /\ status = 429 => Said(r, "tooMany")
                            /\ status = 401 => "jwt" \in guards
                            /\ status = 403 => "custom" \in guards
                            /\ status = 400 => Said(r, "unreadable") \/ Said(r, "invalid")
                            /\ status \in {429, 401, 403, 400} => ~Said(r, "handled")
                            /\ status \in {200, 204} => Said(r, "handled")
                      /\ Said(r, "tooMany") =>
                            /\ Limited(r) /\ req[r].bucket.count > MaxHits
                            /\ req[r].retryAfter >= req[r].bucket.resetAt
                            /\ "retry-after" \in req[r].answer
                            /\ ~Said(r, "passed") /\ ~Said(r, "handled")
                      /\ Said(r, "unreadable") =>
                            \/ req[r].content = "broken json"
                            \/ HasParam(r, "form") /\ req[r].content # "multipart"
                            \/ HasParam(r, "form") /\ Cardinality(Readers(r)) > 1
                            \/ req[r].took
                      /\ Said(r, "admitted") \/ Said(r, "tooMany") =>
                            "rate limit" \in req[r].answer
                      /\ "static" \in req[r].answer
    BY DEF AnswersAreReal
  <2>1. Reasoned(r, req[r]) /\ req[r].stage = "answered"
    BY DEF IInv, ContextsInv, Legal, At
  <2>2. All(r) = RouteOf[r].classGuards \o RouteOf[r].routeGuards
    BY DEF All, Guards
  <2>3. "chosen" \in ToSet(req[r].log) \/ Reason(r, req[r], req[r].status)
    BY <2>1 DEF Reasoned
  <2>4. Told(r, req[r], req[r].answer)
    BY <2>1 DEF Reasoned
  <2> QED BY <2>2, <2>3, <2>4 DEF Reason, Told, Refused, Unreadable, Said
<1> QED BY <1>1, AlwaysIInv, PTL
=============================================================================
