---------------------------- MODULE Identity_proofs ----------------------------
(***************************************************************************)
(* Proofs about who somebody is and what he may do.                        *)
(*                                                                         *)
(* Logging in, for any number of callers, destinations, codes, processes   *)
(* and sessions: a lock a caller was told of is kept, no window admits     *)
(* more than twice its limit, two first logins do not both insert the      *)
(* account, a code opens at most one session for each request in flight,   *)
(* the wrong guesses at a code are bounded, a session has one heir, and    *)
(* one boot of a process opens one stream for a ticket.                    *)
(*                                                                         *)
(* The vault, for any number of requests, refused puts and crashes: an     *)
(* acknowledged change of the area's password kills the tickets signed     *)
(* before it, what a rotation retired stays dead, the counters of passkeys *)
(* rise, and the rotation report does not flatter.                         *)
(*                                                                         *)
(* At the end, that all of it together keeps its types.                    *)
(***************************************************************************)
EXTENDS MCIdentity, LazyStore_proofs, SequenceTheorems, FiniteSetTheorems, WellFoundedInduction

-----------------------------------------------------------------------------
(***************************************************************************)
(* RateLimiter                                                             *)
(***************************************************************************)

USE LimiterAssumption, MaxClockAssumption

Times == [count : Nat, start : Nat, hit : Nat, lockedUntil : Nat]

-----------------------------------------------------------------------------
(* One call of consume().                                                  *)

\* The bucket a request is counted in started less than a window ago.
LEMMA CurrentBucket ==
  ASSUME NEW b \in Times, NEW t \in Nat \ {0}, b.start <= t, b.hit # 0 => b.start <= b.hit
  PROVE  LET cur == Current(b, LimitRule, t)
         IN  /\ cur \in Times
             /\ cur.start # 0 /\ cur.start <= t
             /\ t < cur.start + LimitRule.window
             /\ cur.hit # 0 => cur.start <= cur.hit
             /\ cur = b \/ cur = [count |-> 0, start |-> t, hit |-> 0, lockedUntil |-> 0]
<1>1. LimitRule.window \in Nat \ {0}
  OBVIOUS
<1>2. [NoBucket EXCEPT !.start = t] = [count |-> 0, start |-> t, hit |-> 0, lockedUntil |-> 0]
  BY DEF NoBucket
<1>3. b.start \in Nat
  BY DEF Times
<1>4. CASE b.start = 0 \/ t - b.start >= LimitRule.window
  BY <1>1, <1>2, <1>4 DEF Current, Times
<1>5. CASE ~(b.start = 0 \/ t - b.start >= LimitRule.window)
  BY <1>1, <1>3, <1>5 DEF Current
<1> QED BY <1>4, <1>5

\* The bucket an admitted hit leaves.
LEMMA CountedBucket ==
  ASSUME NEW b \in Times, NEW t \in Nat
  PROVE  LET after == [b EXCEPT !.count = @ + 1, !.hit = t]
         IN  after \in Times /\ after.start = b.start /\ after.hit = t
<1> DEFINE counted == [b EXCEPT !.count = b.count + 1]
<1>1. b.count + 1 \in Nat
  BY DEF Times
<1>2. counted \in Times /\ counted.start = b.start
  BY <1>1 DEF Times
<1>3. [b EXCEPT !.count = @ + 1, !.hit = t] = [counted EXCEPT !.hit = t]
  BY DEF Times
<1> HIDE DEF counted
<1>4. [counted EXCEPT !.hit = t] \in Times /\ [counted EXCEPT !.hit = t].start = counted.start
      /\ [counted EXCEPT !.hit = t].hit = t
  BY <1>2 DEF Times
<1> QED BY <1>2, <1>3, <1>4

\* A verdict of "limit" announces the lock; "allowed" is not said while one runs.
LEMMA ConsumeFacts ==
  ASSUME NEW b \in Times, NEW t \in Nat \ {0},
         b.start <= t, b.hit <= t, b.hit # 0 => b.start <= b.hit
  PROVE  LET answer == Consume(b, LimitRule, t)
             after == answer.bucket
             last == IF after.hit # 0 THEN after.hit ELSE after.start
         IN  /\ after \in Times
             /\ after.start <= t /\ after.hit <= t
             /\ after.hit # 0 => after.start <= after.hit
             /\ Locked(b, t) => answer.verdict = "locked" /\ after = b
             /\ answer.verdict = "allowed" => ~Locked(b, t)
             /\ answer.verdict = "limit" =>
                    /\ after.lockedUntil < last + LimitRule.window + LimitRule.lock
                    /\ after.start # 0
                    /\ ~Locked(b, t)
<1> DEFINE cur == Current(b, LimitRule, t)
           last(x) == IF x.hit # 0 THEN x.hit ELSE x.start
<1>1. /\ cur \in Times
      /\ cur.start # 0 /\ cur.start <= t
      /\ t < cur.start + LimitRule.window
      /\ cur.hit # 0 => cur.start <= cur.hit
      /\ cur.hit <= t
  BY CurrentBucket
<1>2. LimitRule.window \in Nat /\ LimitRule.lock \in Nat
  OBVIOUS
<1> HIDE DEF cur
<1>3. CASE Locked(b, t)
  BY <1>3 DEF Consume
<1>4. CASE ~Locked(b, t) /\ Cooling(cur, LimitRule, t)
  <2>1. Consume(b, LimitRule, t) = [verdict |-> "cooldown", bucket |-> cur]
    BY <1>4 DEF Consume, cur
  <2> QED BY <1>1, <1>4, <2>1
<1>5. CASE ~Locked(b, t) /\ ~Cooling(cur, LimitRule, t) /\ cur.count >= LimitRule.limit
  <2> DEFINE after == [cur EXCEPT !.lockedUntil = t + LimitRule.lock]
  <2>1. Consume(b, LimitRule, t) = [verdict |-> "limit", bucket |-> after]
    BY <1>5 DEF Consume, cur
  <2>2. /\ after \in Times
        /\ after.start = cur.start /\ after.hit = cur.hit
        /\ after.lockedUntil = t + LimitRule.lock
    BY <1>1, <1>2 DEF Times
  <2>3. t + LimitRule.lock < last(after) + LimitRule.window + LimitRule.lock
    <3>1. cur.start \in Nat /\ cur.hit \in Nat
      BY <1>1 DEF Times
    <3>2. cur.start <= last(after) /\ last(after) \in Nat
      BY <1>1, <2>2, <3>1
    <3> HIDE DEF last
    <3> QED BY <1>1, <1>2, <3>1, <3>2
  <2> HIDE DEF after
  <2> QED BY <1>1, <1>5, <2>1, <2>2, <2>3
<1>6. CASE ~Locked(b, t) /\ ~Cooling(cur, LimitRule, t) /\ ~(cur.count >= LimitRule.limit)
  <2> DEFINE after == [cur EXCEPT !.count = @ + 1, !.hit = t]
  <2>1. Consume(b, LimitRule, t) = [verdict |-> "allowed", bucket |-> after]
    BY <1>6 DEF Consume, cur
  <2>2. /\ after \in Times
        /\ after.start = cur.start /\ after.hit = t
    BY <1>1, CountedBucket
  <2> HIDE DEF after
  <2> QED BY <1>1, <1>6, <2>1, <2>2
<1> QED BY <1>3, <1>4, <1>5, <1>6

-----------------------------------------------------------------------------
(* The lock over time.  While it runs the bucket that holds it is there,   *)
(* and has not rested long enough for the sweeper.                         *)

LastHit ==
    IF bucket.hit # 0 THEN bucket.hit ELSE bucket.start

LockInv ==
    /\ now \in Nat \ {0}
    /\ lockEnd \in Nat
    /\ bucket \in Times
    /\ bucket.start <= now /\ bucket.hit <= now
    /\ bucket.hit # 0 => bucket.start <= bucket.hit
    /\ driver = "redis" => lockEnd = 0
    /\ now < lockEnd => /\ bucket.lockedUntil = lockEnd
                        /\ bucket.start # 0
                        /\ lockEnd < LastHit + LimitRule.window + LimitRule.lock

\* A hit announces a lock, leaves a running one alone, or finds none.
LEMMA HitKeepsLock ==
  ASSUME LockInv, Hit
  PROVE  LockInv' /\ (admitted' # admitted => now >= lockEnd)
<1> DEFINE answer == Consume(bucket, LimitRule, now)
           after == answer.bucket
<1>1. /\ bucket' = after
      /\ now' = now /\ driver' = driver /\ driver = "memory"
      /\ admitted' # admitted => answer.verdict = "allowed"
      /\ lockEnd' = IF answer.verdict = "limit" THEN after.lockedUntil ELSE lockEnd
  BY DEF Hit
<1>2. /\ after \in Times
      /\ after.start <= now /\ after.hit <= now
      /\ after.hit # 0 => after.start <= after.hit
      /\ Locked(bucket, now) => answer.verdict = "locked" /\ after = bucket
      /\ answer.verdict = "allowed" => ~Locked(bucket, now)
      /\ answer.verdict = "limit" =>
             /\ after.lockedUntil < (IF after.hit # 0 THEN after.hit ELSE after.start)
                                        + LimitRule.window + LimitRule.lock
             /\ after.start # 0
             /\ ~Locked(bucket, now)
  BY ConsumeFacts DEF LockInv
<1>3. now < lockEnd => Locked(bucket, now)
  BY DEF LockInv, Locked
<1>4. after.lockedUntil \in Nat
  BY <1>2 DEF Times
<1> HIDE DEF answer
<1>5. CASE Locked(bucket, now)
  BY <1>1, <1>2, <1>5 DEF LockInv, LastHit
<1>6. CASE ~Locked(bucket, now)
  <2>1. now >= lockEnd
    BY <1>3, <1>6 DEF LockInv
  <2> QED BY <1>1, <1>2, <1>4, <1>6, <2>1 DEF LockInv, LastHit
<1> QED BY <1>5, <1>6

\* The sweeper waits longer than a window and a lock after the last hit.
LEMMA EvictKeepsLock ==
  ASSUME LimitRule.window + LimitRule.lock <= Idle + 1, LockInv, Evict
  PROVE  LockInv'
<1>1. bucket.start # 0 /\ now - LastHit > Idle
  BY DEF Evict, Evictable, LastHit
<1>2. LimitRule.window \in Nat /\ LimitRule.lock \in Nat /\ LastHit \in Nat
  BY DEF LockInv, LastHit, Times
<1>3. ~(now < lockEnd)
  BY <1>1, <1>2 DEF LockInv
<1>4. bucket' = NoBucket /\ UNCHANGED <<driver, lockEnd, now>>
  BY DEF Evict
<1>5. NoBucket \in Times /\ NoBucket.start = 0 /\ NoBucket.hit = 0
  BY DEF NoBucket, Times
<1> QED BY <1>3, <1>4, <1>5 DEF LockInv

\* Each step keeps the lock, and admits nobody while it runs.
LEMMA StepKeepsLock ==
  ASSUME LimitRule.window + LimitRule.lock <= Idle + 1,
         LockInv, [LimiterNext]_<<limiterVars, now>>
  PROVE  /\ LockInv'
         /\ now' = now /\ admitted' # admitted => now >= lockEnd
<1>1. CASE Hit
  BY <1>1, HitKeepsLock
<1>2. CASE SharedHit
  BY <1>2 DEF SharedHit, LockInv, LastHit
<1>3. CASE Evict
  BY <1>3, EvictKeepsLock DEF Evict
<1>4. CASE LimiterTick
  <2>1. now' = now + 1 /\ UNCHANGED <<driver, bucket, lockEnd>>
    BY <1>4 DEF LimiterTick, Tick
  <2>2. LastHit' = LastHit /\ bucket.start \in Nat /\ bucket.hit \in Nat
    BY <2>1 DEF LastHit, LockInv, Times
  <2> QED BY <2>1, <2>2 DEF LockInv
<1>5. CASE UNCHANGED <<limiterVars, now>>
  BY <1>5 DEF limiterVars, LockInv, LastHit
<1> QED BY <1>1, <1>2, <1>3, <1>4, <1>5 DEF LimiterNext, FloorHit, EndpointHit

\* consume() and evictExpired(): a caller that was told "limit" keeps everybody
\* out until the instant it was told, under every rule whose window and lock
\* together are no longer than the sweeper's half hour.  (A rule of an hour, like
\* the unused presets of endpoint-rate-limit.guard.ts, is not such a rule.)
THEOREM LockIsKept ==
  ASSUME LimitRule.window + LimitRule.lock <= Idle + 1
  PROVE  LimiterSpec => LockHolds
<1>1. LimiterInit /\ ClockInit => LockInv
  BY DEF LimiterInit, ClockInit, LockInv, NoBucket, Times, LastHit
<1>2. LockInv /\ [LimiterNext]_<<limiterVars, now>> => LockInv'
  BY StepKeepsLock
<1>3. LockInv /\ [LimiterNext]_<<limiterVars, now>>
        => [now' = now /\ admitted' # admitted => now >= lockEnd]_<<limiterVars, now>>
  BY StepKeepsLock
<1> QED BY <1>1, <1>2, <1>3, PTL DEF LimiterSpec, LockHolds

-----------------------------------------------------------------------------
(* What has been admitted.  The counter of a bucket counts the hits since  *)
(* it started; those before it are left over from one bucket more.         *)

Hits == [at : Nat, nth : Nat]

Before(hits, t) ==
    {h \in hits : h.at < t}

Since(hits, t) ==
    {h \in hits : h.at >= t}

HitsTyped ==
    /\ now \in Nat \ {0}
    /\ admitted \subseteq Hits /\ IsFiniteSet(admitted)
    /\ \A h \in admitted : h.at <= now /\ now - h.at < LimitRule.window

\* In the process, under the bucket and under nothing when there is none.
BucketCounts ==
    /\ bucket \in Times
    /\ bucket.start <= now /\ bucket.hit <= now
    /\ bucket.hit # 0 => bucket.start <= bucket.hit
    /\ bucket.start = 0 => admitted = {}
    /\ bucket.start # 0 =>
           \A h \in admitted : h.at <= LastHit /\ h.at < bucket.start + LimitRule.window
    /\ bucket.count <= LimitRule.limit
    /\ Cardinality(Since(admitted, bucket.start)) <= bucket.count
    /\ Cardinality(Before(admitted, bucket.start)) <= LimitRule.limit

\* In Redis, under the counter of the slot and under the slot before it.
SlotStart(t) ==
    LimitRule.window * Slot(LimitRule, t)

SlotCounts ==
    /\ now <= MaxClock
    /\ slots \in [0..MaxClock -> Nat]
    /\ \A s \in 0..MaxClock : s > Slot(LimitRule, now) => slots[s] = 0
    /\ Cardinality(Since(admitted, SlotStart(now))) <= slots[Slot(LimitRule, now)]
    /\ Cardinality(Since(admitted, SlotStart(now))) <= LimitRule.limit
    /\ Cardinality(Before(admitted, SlotStart(now))) <= LimitRule.limit

CountInv ==
    /\ HitsTyped
    /\ driver = "memory" => BucketCounts
    /\ driver # "memory" => SlotCounts

\* Two parts that are each within the limit are together within twice it.
LEMMA TwoParts ==
  ASSUME NEW t, HitsTyped,
         Cardinality(Since(admitted, t)) <= LimitRule.limit, Cardinality(Before(admitted, t)) <= LimitRule.limit,
         t \in Nat
  PROVE  AtMostTwiceTheLimit
<1> DEFINE A == Since(admitted, t)
           B == Before(admitted, t)
<1>1. admitted = A \cup B /\ A \cap B = {}
  BY DEF HitsTyped, Hits, Since, Before
<1>2. IsFiniteSet(A) /\ IsFiniteSet(B)
  BY FS_Subset DEF HitsTyped, Since, Before
<1>3. Cardinality(A) <= LimitRule.limit /\ Cardinality(B) <= LimitRule.limit
  OBVIOUS
<1> HIDE DEF A, B
<1>4. Cardinality(A \cup B) = Cardinality(A) + Cardinality(B) - Cardinality(A \cap B)
  BY <1>2, FS_Union
<1>5. /\ Cardinality(A) \in Nat /\ Cardinality(B) \in Nat
      /\ Cardinality(A \cap B) = 0
  BY <1>1, <1>2, FS_CardinalityType, FS_EmptySet
<1>6. Cardinality(admitted) = Cardinality(A) + Cardinality(B)
  BY <1>1, <1>4, <1>5
<1> QED BY <1>3, <1>5, <1>6 DEF AtMostTwiceTheLimit

\* One more hit at t: it is a hit of that instant, and no count grows by more
\* than one.
LEMMA Admitted ==
  ASSUME HitsTyped, admitted' = Admit(admitted, now), now' = now
  PROVE  /\ HitsTyped'
         /\ \A h \in admitted' : h \in admitted \/ h.at = now
<1> DEFINE new == [at |-> now, nth |-> Cardinality({h \in admitted : h.at = now})]
<1>1. {h \in admitted : h.at = now} \in SUBSET admitted
  OBVIOUS
<1>2. Cardinality({h \in admitted : h.at = now}) \in Nat
  BY <1>1, FS_Subset, FS_CardinalityType DEF HitsTyped
<1>3. new \in Hits /\ new.at = now
  BY <1>2 DEF Hits, HitsTyped
<1>4. admitted' = admitted \cup {new}
  BY DEF Admit
<1> HIDE DEF new
<1>5. IsFiniteSet(admitted')
  BY <1>4, FS_AddElement DEF HitsTyped
<1> QED BY <1>3, <1>4, <1>5 DEF HitsTyped

\* A part of the hits counts at most one more after a hit is admitted, and not
\* even that if the hit is not in it.
LEMMA PartGrows ==
  ASSUME HitsTyped, admitted' = Admit(admitted, now), now' = now, NEW t \in Nat
  PROVE  /\ Cardinality(Since(admitted, t)) \in Nat /\ Cardinality(Since(admitted', t)) \in Nat
         /\ Cardinality(Since(admitted', t)) <= Cardinality(Since(admitted, t)) + 1
         /\ t <= now => Before(admitted', t) = Before(admitted, t)
<1> DEFINE new == [at |-> now, nth |-> Cardinality({h \in admitted : h.at = now})]
<1>1. admitted' = admitted \cup {new} /\ new.at = now
  BY DEF Admit
<1> HIDE DEF new
<1>2. IsFiniteSet(Since(admitted, t)) /\ IsFiniteSet(Since(admitted', t))
  BY Admitted, FS_Subset DEF HitsTyped, Since
<1>3. Since(admitted', t) \subseteq Since(admitted, t) \cup {new}
  BY <1>1 DEF Since
<1>4. /\ IsFiniteSet(Since(admitted, t) \cup {new})
      /\ Cardinality(Since(admitted, t) \cup {new}) <= Cardinality(Since(admitted, t)) + 1
  <2>1. \/ Cardinality(Since(admitted, t) \cup {new}) = Cardinality(Since(admitted, t)) + 1
        \/ Cardinality(Since(admitted, t) \cup {new}) = Cardinality(Since(admitted, t))
    BY <1>2, FS_AddElement
  <2> QED BY <1>2, <2>1, FS_AddElement, FS_CardinalityType
<1>5. /\ Cardinality(Since(admitted', t)) <= Cardinality(Since(admitted, t) \cup {new})
  BY <1>3, <1>4, FS_Subset
<1>6. Cardinality(Since(admitted, t)) \in Nat /\ Cardinality(Since(admitted', t)) \in Nat
      /\ Cardinality(Since(admitted, t) \cup {new}) \in Nat
  BY <1>2, <1>4, FS_CardinalityType
<1>7. t <= now => Before(admitted', t) = Before(admitted, t)
  BY <1>1 DEF Before, HitsTyped
<1> QED BY <1>4, <1>5, <1>6, <1>7

\* Fewer hits, fewer in every part.
LEMMA PartShrinks ==
  ASSUME IsFiniteSet(admitted), admitted' \subseteq admitted, NEW t
  PROVE  /\ Cardinality(Since(admitted', t)) <= Cardinality(Since(admitted, t))
         /\ Cardinality(Before(admitted', t)) <= Cardinality(Before(admitted, t))
         /\ Cardinality(Since(admitted, t)) \in Nat /\ Cardinality(Before(admitted, t)) \in Nat
         /\ Cardinality(Since(admitted', t)) \in Nat /\ Cardinality(Before(admitted', t)) \in Nat
<1>1. Since(admitted', t) \subseteq Since(admitted, t) /\ Before(admitted', t) \subseteq Before(admitted, t)
  BY DEF Since, Before
<1>2. IsFiniteSet(Since(admitted, t)) /\ IsFiniteSet(Before(admitted, t))
  BY FS_Subset DEF Since, Before
<1>3. IsFiniteSet(Since(admitted', t)) /\ IsFiniteSet(Before(admitted', t))
  BY <1>1, <1>2, FS_Subset
<1> QED BY <1>1, <1>2, <1>3, FS_Subset, FS_CardinalityType

\* The bucket a hit is counted in counts what there is, whether it is the one
\* of before or has just taken its place.
LEMMA RolledBucket ==
  ASSUME HitsTyped, BucketCounts
  PROVE  LET cur == Current(bucket, LimitRule, now)
         IN  /\ cur \in Times /\ cur.start # 0 /\ cur.start <= now
             /\ now < cur.start + LimitRule.window
             /\ cur.hit <= now /\ (cur.hit # 0 => cur.start <= cur.hit)
             /\ \A h \in admitted : h.at <= (IF cur.hit # 0 THEN cur.hit ELSE cur.start)
             /\ cur.count <= LimitRule.limit
             /\ Cardinality(Since(admitted, cur.start)) <= cur.count
             /\ Cardinality(Before(admitted, cur.start)) <= LimitRule.limit
<1> DEFINE cur == Current(bucket, LimitRule, now)
           fresh == [count |-> 0, start |-> now, hit |-> 0, lockedUntil |-> 0]
<1>1. /\ cur \in Times /\ cur.start # 0 /\ cur.start <= now
      /\ now < cur.start + LimitRule.window
      /\ cur.hit # 0 => cur.start <= cur.hit
      /\ cur = bucket \/ cur = fresh
  BY CurrentBucket DEF HitsTyped, BucketCounts
<1> HIDE DEF cur, fresh
<1>2. CASE cur = bucket
  BY <1>1, <1>2 DEF BucketCounts, LastHit, cur
<1>3. CASE cur = fresh /\ cur # bucket
  <2>1. bucket.start = 0 \/ now - bucket.start >= LimitRule.window
    BY <1>3 DEF Current, cur
  <2>2. fresh.count = 0 /\ fresh.start = now /\ fresh.hit = 0
    BY DEF fresh
  <2>3. Since(admitted, now) = {} /\ Before(admitted, now) = Since(admitted, bucket.start)
    <3>1. ASSUME NEW h \in admitted
          PROVE  h.at < now /\ h.at >= bucket.start
      <4>1. h.at \in Nat /\ bucket.start \in Nat /\ now \in Nat /\ LimitRule.window \in Nat
        BY DEF HitsTyped, Hits, BucketCounts, Times
      <4>2. bucket.start # 0 /\ h.at < bucket.start + LimitRule.window /\ now - h.at < LimitRule.window
        BY DEF BucketCounts, HitsTyped
      <4> QED BY <2>1, <4>1, <4>2
    <3>2. \A h \in admitted : h.at \in Nat
      BY DEF HitsTyped, Hits
    <3> QED BY <3>1, <3>2 DEF Since, Before, HitsTyped
  <2>4. Cardinality(Since(admitted, now)) = 0
    BY <2>3, FS_EmptySet
  <2>5. Cardinality(Before(admitted, now)) <= LimitRule.limit
    <3>1. Cardinality(Since(admitted, bucket.start)) \in Nat /\ bucket.count \in Nat
      BY FS_Subset, FS_CardinalityType DEF Since, HitsTyped, BucketCounts, Times
    <3> QED BY <2>3, <3>1 DEF BucketCounts
  <2>6. LimitRule.limit \in Nat /\ now \in Nat
    BY DEF HitsTyped
  <2> QED BY <1>1, <1>3, <2>2, <2>4, <2>5, <2>6 DEF HitsTyped, cur
<1> QED BY <1>1, <1>2, <1>3 DEF cur

\* A call of consume() in the process.
LEMMA HitCounts ==
  ASSUME CountInv, Hit
  PROVE  CountInv'
<1> DEFINE cur == Current(bucket, LimitRule, now)
           answer == Consume(bucket, LimitRule, now)
           after == answer.bucket
<1>0. HitsTyped /\ BucketCounts
  BY DEF CountInv, Hit
<1>1. /\ cur \in Times /\ cur.start # 0 /\ cur.start <= now
      /\ now < cur.start + LimitRule.window
      /\ cur.hit <= now /\ (cur.hit # 0 => cur.start <= cur.hit)
      /\ \A h \in admitted : h.at <= (IF cur.hit # 0 THEN cur.hit ELSE cur.start)
      /\ cur.count <= LimitRule.limit
      /\ Cardinality(Since(admitted, cur.start)) <= cur.count
      /\ Cardinality(Before(admitted, cur.start)) <= LimitRule.limit
  BY <1>0, RolledBucket
<1>2. /\ driver = "memory" /\ driver' = driver /\ now' = now
      /\ bucket' = after
      /\ admitted' = IF answer.verdict = "allowed" THEN Admit(admitted, now) ELSE admitted
  BY DEF Hit
<1> HIDE DEF cur
<1>3. now \in Nat \ {0} /\ LimitRule.window \in Nat /\ LimitRule.limit \in Nat
  BY <1>0 DEF HitsTyped
<1>4. CASE Locked(bucket, now)
  <2>1. answer.bucket = bucket /\ answer.verdict = "locked"
    BY <1>4 DEF Consume
  <2>2. bucket' = bucket /\ admitted' = admitted
    BY <1>2, <2>1
  <2> QED BY <1>0, <1>2, <2>2 DEF CountInv, HitsTyped, BucketCounts, LastHit, Since, Before
<1>5. ASSUME bucket' \in Times, bucket'.start = cur.start, bucket'.hit = cur.hit, bucket'.count = cur.count,
             admitted' = admitted
      PROVE  CountInv'
  <2>1. \A h \in admitted' : h.at <= LastHit' /\ h.at < bucket'.start + LimitRule.window
    <3>1. ASSUME NEW h \in admitted
          PROVE  h.at <= LastHit' /\ h.at < bucket'.start + LimitRule.window
      <4>1. h.at <= now /\ h.at \in Nat /\ cur.start \in Nat
        BY <1>0, <1>1 DEF HitsTyped, Hits, Times
      <4>2. h.at < cur.start + LimitRule.window
        BY <1>1, <1>3, <4>1
      <4> QED BY <1>1, <1>5, <4>2 DEF LastHit
    <3> QED BY <1>5, <3>1
  <2>2. Since(admitted', bucket'.start) = Since(admitted, cur.start) /\ Before(admitted', bucket'.start) = Before(admitted, cur.start)
    BY <1>5 DEF Since, Before
  <2>3. BucketCounts'
    BY <1>1, <1>2, <1>5, <2>1, <2>2 DEF BucketCounts
  <2>4. HitsTyped'
    BY <1>0, <1>2, <1>5 DEF HitsTyped
  <2> QED BY <1>2, <2>3, <2>4 DEF CountInv
<1>6. CASE ~Locked(bucket, now) /\ Cooling(cur, LimitRule, now)
  <2>1. answer = [verdict |-> "cooldown", bucket |-> cur]
    BY <1>6 DEF Consume, cur
  <2>2. bucket' = cur /\ admitted' = admitted
    BY <1>2, <2>1
  <2> QED BY <1>1, <1>5, <2>2
<1>7. CASE ~Locked(bucket, now) /\ ~Cooling(cur, LimitRule, now) /\ cur.count >= LimitRule.limit
  <2> DEFINE locked == [cur EXCEPT !.lockedUntil = now + LimitRule.lock]
  <2>1. answer = [verdict |-> "limit", bucket |-> locked]
    BY <1>7 DEF Consume, cur
  <2>2. /\ locked \in Times /\ locked.start = cur.start /\ locked.hit = cur.hit
        /\ locked.count = cur.count
    BY <1>1, <1>3 DEF Times
  <2> HIDE DEF locked
  <2>3. bucket' = locked /\ admitted' = admitted
    BY <1>2, <2>1
  <2> QED BY <1>5, <2>2, <2>3
<1>8. CASE ~Locked(bucket, now) /\ ~Cooling(cur, LimitRule, now) /\ ~(cur.count >= LimitRule.limit)
  <2> DEFINE counted == [cur EXCEPT !.count = @ + 1, !.hit = now]
  <2>1. answer = [verdict |-> "allowed", bucket |-> counted]
    BY <1>8 DEF Consume, cur
  <2>2. /\ counted \in Times /\ counted.start = cur.start /\ counted.hit = now
    BY <1>1, <1>3, CountedBucket
  <2>3. counted.count = cur.count + 1
    BY <1>1 DEF Times
  <2> HIDE DEF counted
  <2>4. bucket' = counted /\ admitted' = Admit(admitted, now)
    BY <1>2, <2>1
  <2>5. cur.start \in Nat /\ cur.count \in Nat
    BY <1>1 DEF Times
  <2>6. /\ Cardinality(Since(admitted, cur.start)) \in Nat /\ Cardinality(Since(admitted', cur.start)) \in Nat
        /\ Cardinality(Since(admitted', cur.start)) <= Cardinality(Since(admitted, cur.start)) + 1
        /\ Before(admitted', cur.start) = Before(admitted, cur.start)
    BY <1>0, <1>1, <1>2, <2>4, <2>5, PartGrows
  <2>7. HitsTyped' /\ \A h \in admitted' : h \in admitted \/ h.at = now
    BY <1>0, <1>2, <2>4, Admitted
  <2>8. \A h \in admitted' : h.at <= LastHit' /\ h.at < bucket'.start + LimitRule.window
    <3>1. ASSUME NEW h \in admitted'
          PROVE  h.at \in Nat /\ h.at <= now
      BY <1>2, <2>7 DEF HitsTyped, Hits
    <3>2. LastHit' = now /\ bucket'.start = cur.start
      BY <1>3, <2>2, <2>4 DEF LastHit
    <3> QED BY <1>1, <1>3, <2>5, <3>1, <3>2
  <2>9. bucket'.start = cur.start /\ bucket'.hit = now /\ bucket'.count = cur.count + 1 /\ bucket' \in Times
    BY <2>2, <2>3, <2>4
  <2>10. Since(admitted', bucket'.start) = Since(admitted', cur.start) /\ Before(admitted', bucket'.start) = Before(admitted', cur.start)
    BY <2>9 DEF Since, Before
  <2>11. /\ bucket'.count <= LimitRule.limit
         /\ Cardinality(Since(admitted', bucket'.start)) <= bucket'.count
         /\ Cardinality(Before(admitted', bucket'.start)) <= LimitRule.limit
    <3>1. cur.count + 1 <= LimitRule.limit
      BY <1>3, <1>8, <2>5
    <3> QED BY <1>1, <2>5, <2>6, <2>9, <2>10, <3>1
  <2>12. BucketCounts'
    BY <1>1, <1>2, <1>3, <2>8, <2>9, <2>11 DEF BucketCounts
  <2> QED BY <1>2, <2>7, <2>12 DEF CountInv
<1> QED BY <1>4, <1>6, <1>7, <1>8

\* The sweeper takes a bucket whose hits have all left the window.
LEMMA EvictCounts ==
  ASSUME LimitRule.window <= Idle + 1, CountInv, Evict
  PROVE  CountInv'
<1>1. HitsTyped /\ BucketCounts /\ driver = "memory"
  BY DEF CountInv, Evict
<1>2. bucket.start # 0 /\ now - LastHit > Idle
  BY DEF Evict, Evictable, LastHit
<1>3. /\ LimitRule.window \in Nat /\ LastHit \in Nat /\ now \in Nat /\ Idle \in Nat
      /\ LimitRule.limit \in Nat
  BY <1>1 DEF LastHit, BucketCounts, Times, HitsTyped
<1>4. admitted = {}
  <2> SUFFICES ASSUME NEW h \in admitted
               PROVE  FALSE
    OBVIOUS
  <2>1. h.at \in Nat /\ h.at <= LastHit /\ now - h.at < LimitRule.window
    BY <1>1, <1>2 DEF HitsTyped, Hits, BucketCounts
  <2> QED BY <1>2, <1>3, <2>1
<1>5. bucket' = NoBucket /\ UNCHANGED <<driver, admitted, now>>
  BY DEF Evict
<1>6. NoBucket \in Times /\ NoBucket.start = 0 /\ NoBucket.hit = 0 /\ NoBucket.count = 0
  BY DEF NoBucket, Times
<1>7. \A t : Since(admitted', t) = {} /\ Before(admitted', t) = {}
  BY <1>4, <1>5 DEF Since, Before
<1>8. \A t : Cardinality(Since(admitted', t)) = 0 /\ Cardinality(Before(admitted', t)) = 0
  BY <1>7, FS_EmptySet
<1>9. BucketCounts'
  BY <1>3, <1>4, <1>5, <1>6, <1>8 DEF BucketCounts
<1> QED BY <1>1, <1>5, <1>9 DEF CountInv, HitsTyped

\* Slots: the number of a slot grows by one at most from one instant to the
\* next, and an instant lies in its slot.
LEMMA SlotFacts ==
  ASSUME NEW t \in Nat
  PROVE  /\ Slot(LimitRule, t) \in Nat /\ Slot(LimitRule, t) <= t
         /\ SlotStart(t) \in Nat /\ SlotStart(t) <= t
         /\ t < SlotStart(t) + LimitRule.window
<1> DEFINE w == LimitRule.window
           q == t \div w
<1>1. w \in Nat /\ w > 0
  OBVIOUS
<1> HIDE DEF w
<1>2. q \in Nat /\ w * q <= t /\ t < w * q + w /\ w * q \in Nat
  BY <1>1
<1>3. q <= w * q
  BY <1>1, <1>2
<1> QED BY <1>2, <1>3 DEF Slot, SlotStart, w

\* The slot of the next instant: the same one, or one that starts there.
LEMMA NextSlot ==
  ASSUME NEW t \in Nat
  PROVE  \/ Slot(LimitRule, t + 1) = Slot(LimitRule, t) /\ SlotStart(t + 1) = SlotStart(t)
         \/ /\ Slot(LimitRule, t + 1) = Slot(LimitRule, t) + 1
            /\ SlotStart(t + 1) = SlotStart(t) + LimitRule.window
            /\ SlotStart(t + 1) = t + 1
<1> DEFINE w == LimitRule.window
           q == Slot(LimitRule, t)
           p == Slot(LimitRule, t + 1)
<1>1. w \in Nat /\ w > 0
  OBVIOUS
<1>2. /\ q \in Nat /\ w * q <= t /\ t < w * q + w /\ w * q \in Nat
      /\ p \in Nat /\ w * p <= t + 1 /\ t + 1 < w * p + w /\ w * p \in Nat
  <2>1. /\ q \in Nat /\ SlotStart(t) <= t /\ t < SlotStart(t) + w /\ SlotStart(t) \in Nat
    BY SlotFacts
  <2>2. t + 1 \in Nat
    OBVIOUS
  <2>3. /\ p \in Nat /\ SlotStart(t + 1) <= t + 1 /\ t + 1 < SlotStart(t + 1) + w
        /\ SlotStart(t + 1) \in Nat
    BY <2>2, SlotFacts
  <2> QED BY <2>1, <2>3 DEF SlotStart
<1>3. SlotStart(t) = w * q /\ SlotStart(t + 1) = w * p
  BY DEF SlotStart
<1> HIDE DEF w, q, p
<1>4. CASE p >= q + 2
  <2>1. w * p >= w * q + w + w
    BY <1>1, <1>2, <1>4
  <2> QED BY <1>1, <1>2, <2>1
<1>5. CASE p <= q - 1
  <2>1. w * p <= w * q - w
    BY <1>1, <1>2, <1>5
  <2> QED BY <1>1, <1>2, <2>1
<1>6. CASE p = q
  BY <1>3, <1>6 DEF p, q
<1>7. CASE p = q + 1
  <2>1. w * p = w * q + w
    BY <1>1, <1>2, <1>7
  <2> QED BY <1>1, <1>2, <1>3, <1>7, <2>1 DEF p, q, w
<1> QED BY <1>2, <1>4, <1>5, <1>6, <1>7

\* INCR of the slot's counter: the number it returns is what the slot has seen.
LEMMA SharedHitCounts ==
  ASSUME CountInv, SharedHit
  PROVE  CountInv'
<1> DEFINE s == Slot(LimitRule, now)
           t == SlotStart(now)
<1>1. HitsTyped /\ SlotCounts /\ driver # "memory"
  BY DEF CountInv, SharedHit
<1>2. /\ slots' = [slots EXCEPT ![s] = @ + 1]
      /\ UNCHANGED <<driver, now>>
      /\ \/ SlotVerdict(slots[s] + 1, LimitRule) = "allowed" /\ admitted' = Admit(admitted, now)
         \/ admitted' = admitted
  BY DEF SharedHit
<1>3. t \in Nat /\ t <= now /\ s \in Nat /\ s <= now
  BY <1>1, SlotFacts DEF HitsTyped
<1>4. Slot(LimitRule, now') = s /\ SlotStart(now') = t
  BY <1>2
<1>5. s \in 0..MaxClock /\ MaxClock \in Nat
  <2>1. now <= MaxClock /\ now \in Nat /\ MaxClock \in Nat
    BY <1>1 DEF SlotCounts, HitsTyped
  <2> HIDE DEF s
  <2> QED BY <1>3, <2>1
<1>6. /\ slots[s] \in Nat
      /\ Cardinality(Since(admitted, t)) <= slots[s]
      /\ Cardinality(Since(admitted, t)) <= LimitRule.limit
      /\ Cardinality(Before(admitted, t)) <= LimitRule.limit
  BY <1>1, <1>5 DEF SlotCounts
<1>7. /\ slots' \in [0..MaxClock -> Nat] /\ slots'[s] = slots[s] + 1
      /\ \A k \in 0..MaxClock : k # s => slots'[k] = slots[k]
  BY <1>1, <1>2, <1>5, <1>6 DEF SlotCounts
<1> HIDE DEF s, t
<1>8. now' <= MaxClock /\ \A k \in 0..MaxClock : k > s => slots'[k] = 0
  <2>1. now <= MaxClock /\ \A k \in 0..MaxClock : k > s => slots[k] = 0
    BY <1>1 DEF SlotCounts, s
  <2> QED BY <1>2, <1>3, <1>7, <2>1
<1>9. ASSUME HitsTyped', Cardinality(Since(admitted', t)) <= slots'[s],
             Cardinality(Since(admitted', t)) <= LimitRule.limit,
             Before(admitted', t) = Before(admitted, t)
      PROVE  CountInv'
  <2>1. SlotCounts'
    BY <1>4, <1>6, <1>7, <1>8, <1>9 DEF SlotCounts
  <2> QED BY <1>1, <1>2, <1>9, <2>1 DEF CountInv
<1>10. CASE SlotVerdict(slots[s] + 1, LimitRule) = "allowed" /\ admitted' = Admit(admitted, now)
  <2>1. slots[s] + 1 <= LimitRule.limit
    BY <1>10 DEF SlotVerdict
  <2>2. /\ Cardinality(Since(admitted, t)) \in Nat /\ Cardinality(Since(admitted', t)) \in Nat
        /\ Cardinality(Since(admitted', t)) <= Cardinality(Since(admitted, t)) + 1
        /\ Before(admitted', t) = Before(admitted, t)
    BY <1>1, <1>2, <1>3, <1>10, PartGrows
  <2>3. HitsTyped'
    BY <1>1, <1>2, <1>10, Admitted
  <2>4. LimitRule.limit \in Nat
    OBVIOUS
  <2>5. /\ Cardinality(Since(admitted', t)) <= slots'[s]
        /\ Cardinality(Since(admitted', t)) <= LimitRule.limit
    BY <1>6, <1>7, <2>1, <2>2, <2>4
  <2> QED BY <1>9, <2>2, <2>3, <2>5
<1>11. CASE admitted' = admitted
  <2>1. HitsTyped'
    BY <1>1, <1>2, <1>11 DEF HitsTyped
  <2>2. Cardinality(Since(admitted, t)) \in Nat
    BY <1>1, FS_Subset, FS_CardinalityType DEF HitsTyped, Since
  <2>3. Cardinality(Since(admitted', t)) <= slots'[s]
    BY <1>6, <1>7, <1>11, <2>2
  <2> QED BY <1>6, <1>9, <1>11, <2>1, <2>3
<1> QED BY <1>2, <1>10, <1>11 DEF s

\* A tick takes the hits that leave the window.
LEMMA TickCounts ==
  ASSUME CountInv, LimiterTick
  PROVE  CountInv'
<1> DEFINE s == Slot(LimitRule, now)
           t == SlotStart(now)
<1>1. /\ now' = now + 1 /\ now < MaxClock
      /\ admitted' = {h \in admitted : now' - h.at < LimitRule.window}
      /\ UNCHANGED <<driver, bucket, slots>>
      /\ admitted' \subseteq admitted
  BY DEF LimiterTick, Tick, Recent
<1>2. HitsTyped
  BY DEF CountInv
<1>3. HitsTyped'
  <2>1. IsFiniteSet(admitted')
    BY <1>1, <1>2, FS_Subset DEF HitsTyped
  <2>2. \A h \in admitted' : h.at <= now' /\ now' - h.at < LimitRule.window
    BY <1>1, <1>2 DEF HitsTyped, Hits
  <2> QED BY <1>1, <1>2, <2>1, <2>2 DEF HitsTyped
<1>4. ASSUME NEW x
      PROVE  /\ Cardinality(Since(admitted', x)) <= Cardinality(Since(admitted, x))
             /\ Cardinality(Before(admitted', x)) <= Cardinality(Before(admitted, x))
             /\ Cardinality(Since(admitted, x)) \in Nat /\ Cardinality(Before(admitted, x)) \in Nat
             /\ Cardinality(Since(admitted', x)) \in Nat /\ Cardinality(Before(admitted', x)) \in Nat
  BY <1>1, <1>2, PartShrinks DEF HitsTyped
<1>5. LimitRule.limit \in Nat /\ LimitRule.window \in Nat \ {0} /\ now \in Nat /\ MaxClock \in Nat
  BY <1>2 DEF HitsTyped
<1>6. CASE driver = "memory"
  <2>1. BucketCounts
    BY <1>6 DEF CountInv
  <2>2. bucket.start \in Nat /\ bucket.hit \in Nat /\ bucket.count \in Nat
    BY <2>1 DEF BucketCounts, Times
  <2>3. /\ Cardinality(Since(admitted', bucket.start)) <= bucket.count
        /\ Cardinality(Before(admitted', bucket.start)) <= LimitRule.limit
    BY <1>4, <1>5, <2>1, <2>2 DEF BucketCounts
  <2>4. bucket.start <= now' /\ bucket.hit <= now'
    BY <1>1, <1>5, <2>1, <2>2 DEF BucketCounts
  <2>5. LastHit' = LastHit /\ bucket' = bucket
    BY <1>1 DEF LastHit
  <2>6. BucketCounts'
    BY <1>1, <2>1, <2>3, <2>4, <2>5 DEF BucketCounts
  <2> QED BY <1>1, <1>3, <1>6, <2>6 DEF CountInv
<1>7. CASE driver # "memory"
  <2>1. SlotCounts
    BY <1>7 DEF CountInv
  <2>2. slots' = slots /\ slots \in [0..MaxClock -> Nat] /\ now' <= MaxClock
    BY <1>1, <1>5, <2>1 DEF SlotCounts
  <2>3. s \in Nat /\ s <= now /\ t \in Nat /\ Slot(LimitRule, now') <= now' /\ Slot(LimitRule, now') \in Nat
    <3>1. now' \in Nat
      BY <1>1, <1>5
    <3> QED BY <1>5, <3>1, SlotFacts
  <2>4. /\ \A k \in 0..MaxClock : k > s => slots[k] = 0
        /\ Cardinality(Since(admitted, t)) <= slots[s]
        /\ Cardinality(Since(admitted, t)) <= LimitRule.limit
        /\ Cardinality(Before(admitted, t)) <= LimitRule.limit
    BY <2>1 DEF SlotCounts
  <2>5. \/ Slot(LimitRule, now') = s /\ SlotStart(now') = t
        \/ /\ Slot(LimitRule, now') = s + 1
           /\ SlotStart(now') = t + LimitRule.window /\ SlotStart(now') = now'
    BY <1>1, <1>5, NextSlot
  <2> HIDE DEF s, t
  <2>6. CASE Slot(LimitRule, now') = s /\ SlotStart(now') = t
    <3>1. slots[s] \in Nat
      BY <1>5, <2>2, <2>3, <1>1
    <3>2. /\ Cardinality(Since(admitted', t)) <= slots[s]
          /\ Cardinality(Since(admitted', t)) <= LimitRule.limit
          /\ Cardinality(Before(admitted', t)) <= LimitRule.limit
      BY <1>4, <1>5, <2>4, <3>1
    <3>3. SlotCounts'
      BY <2>2, <2>4, <2>6, <3>2 DEF SlotCounts
    <3> QED BY <1>1, <1>3, <1>7, <3>3 DEF CountInv
  <2>7. CASE /\ Slot(LimitRule, now') = s + 1
             /\ SlotStart(now') = t + LimitRule.window /\ SlotStart(now') = now'
    <3>1. Since(admitted', now') = {} /\ Before(admitted', now') \subseteq Since(admitted, t)
      <4>1. ASSUME NEW h \in admitted'
            PROVE  h.at \in Nat /\ h.at < now' /\ h.at >= t /\ h \in admitted
        <5>1. h \in admitted /\ now' - h.at < LimitRule.window
          BY <1>1
        <5>2. h.at \in Nat /\ h.at <= now
          BY <1>2, <5>1 DEF HitsTyped, Hits
        <5> QED BY <1>1, <1>5, <2>3, <2>7, <5>1, <5>2
      <4> QED BY <4>1, <1>1, <1>5 DEF Since, Before
    <3>2. Cardinality(Since(admitted', now')) = 0
      BY <3>1, FS_EmptySet
    <3>3. Cardinality(Before(admitted', now')) <= LimitRule.limit
      <4>1. IsFiniteSet(Since(admitted, t)) /\ Cardinality(Since(admitted, t)) \in Nat
        BY <1>2, FS_Subset, FS_CardinalityType DEF Since, HitsTyped
      <4>2. Cardinality(Before(admitted', now')) <= Cardinality(Since(admitted, t))
            /\ Cardinality(Before(admitted', now')) \in Nat
        BY <3>1, <4>1, FS_Subset, FS_CardinalityType
      <4> QED BY <1>5, <2>4, <4>1, <4>2
    <3>4. s + 1 \in 0..MaxClock /\ slots[s + 1] = 0
      <4>1. s + 1 \in 0..MaxClock /\ s + 1 > s
        BY <1>5, <2>2, <2>3, <2>7, <1>1
      <4> QED BY <2>4, <4>1
    <3>5. \A k \in 0..MaxClock : k > s + 1 => slots[k] = 0
      BY <2>3, <2>4
    <3>6. SlotCounts'
      BY <1>5, <2>2, <2>7, <3>2, <3>3, <3>4, <3>5 DEF SlotCounts
    <3> QED BY <1>1, <1>3, <1>7, <3>6 DEF CountInv
  <2> QED BY <2>5, <2>6, <2>7
<1> QED BY <1>6, <1>7

\* rate-limit.service.ts consume() and evictExpired(), and the INCR of
\* redis-rate-limit.service.ts: whatever the number and the spacing of the
\* requests, fewer ticks than a window see at most twice the limit admitted, under
\* every rule whose window is no longer than the sweeper's half hour.  (The
\* hypothesis is about the sweeper: a bucket forgotten before its window is over
\* opens a third one.)
THEOREM TwiceTheLimitAtMost ==
  ASSUME LimitRule.window <= Idle + 1
  PROVE  LimiterSpec => []AtMostTwiceTheLimit
<1>1. LimiterInit /\ ClockInit => CountInv
  <2> SUFFICES ASSUME LimiterInit, ClockInit
               PROVE  CountInv
    OBVIOUS
  <2>1. admitted = {} /\ now = 1 /\ bucket = NoBucket /\ slots = [s \in 0..MaxClock |-> 0]
    BY DEF LimiterInit, ClockInit
  <2>2. NoBucket \in Times /\ NoBucket.start = 0 /\ NoBucket.hit = 0 /\ NoBucket.count = 0
    BY DEF NoBucket, Times
  <2>3. \A t : Cardinality(Since(admitted, t)) = 0 /\ Cardinality(Before(admitted, t)) = 0
    <3>1. \A t : Since(admitted, t) = {} /\ Before(admitted, t) = {}
      BY <2>1 DEF Since, Before
    <3> QED BY <3>1, FS_EmptySet
  <2>4. LimitRule.limit \in Nat /\ MaxClock \in Nat \ {0}
    OBVIOUS
  <2>5. HitsTyped
    BY <2>1, FS_EmptySet DEF HitsTyped
  <2>6. BucketCounts
    BY <2>1, <2>2, <2>3, <2>4 DEF BucketCounts
  <2>7. Slot(LimitRule, now) \in 0..MaxClock
    <3>1. Slot(LimitRule, 1) \in Nat /\ Slot(LimitRule, 1) <= 1
      BY SlotFacts
    <3> QED BY <2>1, <2>4, <3>1
  <2>8. SlotCounts
    BY <2>1, <2>3, <2>4, <2>7 DEF SlotCounts
  <2> QED BY <2>5, <2>6, <2>8 DEF CountInv
<1>2. CountInv /\ [LimiterNext]_<<limiterVars, now>> => CountInv'
  <2> SUFFICES ASSUME CountInv, [LimiterNext]_<<limiterVars, now>>
               PROVE  CountInv'
    OBVIOUS
  <2>1. CASE UNCHANGED <<limiterVars, now>>
    BY <2>1 DEF limiterVars, CountInv, HitsTyped, BucketCounts, SlotCounts, LastHit
  <2> QED BY <2>1, HitCounts, SharedHitCounts, EvictCounts, TickCounts
          DEF LimiterNext, FloorHit, EndpointHit
<1>3. CountInv => AtMostTwiceTheLimit
  <2> SUFFICES ASSUME CountInv
               PROVE  AtMostTwiceTheLimit
    OBVIOUS
  <2>1. HitsTyped /\ LimitRule.limit \in Nat
    BY DEF CountInv
  <2>2. CASE driver = "memory"
    <3>1. BucketCounts
      BY <2>2 DEF CountInv
    <3>2. bucket.start \in Nat /\ bucket.count \in Nat
      BY <3>1 DEF BucketCounts, Times
    <3>3. Cardinality(Since(admitted, bucket.start)) \in Nat
      BY <2>1, FS_Subset, FS_CardinalityType DEF HitsTyped, Since
    <3> QED BY <2>1, <3>1, <3>2, <3>3, TwoParts DEF BucketCounts
  <2>3. CASE driver # "memory"
    <3>1. SlotCounts /\ SlotStart(now) \in Nat
      BY <2>1, <2>3, SlotFacts DEF CountInv, HitsTyped
    <3> QED BY <2>1, <3>1, TwoParts DEF SlotCounts
  <2> QED BY <2>2, <2>3
<1> QED BY <1>1, <1>2, <1>3, PTL DEF LimiterSpec


-----------------------------------------------------------------------------
(***************************************************************************)
(* OtpLogin                                                                *)
(***************************************************************************)

HIDE LimiterAssumption
USE OtpAssumption, LoginsAssumption

\* A request that has compared the right code and has not opened its session.
Inside == {"right", "lock", "insert", "open"}

Challenges == [dest : Destinations, expires : Nat, verified : BOOLEAN]

Requests == [pc : {"idle", "read", "wrong"} \cup Inside, row : Nat,
             dest : Destinations \cup {Nobody}]

-----------------------------------------------------------------------------
(* Types: those of the rows and the requests the two properties are about. *)

LoginsTyped ==
    /\ challenges \in Seq(Challenges)
    /\ Len(challenges) <= MaxChallenges
    /\ accounts \in [Destinations -> {0, 1}]
    /\ sessionsOf \in [1..MaxChallenges -> Nat]
    /\ login \in [Logins -> Requests]
    /\ advisory \in [Destinations -> Logins \cup {Nobody}]
    /\ now \in Nat

\* A request that has found its row keeps it, and once it has burnt the code
\* the row says so.
KnowsItsRow(r) ==
    /\ login[r].pc \in Inside => login[r].row \in 1..Len(challenges)
    /\ login[r].pc \in Inside \ {"right"} => challenges[login[r].row].verified

RowInv ==
    LoginsTyped /\ \A r \in Logins : KnowsItsRow(r)

\* Another record of requests has the type of the old one if every request does.
LEMMA OneRequest ==
  ASSUME login \in [Logins -> Requests], NEW r \in Logins, NEW v \in Requests
  PROVE  /\ [login EXCEPT ![r] = v] \in [Logins -> Requests]
         /\ [login EXCEPT ![r] = v][r] = v
         /\ \A q \in Logins : q # r => [login EXCEPT ![r] = v][q] = login[q]
OBVIOUS

\* What a request becomes at its next step.
LEMMA NextRequest ==
  ASSUME login \in [Logins -> Requests], NEW r \in Logins,
         NEW step \in {"idle", "read", "wrong"} \cup Inside
  PROVE  /\ [login[r] EXCEPT !.pc = step] \in Requests
         /\ [login[r] EXCEPT !.pc = step].row = login[r].row
         /\ [login[r] EXCEPT !.pc = step].dest = login[r].dest
         /\ [login[r] EXCEPT !.pc = step].pc = step
         /\ [login EXCEPT ![r].pc = step] = [login EXCEPT ![r] = [login[r] EXCEPT !.pc = step]]
BY DEF Requests, Inside

\* A request that has found its row and compared the code.
LEMMA FoundRequest ==
  ASSUME login \in [Logins -> Requests], NEW r \in Logins,
         NEW code \in {"right", "wrong"}, NEW c \in Nat
  PROVE  [pc |-> code, row |-> c, dest |-> Dest(r)] \in Requests
BY DEF Requests, Inside, Dest

\* The rows a request finds are numbers.
LEMMA NewestIsNat ==
  ASSUME challenges \in Seq(Challenges), NEW d, NEW c \in Newest(d)
  PROVE  c \in 1..Len(challenges) /\ c \in Nat
BY LenProperties DEF Newest, Pending

\* The request that has ended.
LEMMA IdlingIsARequest == Idling \in Requests
BY DEF Idling, Requests, Inside

\* What Burn does to the rows: the one of the request is verified.
LEMMA BurntRows ==
  ASSUME challenges \in Seq(Challenges), NEW i \in 1..Len(challenges)
  PROVE  LET burnt == [challenges EXCEPT ![i].verified = TRUE]
         IN  /\ burnt \in Seq(Challenges)
             /\ Len(burnt) = Len(challenges)
             /\ burnt[i].verified
             /\ burnt[i].dest = challenges[i].dest /\ burnt[i].expires = challenges[i].expires
             /\ \A k \in 1..Len(challenges) : challenges[k].verified => burnt[k].verified
             /\ \A k \in 1..Len(challenges) : k # i => burnt[k] = challenges[k]
<1> DEFINE row == [challenges[i] EXCEPT !.verified = TRUE]
           burnt == [challenges EXCEPT ![i] = row]
<1>1. challenges[i] \in Challenges
  BY ElementOfSeq
<1>2. /\ row \in Challenges /\ row.verified
      /\ row.dest = challenges[i].dest /\ row.expires = challenges[i].expires
  BY <1>1 DEF Challenges
<1>3. burnt \in Seq(Challenges) /\ Len(burnt) = Len(challenges)
  <2> HIDE DEF row
  <2> QED BY <1>2, ExceptSeq
<1>4. \A k \in 1..Len(challenges) : burnt[k] = IF k = i THEN row ELSE challenges[k]
  <2> HIDE DEF row
  <2>1. challenges = [k \in 1..Len(challenges) |-> challenges[k]]
    BY LenProperties
  <2> QED BY <2>1
<1>5. burnt = [challenges EXCEPT ![i].verified = TRUE]
  OBVIOUS
<1> HIDE DEF burnt, row
<1>6. \A k \in 1..Len(challenges) : challenges[k].verified => burnt[k].verified
  BY <1>2, <1>4
<1> QED BY <1>2, <1>3, <1>4, <1>5, <1>6

\* The rows as SendCode leaves them: one more, the others as they were.
LEMMA SentRows ==
  ASSUME challenges \in Seq(Challenges), NEW e \in Challenges
  PROVE  /\ Append(challenges, e) \in Seq(Challenges)
         /\ Len(Append(challenges, e)) = Len(challenges) + 1
         /\ \A k \in 1..Len(challenges) : Append(challenges, e)[k] = challenges[k]
         /\ Len(challenges) \in Nat
BY AppendProperties, LenProperties

-----------------------------------------------------------------------------
(* The steps, each under the name it has in OtpNext.                       *)

\* One of the named operations, or the time that passes.
Steps(r) ==
    \/ \E d \in Destinations : Verify(r, d)
    \/ Dest(r) \in Destinations /\ (ReadChallenge(r) \/ CountAttempt(r) \/ Burn(r))
    \/ Dest(r) \in Destinations /\ (FindAccount(r) \/ CreateAccount(r))
    \/ OpenSession(r) \/ LoginFails(r)

\* Every step is a code sent, a step of a request, a restart or a tick.
LEMMA StepsAreThese ==
  ASSUME [OtpNext]_<<otpVars, now>>
  PROVE  \/ \E d \in Destinations : SendCode(d)
         \/ \E r \in Logins : Steps(r)
         \/ OtpRestart
         \/ OtpTick
         \/ UNCHANGED <<otpVars, now>>
BY DEF OtpNext, RequestOtp, RequestEmailOtp, VerifyOtp, VerifyEmailOtp, VerificationStep,
       FindOrCreateUser, FindOrCreateEmailUser, Steps, Destinations

\* Rows and requests keep their types, and a request its row.
LEMMA StepKnowsRows ==
  ASSUME RowInv, [OtpNext]_<<otpVars, now>>
  PROVE  RowInv'
<1> USE DEF RowInv, LoginsTyped
<1>1. ASSUME NEW d \in Destinations, SendCode(d)
      PROVE  RowInv'
  <2>1. Challenge(d) \in Challenges
    BY DEF Challenge, Challenges
  <2>2. /\ challenges' \in Seq(Challenges)
        /\ Len(challenges') = Len(challenges) + 1
        /\ \A k \in 1..Len(challenges) : challenges'[k] = challenges[k]
        /\ Len(challenges) \in Nat
    BY <1>1, <2>1, SentRows DEF SendCode
  <2>3. ASSUME NEW r \in Logins
        PROVE  KnowsItsRow(r)'
    <3> DEFINE i == login[r].row
    <3>1. login' = login
      BY <1>1 DEF SendCode
    <3>2. KnowsItsRow(r)
      OBVIOUS
    <3>3. i \in 1..Len(challenges) => i \in 1..Len(challenges') /\ challenges'[i] = challenges[i]
      BY ONLY <2>2
    <3> QED BY ONLY <3>1, <3>2, <3>3 DEF KnowsItsRow, Inside
  <2>4. /\ UNCHANGED <<accounts, sessionsOf, login, advisory, now>>
        /\ Len(challenges') <= MaxChallenges
    <3>1. UNCHANGED <<accounts, sessionsOf, login, advisory, now>> /\ Len(challenges) < MaxChallenges
      BY <1>1 DEF SendCode
    <3>2. MaxChallenges \in Nat
      BY OtpAssumption DEF OtpAssumption
    <3> QED BY ONLY <2>2, <3>1, <3>2
  <2> QED BY <2>2, <2>3, <2>4
<1>2. ASSUME NEW r \in Logins, NEW d \in Destinations, Verify(r, d)
      PROVE  RowInv'
  <2>1. [pc |-> "read", row |-> 0, dest |-> d] \in Requests
    BY DEF Requests
  <2>2. \A q \in Logins : KnowsItsRow(q)'
    BY <1>2, <2>1, OneRequest DEF Verify, KnowsItsRow, Inside
  <2> QED BY <1>2, <2>1, <2>2, OneRequest DEF Verify
<1>3. ASSUME NEW r \in Logins, ReadChallenge(r)
      PROVE  RowInv'
  <2>1. CASE login' = [login EXCEPT ![r] = Idling]
    <3>1. /\ login'[r].pc = "idle"
          /\ \A q \in Logins : q # r => login'[q] = login[q]
          /\ challenges' = challenges
      BY <1>3, <2>1 DEF ReadChallenge, Idling
    <3>2. \A q \in Logins : KnowsItsRow(q)'
      BY <3>1 DEF KnowsItsRow, Inside
    <3> QED BY <1>3, <2>1, <3>2, OneRequest, IdlingIsARequest DEF ReadChallenge
  <2>2. ASSUME NEW c \in Newest(Dest(r)), NEW code \in {"right", "wrong"},
               login' = [login EXCEPT ![r] = [pc |-> code, row |-> c, dest |-> Dest(r)]]
        PROVE  RowInv'
    <3>1. c \in 1..Len(challenges)
      BY DEF Newest, Pending
    <3>2. /\ login' \in [Logins -> Requests]
          /\ login'[r].pc = code /\ login'[r].row = c
          /\ \A q \in Logins : q # r => login'[q] = login[q]
      BY <2>2, <3>1, LenProperties, FoundRequest, OneRequest
    <3>3. \A q \in Logins : KnowsItsRow(q)'
      BY <1>3, <3>1, <3>2 DEF ReadChallenge, KnowsItsRow, Inside
    <3> QED BY <1>3, <3>2, <3>3 DEF ReadChallenge
  <2> QED BY <1>3, <2>1, <2>2 DEF ReadChallenge
<1>4. ASSUME NEW r \in Logins, Burn(r)
      PROVE  RowInv'
  <2> DEFINE i == login[r].row
  <2>1. i \in 1..Len(challenges)
    BY <1>4 DEF Burn, KnowsItsRow, Inside
  <2>2. /\ challenges' \in Seq(Challenges)
        /\ Len(challenges') = Len(challenges)
        /\ challenges'[i].verified
        /\ \A k \in 1..Len(challenges) : challenges[k].verified => challenges'[k].verified
    BY <1>4, <2>1, BurntRows DEF Burn
  <2>3. /\ login' \in [Logins -> Requests]
        /\ login'[r].row = i
        /\ \A q \in Logins : q # r => login'[q] = login[q]
    <3> DEFINE mine == [login[r] EXCEPT !.pc = "lock"]
    <3>1. mine \in Requests /\ mine.row = i
      BY NextRequest DEF Inside
    <3>2. login' = [login EXCEPT ![r] = mine]
      BY <1>4 DEF Burn
    <3> HIDE DEF mine, i
    <3> QED BY <3>1, <3>2, OneRequest
  <2>4. \A q \in Logins : KnowsItsRow(q)'
    <3> HIDE DEF i
    <3>1. KnowsItsRow(r)'
      BY <2>1, <2>2, <2>3 DEF KnowsItsRow
    <3>2. ASSUME NEW q \in Logins, q # r
          PROVE  KnowsItsRow(q)'
      BY <2>2, <2>3, <3>2 DEF KnowsItsRow, Inside
    <3> QED BY <3>1, <3>2
  <2> QED BY <1>4, <2>2, <2>3, <2>4 DEF Burn
<1>5. ASSUME NEW r \in Logins, NEW step \in Inside \ {"right"}, login[r].pc \in {"lock", "insert"},
             login' = [login EXCEPT ![r].pc = step], UNCHANGED <<challenges, sessionsOf, now>>,
             accounts' \in [Destinations -> {0, 1}],
             advisory' \in [Destinations -> Logins \cup {Nobody}]
      PROVE  RowInv'
  <2>1. /\ login' \in [Logins -> Requests]
        /\ login'[r].row = login[r].row
        /\ \A q \in Logins : q # r => login'[q] = login[q]
    BY <1>5, OneRequest, NextRequest, SMTT(30)
  <2>2. \A q \in Logins : KnowsItsRow(q)'
    BY <1>5, <2>1 DEF KnowsItsRow, Inside
  <2> QED BY <1>5, <2>1, <2>2
<1>6. ASSUME NEW r \in Logins, login' = [login EXCEPT ![r] = Idling],
             UNCHANGED <<challenges, accounts, now>>,
             sessionsOf' \in [1..MaxChallenges -> Nat],
             advisory' \in [Destinations -> Logins \cup {Nobody}]
      PROVE  RowInv'
  <2>1. \A q \in Logins : KnowsItsRow(q)'
    BY <1>6, OneRequest, IdlingIsARequest DEF KnowsItsRow, Idling, Inside
  <2>2. login' \in [Logins -> Requests]
    BY <1>6, OneRequest, IdlingIsARequest
  <2> QED BY <1>6, <2>1, <2>2
<1>7. ASSUME NEW r \in Logins, FindAccount(r), Dest(r) \in Destinations
      PROVE  RowInv'
  <2>1. advisory' \in [Destinations -> Logins \cup {Nobody}]
    BY <1>7 DEF FindAccount
  <2>2. \E step \in {"open", "insert"} : login' = [login EXCEPT ![r].pc = step]
    BY <1>7 DEF FindAccount
  <2>3. UNCHANGED <<challenges, accounts, sessionsOf, now>> /\ login[r].pc = "lock"
    BY <1>7 DEF FindAccount
  <2> QED BY <1>5, <2>1, <2>2, <2>3 DEF Inside
<1>8. ASSUME NEW r \in Logins, CreateAccount(r), Dest(r) \in Destinations
      PROVE  RowInv'
  <2>1. advisory' \in [Destinations -> Logins \cup {Nobody}]
    BY <1>8 DEF CreateAccount
  <2>2. accounts' \in [Destinations -> {0, 1}]
    BY <1>8 DEF CreateAccount
  <2> QED BY <1>5, <1>6, <1>8, <2>1, <2>2 DEF CreateAccount, Inside
<1>9. ASSUME NEW r \in Logins, OpenSession(r)
      PROVE  RowInv'
  <2>1. ASSUME NEW c \in 1..MaxChallenges PROVE sessionsOf[c] + 1 \in Nat
    <3>1. sessionsOf[c] \in Nat
      BY ZenonT(30)
    <3> QED BY ONLY <3>1, SMTT(30)
  <2>2. sessionsOf' \in [1..MaxChallenges -> Nat]
    BY <1>9, <2>1 DEF OpenSession
  <2> QED BY <1>6, <1>9, <2>2 DEF OpenSession
<1>10. ASSUME NEW r \in Logins, LoginFails(r)
       PROVE  RowInv'
  <2>1. advisory' \in [Destinations -> Logins \cup {Nobody}]
    BY <1>10 DEF LoginFails
  <2> QED BY <1>6, <1>10, <2>1 DEF LoginFails
<1>11. ASSUME NEW r \in Logins, CountAttempt(r)
       PROVE  RowInv'
  BY <1>6, <1>11 DEF CountAttempt
<1>12. CASE OtpRestart
  <2>1. login' \in [Logins -> Requests] /\ \A q \in Logins : login'[q] = Idling
    BY <1>12, IdlingIsARequest DEF OtpRestart
  <2>2. \A q \in Logins : KnowsItsRow(q)'
    BY <1>12, <2>1 DEF KnowsItsRow, Idling, Inside
  <2> QED BY <1>12, <2>1, <2>2 DEF OtpRestart
<1>13. CASE OtpTick
  BY <1>13 DEF OtpTick, Tick, otpVars, KnowsItsRow
<1>14. CASE UNCHANGED <<otpVars, now>>
  BY <1>14 DEF otpVars, KnowsItsRow
<1> QED
  BY <1>1, <1>2, <1>3, <1>4, <1>7, <1>8, <1>9, <1>10, <1>11, <1>12, <1>13, <1>14, StepsAreThese
  DEF Steps

LEMMA RowsStart == OtpInit /\ ClockInit => RowInv
BY EmptySeq, IdlingIsARequest
DEF OtpInit, ClockInit, RowInv, LoginsTyped, KnowsItsRow, Idling, Inside

\* So it is in every reachable state.
LEMMA AlwaysKnowsRows == OtpSpec => []RowInv
BY RowsStart, StepKnowsRows, PTL DEF OtpSpec

-----------------------------------------------------------------------------
(* One insert.  The request that has seen no account holds the lock of the *)
(* destination until it has inserted one, so what it saw is still true.    *)

Inserts(r) ==
    login[r].pc = "insert" =>
        /\ login[r].dest \in Destinations
        /\ advisory[login[r].dest] = r
        /\ accounts[login[r].dest] = 0

InsertInv ==
    NoDuplicateInsert /\ \A r \in Logins : Inserts(r)

\* A request that moves anywhere but to the insert, keeping the others' locks
\* and every account, keeps the invariant.
LEMMA OthersInsert ==
  ASSUME RowInv, InsertInv, NEW r \in Logins,
         \A q \in Logins : q # r => login'[q] = login[q],
         login'[r].pc # "insert",
         UNCHANGED <<accounts, duplicates>>,
         \A d \in Destinations : advisory[d] # r => advisory'[d] = advisory[d]
  PROVE  InsertInv'
BY DEF InsertInv, Inserts, NoDuplicateInsert

\* The account is created, or found, under the lock.
LEMMA StepInserts ==
  ASSUME RowInv, InsertInv, [OtpNext]_<<otpVars, now>>
  PROVE  InsertInv'
<1> USE DEF RowInv, LoginsTyped
<1>1. ASSUME NEW r \in Logins, FindAccount(r), Dest(r) \in Destinations
      PROVE  InsertInv'
  <2>1. CASE login' = [login EXCEPT ![r].pc = "open"] /\ UNCHANGED advisory
    <3>1. login'[r].pc # "insert" /\ \A q \in Logins : q # r => login'[q] = login[q]
      BY <2>1, NextRequest, OneRequest DEF Inside
    <3> QED BY <1>1, <2>1, <3>1, OthersInsert DEF FindAccount
  <2>2. CASE /\ accounts[Dest(r)] = 0
             /\ login' = [login EXCEPT ![r].pc = "insert"]
             /\ advisory' = [advisory EXCEPT ![Dest(r)] = r]
    <3>1. /\ login'[r].pc = "insert"
          /\ login'[r].dest = Dest(r)
          /\ \A q \in Logins : q # r => login'[q] = login[q]
      BY <2>2, NextRequest, OneRequest DEF Inside, Dest
    <3>2. ASSUME NEW q \in Logins, q # r
          PROVE  Inserts(q)'
      <4>1. login[q].pc = "insert" => login[q].dest # Dest(r)
        BY <1>1, SMTT(30) DEF FindAccount, InsertInv, Inserts
      <4> QED BY <1>1, <2>2, <3>1, <3>2, <4>1, SMTT(30) DEF FindAccount, InsertInv, Inserts
    <3>3. Inserts(r)'
      BY <1>1, <2>2, <3>1 DEF FindAccount, Inserts
    <3> QED BY <1>1, <3>2, <3>3 DEF FindAccount, InsertInv, NoDuplicateInsert
  <2> QED BY <1>1, <2>1, <2>2 DEF FindAccount
<1>2. ASSUME NEW r \in Logins, CreateAccount(r), Dest(r) \in Destinations
      PROVE  InsertInv'
  <2>1. accounts[Dest(r)] = 0 /\ advisory[Dest(r)] = r
    BY <1>2 DEF CreateAccount, InsertInv, Inserts, Dest
  <2>2. /\ accounts' = [accounts EXCEPT ![Dest(r)] = 1]
        /\ login' = [login EXCEPT ![r].pc = "open"]
        /\ UNCHANGED duplicates
    BY <1>2, <2>1 DEF CreateAccount
  <2>3. login'[r].pc # "insert" /\ \A q \in Logins : q # r => login'[q] = login[q]
    BY <2>2, NextRequest, OneRequest DEF Inside
  <2>4. ASSUME NEW q \in Logins, q # r
        PROVE  Inserts(q)'
    <3>1. login[q].pc = "insert" => login[q].dest # Dest(r)
      BY <2>1, <2>4 DEF InsertInv, Inserts
    <3> QED BY <1>2, <2>2, <2>3, <2>4, <3>1, SMTT(30) DEF CreateAccount, InsertInv, Inserts
  <2> QED BY <2>2, <2>3, <2>4 DEF InsertInv, Inserts, NoDuplicateInsert
<1>3. ASSUME NEW r \in Logins, NEW d \in Destinations, Verify(r, d)
      PROVE  InsertInv'
  BY <1>3, OthersInsert DEF Verify
<1>4. ASSUME NEW r \in Logins, ReadChallenge(r)
      PROVE  InsertInv'
  <2>1. /\ login'[r].pc # "insert"
        /\ \A q \in Logins : q # r => login'[q] = login[q]
    <3>1. CASE login' = [login EXCEPT ![r] = Idling]
      BY <3>1 DEF Idling
    <3>2. ASSUME NEW c \in Newest(Dest(r)), NEW code \in {"right", "wrong"},
                 login' = [login EXCEPT ![r] = [pc |-> code, row |-> c, dest |-> Dest(r)]]
          PROVE  /\ login'[r].pc # "insert"
                 /\ \A q \in Logins : q # r => login'[q] = login[q]
      BY <3>2
    <3> QED BY <1>4, <3>1, <3>2 DEF ReadChallenge
  <2> QED BY <1>4, <2>1, OthersInsert DEF ReadChallenge
<1>5. ASSUME NEW r \in Logins, Burn(r)
      PROVE  InsertInv'
  <2>1. login'[r].pc # "insert" /\ \A q \in Logins : q # r => login'[q] = login[q]
    BY <1>5, NextRequest, OneRequest DEF Burn, Inside
  <2> QED BY <1>5, <2>1, OthersInsert DEF Burn
<1>6. ASSUME NEW r \in Logins, LoginFails(r) \/ CountAttempt(r) \/ OpenSession(r)
      PROVE  InsertInv'
  <2>1. login'[r].pc # "insert" /\ \A q \in Logins : q # r => login'[q] = login[q]
    BY <1>6 DEF LoginFails, CountAttempt, OpenSession, Idling
  <2>2. \A d \in Destinations : advisory[d] # r => advisory'[d] = advisory[d]
    BY <1>6 DEF LoginFails, CountAttempt, OpenSession
  <2> QED BY <1>6, <2>1, <2>2, OthersInsert DEF LoginFails, CountAttempt, OpenSession
<1>7. CASE OtpRestart
  BY <1>7 DEF OtpRestart, InsertInv, Inserts, NoDuplicateInsert, Idling
<1>8. ASSUME UNCHANGED <<accounts, login, advisory, duplicates>>
      PROVE  InsertInv'
  BY <1>8 DEF InsertInv, Inserts, NoDuplicateInsert
<1> QED
  BY <1>1, <1>2, <1>3, <1>4, <1>5, <1>6, <1>7, <1>8, StepsAreThese
  DEF Steps, SendCode, OtpTick, otpVars

\* "Take an advisory lock keyed on the phone so two concurrent verifications
\* cannot both insert the same user" (findOrCreateUser): for any number of
\* requests, over both channels, with failures and restarts, no insert ever meets
\* an account that is there.
THEOREM OneInsert == OtpSpec => []NoDuplicateInsert
<1>1. OtpInit => InsertInv
  BY DEF OtpInit, InsertInv, Inserts, NoDuplicateInsert, Idling
<1>2. RowInv /\ InsertInv /\ [OtpNext]_<<otpVars, now>> => InsertInv'
  BY StepInserts
<1>3. InsertInv => NoDuplicateInsert
  BY DEF InsertInv
<1> QED BY <1>1, <1>2, <1>3, AlwaysKnowsRows, PTL DEF OtpSpec

-----------------------------------------------------------------------------
(* The sessions of a code.  A request that found the code unburnt may open *)
(* one; once it is burnt nobody finds it any more.  So the sessions a code *)
(* has opened and the requests that may still open one are never more than *)
(* the requests there are.                                                 *)

Spending(c) ==
    {r \in Logins : login[r].row = c /\ login[r].pc \in Inside}

Burnt(c) ==
    c \in 1..Len(challenges) /\ challenges[c].verified

CodeBounded(c) ==
    /\ sessionsOf[c] + Cardinality(Spending(c)) <= Cardinality(Logins)
    /\ sessionsOf[c] = 0 \/ Burnt(c)

CodeInv ==
    \A c \in 1..MaxChallenges : CodeBounded(c)

\* Requests can be counted.
LEMMA SpendingIsFinite ==
  ASSUME NEW c
  PROVE  /\ IsFiniteSet(Spending(c)) /\ IsFiniteSet(Spending(c)')
         /\ Cardinality(Spending(c)) \in Nat /\ Cardinality(Spending(c)') \in Nat
         /\ Cardinality(Logins) \in Nat
         /\ Cardinality(Spending(c)') <= Cardinality(Logins)
<1>1. Spending(c) \in SUBSET Logins /\ Spending(c)' \in SUBSET Logins
  BY DEF Spending
<1> QED BY <1>1, FS_Subset, FS_CardinalityType

\* A step after which nobody is inside that was not, and no session was opened
\* or code made good again, keeps the bound.
LEMMA NobodyEnters ==
  ASSUME RowInv, CodeInv, NEW c \in 1..MaxChallenges,
         Spending(c)' \subseteq Spending(c),
         sessionsOf'[c] = sessionsOf[c],
         Burnt(c) => Burnt(c)'
  PROVE  CodeBounded(c)'
<1>1. Cardinality(Spending(c)') <= Cardinality(Spending(c))
  BY SpendingIsFinite, FS_Subset
<1>2. sessionsOf[c] \in Nat
  BY DEF RowInv, LoginsTyped
<1> QED BY <1>1, <1>2, SpendingIsFinite DEF CodeInv, CodeBounded

\* A code is found while it has opened no session.
LEMMA ReadingIsBounded ==
  ASSUME RowInv, CodeInv, NEW r \in Logins, ReadChallenge(r)
  PROVE  CodeInv'
<1>1. /\ sessionsOf' = sessionsOf /\ challenges' = challenges
      /\ \A q \in Logins : q # r => login'[q] = login[q]
  BY DEF ReadChallenge, RowInv, LoginsTyped
<1>2. ASSUME NEW c \in 1..MaxChallenges, r \notin Spending(c)'
      PROVE  CodeBounded(c)'
  <2>1. Spending(c)' \subseteq Spending(c)
    BY <1>1, <1>2 DEF Spending
  <2> QED BY <1>1, <2>1, NobodyEnters DEF Burnt
<1>3. ASSUME NEW c \in 1..MaxChallenges, r \in Spending(c)'
      PROVE  CodeBounded(c)'
  <2>1. c \in Newest(Dest(r))
    <3>1. login'[r].pc \in Inside /\ login'[r].row = c
      BY <1>3 DEF Spending
    <3>2. login' # [login EXCEPT ![r] = Idling]
      BY <3>1 DEF Idling, Inside, RowInv, LoginsTyped
    <3>3. PICK k \in Newest(Dest(r)), code \in {"right", "wrong"} :
              login' = [login EXCEPT ![r] = [pc |-> code, row |-> k, dest |-> Dest(r)]]
      BY <3>2 DEF ReadChallenge
    <3>4. login'[r].row = k
      BY <3>3 DEF RowInv, LoginsTyped
    <3> QED BY <3>1, <3>4
  <2>2. ~Burnt(c)
    BY <2>1 DEF Newest, Pending, Burnt
  <2>3. sessionsOf'[c] = 0
    BY <1>1, <2>2 DEF CodeInv, CodeBounded
  <2> QED BY <2>3, SpendingIsFinite DEF CodeBounded
<1> QED BY <1>2, <1>3 DEF CodeInv

\* A session is opened by a request that was counted.
LEMMA OpeningIsBounded ==
  ASSUME RowInv, CodeInv, NEW r \in Logins, OpenSession(r)
  PROVE  CodeInv'
<1>0. PICK i : i = login[r].row
  OBVIOUS
<1>1. /\ i \in 1..Len(challenges) /\ challenges[i].verified
      /\ i \in 1..MaxChallenges
      /\ r \in Spending(i)
  <2>1. i \in 1..Len(challenges) /\ challenges[i].verified
    BY <1>0 DEF OpenSession, RowInv, KnowsItsRow, Inside
  <2>2. i \in 1..MaxChallenges
    BY <2>1, LenProperties, SMTT(30) DEF RowInv, LoginsTyped
  <2> QED BY <1>0, <2>1, <2>2 DEF Spending, OpenSession, Inside
<1>2. /\ sessionsOf' = [sessionsOf EXCEPT ![i] = @ + 1]
      /\ challenges' = challenges
      /\ login'[r] = Idling
      /\ \A q \in Logins : q # r => login'[q] = login[q]
  BY <1>0 DEF OpenSession, RowInv, LoginsTyped
<1>3. \A c : Spending(c)' = Spending(c) \ {r}
  BY <1>2 DEF Spending, Idling, Inside
<1>4. ASSUME NEW c \in 1..MaxChallenges, c # i
      PROVE  CodeBounded(c)'
  <2>1. sessionsOf'[c] = sessionsOf[c]
    BY <1>2, <1>4 DEF RowInv, LoginsTyped
  <2> QED BY <1>2, <1>3, <2>1, NobodyEnters DEF Burnt
<1>5. CodeBounded(i)'
  <2>1. Cardinality(Spending(i)') = Cardinality(Spending(i)) - 1
    BY <1>1, <1>3, SpendingIsFinite, FS_RemoveElement
  <2>2. sessionsOf'[i] = sessionsOf[i] + 1 /\ sessionsOf[i] \in Nat
    BY <1>1, <1>2 DEF RowInv, LoginsTyped
  <2>3. Burnt(i)'
    BY <1>1, <1>2 DEF Burnt
  <2>4. sessionsOf[i] + Cardinality(Spending(i)) <= Cardinality(Logins)
    BY <1>1 DEF CodeInv, CodeBounded
  <2>5. sessionsOf'[i] + Cardinality(Spending(i)') <= Cardinality(Logins)
    BY <2>1, <2>2, <2>4, SpendingIsFinite
  <2> QED BY <2>3, <2>5 DEF CodeBounded
<1> QED BY <1>4, <1>5 DEF CodeInv

\* Every step keeps the bound.
LEMMA StepIsBounded ==
  ASSUME RowInv, CodeInv, [OtpNext]_<<otpVars, now>>
  PROVE  CodeInv'
<1>1. ASSUME \A c \in 1..MaxChallenges : Spending(c)' \subseteq Spending(c),
             sessionsOf' = sessionsOf,
             \A c \in 1..MaxChallenges : Burnt(c) => Burnt(c)'
      PROVE  CodeInv'
  BY <1>1, NobodyEnters DEF CodeInv
<1>2. ASSUME NEW r \in Logins, UNCHANGED <<challenges, sessionsOf>>,
             \A q \in Logins : q # r => login'[q] = login[q],
             \/ login'[r].pc \notin Inside
             \/ login[r].pc \in Inside /\ login'[r].row = login[r].row
      PROVE  CodeInv'
  BY <1>1, <1>2 DEF Spending, Burnt
<1>3. ASSUME NEW d \in Destinations, SendCode(d)
      PROVE  CodeInv'
  <2>1. Challenge(d) \in Challenges
    BY DEF Challenge, Challenges, RowInv, LoginsTyped
  <2>2. \A c : Burnt(c) => Burnt(c)'
    BY <1>3, <2>1, SentRows DEF SendCode, Burnt, RowInv, LoginsTyped
  <2> QED BY <1>1, <1>3, <2>2 DEF SendCode, Spending
<1>4. ASSUME NEW r \in Logins, NEW d \in Destinations, Verify(r, d)
      PROVE  CodeInv'
  BY <1>2, <1>4 DEF Verify, Inside, RowInv, LoginsTyped
<1>5. ASSUME NEW r \in Logins, Burn(r)
      PROVE  CodeInv'
  <2>1. login[r].row \in 1..Len(challenges)
    BY <1>5 DEF Burn, RowInv, KnowsItsRow, Inside
  <2>2. /\ Len(challenges') = Len(challenges)
        /\ \A k \in 1..Len(challenges) : challenges[k].verified => challenges'[k].verified
    BY <1>5, <2>1, BurntRows DEF Burn, RowInv, LoginsTyped
  <2>3. /\ login'[r].row = login[r].row
        /\ \A q \in Logins : q # r => login'[q] = login[q]
    BY <1>5, OneRequest, NextRequest DEF Burn, Inside, RowInv, LoginsTyped
  <2>4. login[r].pc \in Inside /\ sessionsOf' = sessionsOf
    BY <1>5 DEF Burn, Inside
  <2>5. \A c : Spending(c)' \subseteq Spending(c)
    BY <2>3, <2>4 DEF Spending
  <2> QED BY <1>1, <2>2, <2>4, <2>5 DEF Burnt
<1>6. ASSUME NEW r \in Logins, NEW step \in Inside, login[r].pc \in Inside,
             login' = [login EXCEPT ![r].pc = step], UNCHANGED <<challenges, sessionsOf>>
      PROVE  CodeInv'
  <2>1. /\ login'[r].row = login[r].row
        /\ \A q \in Logins : q # r => login'[q] = login[q]
    BY <1>6, OneRequest, NextRequest DEF RowInv, LoginsTyped
  <2> QED BY <1>2, <1>6, <2>1
<1>7. ASSUME NEW r \in Logins, login' = [login EXCEPT ![r] = Idling],
             UNCHANGED <<challenges, sessionsOf>>
      PROVE  CodeInv'
  BY <1>2, <1>7 DEF Idling, Inside, RowInv, LoginsTyped
<1>8. ASSUME NEW r \in Logins, FindAccount(r) \/ CreateAccount(r)
      PROVE  CodeInv'
  BY <1>6, <1>7, <1>8 DEF FindAccount, CreateAccount, Inside
<1>9. ASSUME NEW r \in Logins, LoginFails(r) \/ CountAttempt(r)
      PROVE  CodeInv'
  BY <1>7, <1>9 DEF LoginFails, CountAttempt
<1>10. CASE OtpRestart
  <2>1. \A q \in Logins : login'[q] = Idling
    BY <1>10 DEF OtpRestart
  <2> QED BY <1>1, <1>10, <2>1 DEF OtpRestart, Spending, Burnt, Idling, Inside
<1>11. ASSUME UNCHANGED <<challenges, login, sessionsOf>>
       PROVE  CodeInv'
  BY <1>1, <1>11 DEF Spending, Burnt
<1> QED
  BY <1>3, <1>4, <1>5, <1>8, <1>9, <1>10, <1>11, ReadingIsBounded, OpeningIsBounded, StepsAreThese
  DEF Steps, OtpTick, otpVars

\* verified_at is set without asking (verifyOtp), so one code may open several
\* sessions; but for any number of destinations, codes, failures and restarts it
\* opens at most one for each request there may be in flight.
THEOREM BurntCodes == OtpSpec => []BurntCodeOpensNoMore
<1>1. OtpInit => CodeInv
  <2>1. ASSUME OtpInit, NEW c \in 1..MaxChallenges
        PROVE  CodeBounded(c)
    <3>1. Spending(c) = {} /\ sessionsOf[c] = 0
      BY <2>1 DEF OtpInit, Spending, Idling, Inside
    <3>2. Cardinality(Spending(c)) = 0
      BY <3>1, FS_EmptySet
    <3> QED BY <3>1, <3>2, SpendingIsFinite DEF CodeBounded
  <2> QED BY <2>1 DEF CodeInv
<1>2. RowInv /\ CodeInv /\ [OtpNext]_<<otpVars, now>> => CodeInv'
  BY StepIsBounded
<1>3. RowInv /\ CodeInv => BurntCodeOpensNoMore
  <2>1. ASSUME RowInv, CodeInv, NEW c \in 1..MaxChallenges
        PROVE  sessionsOf[c] <= Cardinality(Logins)
    <3>1. sessionsOf[c] \in Nat
      BY <2>1 DEF RowInv, LoginsTyped
    <3>2. sessionsOf[c] + Cardinality(Spending(c)) <= Cardinality(Logins)
      BY <2>1 DEF CodeInv, CodeBounded
    <3> QED BY <3>1, <3>2, SpendingIsFinite
  <2> QED BY <2>1 DEF BurntCodeOpensNoMore
<1> QED BY <1>1, <1>2, <1>3, AlwaysKnowsRows, PTL DEF OtpSpec

-----------------------------------------------------------------------------
(* The guesses at a code.  A wrong code compared with a challenge has been  *)
(* taken from the budget of its destination by a request that was in       *)
(* flight when the code was sent, or from a bucket that was there then, or *)
(* from the one that took its place: a third cannot start before the code  *)
(* is over.                                                                *)

\* What k budgets allow.
Allow(k) ==
    VerifyRule.limit * k

\* A code that can still be found, and the requests that may yet compare it.
Open(c) ==
    ~challenges[c].verified /\ now < challenges[c].expires

Guessing(c) ==
    {r \in Logins : \/ login[r].pc = "wrong" /\ login[r].row = c
                    \/ login[r].pc = "read" /\ login[r].dest = challenges[c].dest /\ Open(c)}

\* The budgets that may have been taken from for the code so far: those it may
\* have had renewed, the bucket there was when it was sent, and the next one.
Budgeted(c) ==
    LET b == verifyBudget[challenges[c].dest] IN
    IF Open(c)
    THEN IF b.start # 0 /\ b.start + CodeTtl < challenges[c].expires
         THEN Allow(renewals[c]) + b.count
         ELSE Allow(renewals[c] + 1) + b.count
    ELSE Allow(renewals[c] + 2)

BudgetsTyped ==
    /\ verifyBudget \in [Destinations -> Times]
    /\ \A d \in Destinations :
          /\ verifyBudget[d].start <= now
          /\ verifyBudget[d].count <= VerifyRule.limit
          /\ verifyBudget[d].start = 0 => verifyBudget[d].count = 0
    /\ wrong \in [1..MaxChallenges -> Nat]
    /\ renewals \in [1..MaxChallenges -> Nat]

GuessesHold(c) ==
    wrong[c] + Cardinality(Guessing(c)) <= Budgeted(c) + Cardinality(Logins)

GuessInv ==
    /\ BudgetsTyped
    /\ now # 0
    /\ \A c \in 1..Len(challenges) : challenges[c].expires <= now + CodeTtl
    /\ \A r \in Logins : login[r].pc = "wrong" => login[r].row \in 1..Len(challenges)
    /\ \A c \in 1..MaxChallenges : c \notin 1..Len(challenges) => wrong[c] = 0
    /\ \A c \in 1..Len(challenges) : GuessesHold(c)

\* One budget more is one limit more.
LEMMA AllowFacts ==
  ASSUME NEW k \in Nat
  PROVE  /\ Allow(k) \in Nat /\ Allow(k + 1) \in Nat /\ Allow(k + 2) \in Nat
         /\ Allow(k + 1) = Allow(k) + VerifyRule.limit
         /\ Allow(k + 2) = Allow(k + 1) + VerifyRule.limit
<1> DEFINE l == VerifyRule.limit
<1>1. l \in Nat
  OBVIOUS
<1> HIDE DEF l
<1>2. /\ l * k \in Nat /\ l * (k + 1) \in Nat /\ l * (k + 2) \in Nat
      /\ l * (k + 1) = l * k + l
      /\ l * (k + 2) = l * (k + 1) + l
  BY <1>1
<1> QED BY <1>2 DEF Allow, l

\* One renewal more allows no less.
LEMMA RenewedAllow ==
  ASSUME NEW k \in Nat
  PROVE  /\ Allow(k + 1 + 1) = Allow(k + 2)
         /\ Allow(k + 2) \in Nat /\ Allow(k + 1 + 2) \in Nat
         /\ Allow(k + 2) <= Allow(k + 1 + 2)
<1>1. k + 1 \in Nat /\ k + 1 + 1 = k + 2 /\ VerifyRule.limit \in Nat
  OBVIOUS
<1>2. Allow(k + 1 + 1) = Allow(k + 2)
  BY <1>1, Zenon
<1>3. /\ Allow(k + 1 + 1) \in Nat /\ Allow(k + 1 + 2) \in Nat
      /\ Allow(k + 1 + 2) = Allow(k + 1 + 1) + VerifyRule.limit
  BY <1>1, AllowFacts
<1>4. \A m, n, l \in Nat : n = m + l => m <= n
  OBVIOUS
<1> QED BY ONLY <1>1, <1>2, <1>3, <1>4, Zenon

\* The verdict on a try, and the bucket it leaves: the one there was, or one that
\* starts now because there was none or its window is over.
LEMMA TakenBucket ==
  ASSUME NEW b \in Times, NEW t \in Nat \ {0}, b.start <= t,
         b.count <= VerifyRule.limit, b.start = 0 => b.count = 0
  PROVE  LET taken == Consume(b, VerifyRule, t)
             after == taken.bucket
             more == IF taken.verdict = "allowed" THEN 1 ELSE 0
         IN  /\ after \in Times /\ after.start <= t
             /\ after.count <= VerifyRule.limit
             /\ after.start = 0 => after.count = 0
             /\ \/ after.start = b.start /\ after.count = b.count + more
                \/ /\ after.start = t /\ after.count = more
                   /\ b.start = 0 \/ b.start + VerifyRule.window <= t
<1> DEFINE cur == Current(b, VerifyRule, t)
           fresh == [count |-> 0, start |-> t, hit |-> 0, lockedUntil |-> 0]
<1>1. VerifyRule.window \in Nat \ {0} /\ VerifyRule.lock \in Nat /\ VerifyRule.limit \in Nat \ {0}
  OBVIOUS
<1>2. b.start \in Nat /\ b.count \in Nat
  BY DEF Times
<1>3. fresh \in Times /\ fresh.count = 0 /\ fresh.start = t
  BY DEF Times
<1>4. \/ cur = b /\ b.start # 0
      \/ cur = fresh /\ (b.start = 0 \/ b.start + VerifyRule.window <= t)
  <2>1. [NoBucket EXCEPT !.start = t] = fresh
    BY DEF NoBucket
  <2>2. CASE b.start = 0 \/ t - b.start >= VerifyRule.window
    <3>1. cur = fresh
      BY <2>1, <2>2 DEF Current
    <3>2. b.start = 0 \/ b.start + VerifyRule.window <= t
      BY <1>1, <1>2, <2>2
    <3> QED BY <3>1, <3>2
  <2>3. CASE ~(b.start = 0 \/ t - b.start >= VerifyRule.window)
    BY <2>3 DEF Current
  <2> QED BY <2>2, <2>3
<1>5. /\ cur \in Times /\ cur.start # 0 /\ cur.start <= t /\ cur.count <= VerifyRule.limit
      /\ cur.count \in Nat
      /\ \/ cur.start = b.start /\ cur.count = b.count
         \/ cur.start = t /\ cur.count = 0 /\ (b.start = 0 \/ b.start + VerifyRule.window <= t)
  <2> HIDE DEF cur, fresh
  <2> QED BY <1>1, <1>2, <1>3, <1>4
<1> HIDE DEF cur, fresh
<1>6. CASE Locked(b, t)
  <2>1. Consume(b, VerifyRule, t) = [verdict |-> "locked", bucket |-> b]
    BY <1>6 DEF Consume
  <2> QED BY <1>2, <2>1
<1>7. CASE ~Locked(b, t) /\ Cooling(cur, VerifyRule, t)
  <2>1. Consume(b, VerifyRule, t) = [verdict |-> "cooldown", bucket |-> cur]
    BY <1>7 DEF Consume, cur
  <2> QED BY <1>5, <2>1
<1>8. CASE ~Locked(b, t) /\ ~Cooling(cur, VerifyRule, t) /\ cur.count >= VerifyRule.limit
  <2> DEFINE locked == [cur EXCEPT !.lockedUntil = t + VerifyRule.lock]
  <2>1. Consume(b, VerifyRule, t) = [verdict |-> "limit", bucket |-> locked]
    BY <1>8 DEF Consume, cur
  <2>2. locked \in Times /\ locked.start = cur.start /\ locked.count = cur.count
    BY <1>1, <1>5 DEF Times
  <2> HIDE DEF locked
  <2> QED BY <1>5, <2>1, <2>2
<1>9. CASE ~Locked(b, t) /\ ~Cooling(cur, VerifyRule, t) /\ ~(cur.count >= VerifyRule.limit)
  <2> DEFINE counted == [cur EXCEPT !.count = @ + 1, !.hit = t]
  <2>1. Consume(b, VerifyRule, t) = [verdict |-> "allowed", bucket |-> counted]
    BY <1>9 DEF Consume, cur
  <2>2. counted \in Times /\ counted.start = cur.start
    BY <1>5, CountedBucket
  <2>3. counted.count = cur.count + 1
    BY <1>5 DEF Times
  <2>4. cur.count + 1 <= VerifyRule.limit
    BY <1>1, <1>5, <1>9
  <2> HIDE DEF counted
  <2> QED BY <1>5, <2>1, <2>2, <2>3, <2>4
<1> QED BY <1>6, <1>7, <1>8, <1>9

\* What is known of a challenge there is.
LEMMA OfChallenge ==
  ASSUME RowInv, GuessInv, NEW c \in 1..Len(challenges)
  PROVE  /\ c \in 1..MaxChallenges
         /\ challenges[c] \in Challenges
         /\ challenges[c].dest \in Destinations
         /\ challenges[c].expires \in Nat /\ challenges[c].expires <= now + CodeTtl
         /\ wrong[c] \in Nat /\ renewals[c] \in Nat
         /\ verifyBudget[challenges[c].dest] \in Times
         /\ verifyBudget[challenges[c].dest].start \in Nat
         /\ verifyBudget[challenges[c].dest].count \in 0..VerifyRule.limit
<1>1. challenges \in Seq(Challenges) /\ Len(challenges) <= MaxChallenges
  BY DEF RowInv, LoginsTyped
<1>2. challenges[c] \in Challenges
  BY <1>1, ElementOfSeq
<1>3. challenges[c].dest \in Destinations /\ challenges[c].expires \in Nat
  BY <1>2 DEF Challenges
<1>4. c \in 1..MaxChallenges
  BY <1>1, LenProperties
<1>5. wrong[c] \in Nat /\ renewals[c] \in Nat
  BY <1>4 DEF GuessInv, BudgetsTyped
<1>6. verifyBudget[challenges[c].dest] \in Times
      /\ verifyBudget[challenges[c].dest].count <= VerifyRule.limit
  BY <1>3 DEF GuessInv, BudgetsTyped
<1>7. verifyBudget[challenges[c].dest].start \in Nat /\ verifyBudget[challenges[c].dest].count \in Nat
  BY <1>6 DEF Times
<1> QED BY <1>2, <1>3, <1>4, <1>5, <1>6, <1>7 DEF GuessInv

\* The budgets of a code are two and those renewed, at most.
LEMMA BudgetedBound ==
  ASSUME RowInv, GuessInv, NEW c \in 1..Len(challenges)
  PROVE  Budgeted(c) \in Nat /\ Budgeted(c) <= Allow(renewals[c] + 2)
<1> DEFINE b == verifyBudget[challenges[c].dest]
           k == renewals[c]
<1>1. k \in Nat /\ b.count \in 0..VerifyRule.limit /\ VerifyRule.limit \in Nat
  BY OfChallenge
<1>2. Budgeted(c) \in {Allow(k + 2), Allow(k) + b.count, Allow(k + 1) + b.count}
  BY DEF Budgeted
<1> HIDE DEF b, k
<1>3. /\ Allow(k) \in Nat /\ Allow(k + 1) \in Nat /\ Allow(k + 2) \in Nat
      /\ Allow(k + 1) = Allow(k) + VerifyRule.limit
      /\ Allow(k + 2) = Allow(k + 1) + VerifyRule.limit
  BY <1>1, AllowFacts
<1>4. \A n \in {Allow(k + 2), Allow(k) + b.count, Allow(k + 1) + b.count} :
          n \in Nat /\ n <= Allow(k + 2)
  <2> DEFINE m == b.count
             l == VerifyRule.limit
             x == Allow(k)
             y == Allow(k + 1)
             z == Allow(k + 2)
  <2>1. m \in 0..l /\ l \in Nat /\ x \in Nat /\ y = x + l /\ z = y + l
    BY <1>1, <1>3
  <2> HIDE DEF m, l, x, y, z
  <2>2. z \in Nat /\ x + m \in Nat /\ y + m \in Nat /\ x + m <= z /\ y + m <= z /\ z <= z
    BY ONLY <2>1
  <2> QED BY <2>2 DEF m, x, y, z
<1> QED BY <1>2, <1>4 DEF k

\* The requests guessing at a code can be counted.
LEMMA GuessingIsFinite ==
  ASSUME NEW c
  PROVE  /\ IsFiniteSet(Guessing(c)) /\ IsFiniteSet(Guessing(c)')
         /\ Cardinality(Guessing(c)) \in Nat /\ Cardinality(Guessing(c)') \in Nat
         /\ Cardinality(Logins) \in Nat
         /\ Cardinality(Guessing(c)') <= Cardinality(Logins)
<1>1. Guessing(c) \in SUBSET Logins /\ Guessing(c)' \in SUBSET Logins
  BY DEF Guessing
<1> QED BY <1>1, FS_Subset, FS_CardinalityType

\* A step after which nobody guesses at a code that did not, none was compared and
\* no budget of it has gone keeps the bound.
LEMMA NobodyGuesses ==
  ASSUME RowInv, GuessInv, NEW c \in 1..Len(challenges),
         Guessing(c)' \subseteq Guessing(c), wrong'[c] = wrong[c],
         Budgeted(c)' \in Nat, Budgeted(c) <= Budgeted(c)'
  PROVE  GuessesHold(c)'
<1>1. Cardinality(Guessing(c)') <= Cardinality(Guessing(c))
  BY GuessingIsFinite, FS_Subset
<1>2. wrong[c] \in Nat /\ Budgeted(c) \in Nat
  BY OfChallenge, BudgetedBound
<1>3. wrong[c] + Cardinality(Guessing(c)) <= Budgeted(c) + Cardinality(Logins)
  BY DEF GuessInv, GuessesHold
<1>4. \A a, g, h, x, y, l \in Nat : a + g <= x + l /\ h <= g /\ x <= y => a + h <= y + l
  OBVIOUS
<1>5. wrong[c] + Cardinality(Guessing(c)') <= Budgeted(c)' + Cardinality(Logins)
  BY <1>1, <1>2, <1>3, <1>4, GuessingIsFinite, ZenonT(30)
<1> QED BY <1>5 DEF GuessesHold

\* The budgets of a code that stay as they were, or are all it may have had.
LEMMA NoBudgetGoes ==
  ASSUME RowInv, GuessInv, NEW c \in 1..Len(challenges),
         Budgeted(c)' \in {Budgeted(c), Allow(renewals[c] + 2), Allow(renewals[c] + 1 + 2)}
  PROVE  Budgeted(c)' \in Nat /\ Budgeted(c) <= Budgeted(c)'
<1>1. PICK x, y, z, w : /\ x = Budgeted(c) /\ y = Allow(renewals[c] + 2)
                        /\ z = Allow(renewals[c] + 1 + 2) /\ w = Budgeted(c)'
  OBVIOUS
<1>2. x \in Nat /\ x <= y
  BY <1>1, BudgetedBound
<1>3. y \in Nat /\ z \in Nat /\ y <= z
  BY <1>1, OfChallenge, RenewedAllow
<1>4. w \in {x, y, z}
  BY <1>1
<1>5. w \in Nat /\ x <= w
  BY ONLY <1>2, <1>3, <1>4
<1> QED BY ONLY <1>1, <1>5, Zenon

\* A step that leaves rows, budgets and guesses alone, and begins none.
LEMMA QuietStep ==
  ASSUME RowInv, GuessInv,
         UNCHANGED <<challenges, verifyBudget, wrong, renewals>>,
         now' \in Nat, now <= now',
         \A r \in Logins : login'[r] = login[r] \/ login'[r].pc \notin {"read", "wrong"}
  PROVE  GuessInv'
<1>1. now \in Nat /\ CodeTtl \in Nat
  BY DEF RowInv, LoginsTyped
<1>2. BudgetsTyped'
  <2>1. \A d \in Destinations : verifyBudget[d].start \in Nat /\ verifyBudget[d].start <= now
    BY DEF GuessInv, BudgetsTyped, Times
  <2>2. \A d \in Destinations : verifyBudget[d].start <= now'
    BY <1>1, <2>1
  <2> QED BY <2>2 DEF GuessInv, BudgetsTyped
<1>3. ASSUME NEW c \in 1..Len(challenges)
      PROVE  challenges[c].expires <= now' + CodeTtl /\ GuessesHold(c)'
  <2>1. challenges[c].expires \in Nat /\ challenges[c].expires <= now + CodeTtl
    BY OfChallenge
  <2>2. Open(c)' => Open(c)
    <3>1. now' < challenges[c].expires => now < challenges[c].expires
      BY <1>1, <2>1
    <3> QED BY <3>1 DEF Open
  <2>3. Guessing(c)' \subseteq Guessing(c)
    BY <2>2 DEF Guessing
  <2>4. Budgeted(c)' \in Nat /\ Budgeted(c) <= Budgeted(c)'
    <3>1. Budgeted(c)' = Budgeted(c) \/ Budgeted(c)' = Allow(renewals[c] + 2)
      <4>1. CASE Open(c)'
        BY <2>2, <4>1 DEF Budgeted
      <4>2. CASE ~Open(c)'
        BY <4>2 DEF Budgeted
      <4> QED BY <4>1, <4>2
    <3> QED BY <3>1, NoBudgetGoes
  <2>5. GuessesHold(c)'
    BY <2>3, <2>4, NobodyGuesses
  <2>6. challenges[c].expires <= now' + CodeTtl
    <3>1. \A e, n, m, t \in Nat : e <= n + t /\ n <= m => e <= m + t
      OBVIOUS
    <3> QED BY <1>1, <2>1, <3>1, Zenon
  <2> QED BY <2>5, <2>6
<1>4. \A r \in Logins : login'[r].pc = "wrong" => login'[r].row \in 1..Len(challenges)
  BY DEF GuessInv
<1>5. now' # 0
  BY <1>1 DEF GuessInv
<1> QED BY <1>2, <1>3, <1>4, <1>5 DEF GuessInv

\* A code sent: a new challenge, at which nobody guesses yet.
LEMMA SendingGuesses ==
  ASSUME RowInv, GuessInv, NEW d \in Destinations, SendCode(d)
  PROVE  GuessInv'
<1>0. PICK z, n : z = Len(challenges) /\ n = z + 1
  OBVIOUS
<1>1. Challenge(d) \in Challenges /\ challenges \in Seq(Challenges) /\ now \in Nat
  BY DEF Challenge, Challenges, RowInv, LoginsTyped
<1>2. /\ challenges' = Append(challenges, Challenge(d)) /\ z < MaxChallenges
      /\ UNCHANGED <<verifyBudget, login, wrong, renewals, now>>
  BY <1>0 DEF SendCode
<1>3. /\ z \in Nat /\ Len(challenges') = n
      /\ \A c \in 1..z : challenges'[c] = challenges[c]
      /\ challenges'[n] = Challenge(d)
  BY <1>0, <1>1, <1>2, SentRows, AppendProperties
<1>4. MaxChallenges \in Nat /\ CodeTtl \in Nat
  OBVIOUS
<1>5. n = z + 1 /\ n \in 1..MaxChallenges /\ n \notin 1..z
  BY <1>0, <1>2, <1>3, <1>4
<1>6. \A c : c \in 1..Len(challenges') <=> c \in 1..z \/ c = n
  BY <1>3, <1>5
<1>7. ASSUME NEW c \in 1..z
      PROVE  challenges'[c].expires <= now' + CodeTtl /\ GuessesHold(c)'
  <2>1. Open(c)' = Open(c) /\ challenges'[c] = challenges[c]
    BY <1>2, <1>3, <1>7 DEF Open
  <2>2. Guessing(c)' \subseteq Guessing(c)
    BY <1>2, <2>1 DEF Guessing
  <2>3. Budgeted(c)' = Budgeted(c)
    BY <1>2, <2>1 DEF Budgeted
  <2>4. c \in 1..Len(challenges)
    BY <1>0
  <2>5. challenges[c].expires <= now + CodeTtl /\ wrong'[c] = wrong[c] /\ now' = now
    BY <1>2, <2>4, OfChallenge
  <2>6. Budgeted(c) \in Nat
    BY <2>4, BudgetedBound
  <2>7. Budgeted(c)' \in Nat /\ Budgeted(c) <= Budgeted(c)'
    BY <2>3, <2>6
  <2>8. GuessesHold(c)'
    BY <2>2, <2>4, <2>5, <2>7, NobodyGuesses
  <2> QED BY <2>1, <2>5, <2>8
<1>8. challenges'[n].expires <= now' + CodeTtl /\ GuessesHold(n)'
  <2>1. /\ challenges'[n].expires = now + CodeTtl /\ challenges'[n].dest = d
        /\ ~challenges'[n].verified
    BY <1>3 DEF Challenge
  <2>2. wrong'[n] = 0
    BY <1>0, <1>2, <1>5 DEF GuessInv
  <2>3. renewals'[n] \in Nat /\ verifyBudget'[d].count \in Nat
    BY <1>2, <1>5 DEF GuessInv, BudgetsTyped, Times
  <2>4. Budgeted(n)' \in Nat
    <3>1. Budgeted(n)' \in {Allow(renewals'[n] + 2), Allow(renewals'[n]) + verifyBudget'[d].count,
                            Allow(renewals'[n] + 1) + verifyBudget'[d].count}
      BY <2>1 DEF Budgeted
    <3>2. /\ Allow(renewals'[n] + 2) \in Nat /\ Allow(renewals'[n]) \in Nat
          /\ Allow(renewals'[n] + 1) \in Nat
      BY <2>3, AllowFacts
    <3> QED BY <2>3, <3>1, <3>2
  <2>5. wrong'[n] + Cardinality(Guessing(n)') <= Budgeted(n)' + Cardinality(Logins)
    <3>1. \A g, y, l \in Nat : g <= l => 0 + g <= y + l
      OBVIOUS
    <3> QED BY <2>2, <2>4, <3>1, GuessingIsFinite, ZenonT(30)
  <2>6. now + CodeTtl <= now' + CodeTtl
    BY <1>1, <1>2, <1>4
  <2>7. challenges'[n].expires <= now' + CodeTtl
    BY <2>1, <2>6
  <2> QED BY <2>5, <2>7 DEF GuessesHold
<1>9. BudgetsTyped'
  BY <1>2 DEF GuessInv, BudgetsTyped
<1>10. \A r \in Logins : login'[r].pc = "wrong" => login'[r].row \in 1..Len(challenges')
  BY <1>0, <1>2, <1>6 DEF GuessInv
<1>11. \A c \in 1..MaxChallenges : c \notin 1..Len(challenges') => wrong'[c] = 0
  BY <1>0, <1>2, <1>6 DEF GuessInv
<1> QED BY <1>2, <1>6, <1>7, <1>8, <1>9, <1>10, <1>11 DEF GuessInv

\* A wrong code counted is one request less that guesses.
LEMMA CountingGuesses ==
  ASSUME RowInv, GuessInv, NEW r \in Logins, CountAttempt(r)
  PROVE  GuessInv'
<1>0. PICK i : i = login[r].row
  OBVIOUS
<1>1. /\ login[r].pc = "wrong" /\ wrong' = [wrong EXCEPT ![i] = @ + 1]
      /\ login'[r] = Idling
      /\ \A q \in Logins : q # r => login'[q] = login[q]
      /\ UNCHANGED <<challenges, verifyBudget, renewals, now>>
  BY <1>0 DEF CountAttempt, RowInv, LoginsTyped
<1>2. i \in 1..Len(challenges) /\ i \in 1..MaxChallenges /\ wrong[i] \in Nat
  <2>1. i \in 1..Len(challenges)
    BY <1>0, <1>1 DEF GuessInv
  <2> QED BY <2>1, OfChallenge
<1>3. \A c : Guessing(c)' = Guessing(c) \ {r}
  BY <1>1 DEF Guessing, Open, Idling
<1>4. \A c \in 1..Len(challenges) : Budgeted(c)' = Budgeted(c) /\ Budgeted(c)' \in Nat
  <2>1. ASSUME NEW c \in 1..Len(challenges)
        PROVE  Budgeted(c)' = Budgeted(c)
    BY <1>1 DEF Budgeted, Open
  <2> QED BY <2>1, BudgetedBound
<1>5. /\ wrong' \in [1..MaxChallenges -> Nat] /\ wrong'[i] = wrong[i] + 1
      /\ \A c \in 1..MaxChallenges : c # i => wrong'[c] = wrong[c]
  BY <1>1, <1>2 DEF GuessInv, BudgetsTyped
<1>6. ASSUME NEW c \in 1..Len(challenges), c # i
      PROVE  GuessesHold(c)'
  <2>1. wrong'[c] = wrong[c]
    BY <1>5, <1>6, OfChallenge
  <2>2. Budgeted(c) <= Budgeted(c)'
    BY <1>4
  <2> QED BY <1>3, <1>4, <2>1, <2>2, NobodyGuesses
<1>7. GuessesHold(i)'
  <2>1. r \in Guessing(i)
    BY <1>0, <1>1 DEF Guessing
  <2>2. Cardinality(Guessing(i)') = Cardinality(Guessing(i)) - 1
    BY <1>3, <2>1, GuessingIsFinite, FS_RemoveElement
  <2>3. wrong[i] + Cardinality(Guessing(i)) <= Budgeted(i) + Cardinality(Logins)
    BY <1>2 DEF GuessInv, GuessesHold
  <2>4. wrong[i] + 1 + (Cardinality(Guessing(i)) - 1) = wrong[i] + Cardinality(Guessing(i))
    <3>1. Cardinality(Guessing(i)) \in Nat
      BY GuessingIsFinite
    <3> QED BY ONLY <1>2, <3>1
  <2>5. Budgeted(i)' = Budgeted(i)
    BY <1>2, <1>4
  <2> QED BY <1>5, <2>2, <2>3, <2>4, <2>5 DEF GuessesHold
<1>8. BudgetsTyped'
  BY <1>1, <1>5 DEF GuessInv, BudgetsTyped
<1>9. \A c \in 1..MaxChallenges : c \notin 1..Len(challenges) => wrong'[c] = 0
  BY <1>2, <1>5 DEF GuessInv
<1>10. \A q \in Logins : login'[q].pc = "wrong" => login'[q].row \in 1..Len(challenges)
  BY <1>1 DEF GuessInv, Idling
<1> QED BY <1>1, <1>6, <1>7, <1>8, <1>9, <1>10 DEF GuessInv

\* A request that finds the newest code has been guessing at it.
LEMMA ReadingGuesses ==
  ASSUME RowInv, GuessInv, NEW r \in Logins, ReadChallenge(r)
  PROVE  GuessInv'
<1>1. /\ login[r].pc = "read"
      /\ \A q \in Logins : q # r => login'[q] = login[q]
      /\ UNCHANGED <<challenges, verifyBudget, wrong, renewals, now>>
  BY DEF ReadChallenge, RowInv, LoginsTyped
<1>2. now \in Nat /\ now <= now'
  BY <1>1 DEF RowInv, LoginsTyped
<1>3. CASE login' = [login EXCEPT ![r] = Idling]
  <2>1. login'[r].pc = "idle"
    BY <1>3 DEF Idling, RowInv, LoginsTyped
  <2> QED BY <1>1, <1>2, <2>1, QuietStep
<1>4. ASSUME NEW c \in Newest(Dest(r)), Usable(c), NEW code \in {"right", "wrong"},
             login' = [login EXCEPT ![r] = [pc |-> code, row |-> c, dest |-> Dest(r)]]
      PROVE  GuessInv'
  <2>1. login'[r].pc = code /\ login'[r].row = c
    BY <1>4 DEF RowInv, LoginsTyped
  <2>2. /\ c \in 1..Len(challenges) /\ challenges[c].dest = login[r].dest
        /\ Open(c)
    BY <1>4 DEF Newest, Pending, Usable, Open, Dest
  <2>3. r \in Guessing(c)
    BY <1>1, <2>2 DEF Guessing
  <2>4. ASSUME NEW k \in 1..Len(challenges)
        PROVE  GuessesHold(k)'
    <3>1. Guessing(k)' \subseteq Guessing(k)
      BY <1>1, <2>1, <2>3 DEF Guessing, Open
    <3>2. Budgeted(k)' = Budgeted(k)
      BY <1>1 DEF Budgeted, Open
    <3> QED BY <1>1, <3>1, <3>2, BudgetedBound, NobodyGuesses
  <2>5. BudgetsTyped'
    BY <1>1 DEF GuessInv, BudgetsTyped
  <2>6. \A q \in Logins : login'[q].pc = "wrong" => login'[q].row \in 1..Len(challenges)
    BY <1>1, <2>1, <2>2 DEF GuessInv
  <2> QED BY <1>1, <2>4, <2>5, <2>6 DEF GuessInv
<1> QED BY <1>3, <1>4 DEF ReadChallenge

\* A try taken from the budget: it is counted in the bucket, and a bucket that
\* starts after the code was sent is the last before the code is over.
LEMMA TakingGuesses ==
  ASSUME RowInv, GuessInv, NEW r \in Logins, NEW d \in Destinations, Verify(r, d)
  PROVE  GuessInv'
<1> DEFINE b == verifyBudget[d]
           taken == Consume(b, VerifyRule, now)
<1>0. PICK after, more : after = taken.bucket /\ more = IF taken.verdict = "allowed" THEN 1 ELSE 0
  OBVIOUS
<1>1. /\ now \in Nat \ {0} /\ CodeTtl \in Nat /\ VerifyRule.window \in Nat /\ VerifyRule.limit \in Nat
      /\ CodeTtl < VerifyRule.window
  BY DEF RowInv, LoginsTyped, GuessInv
<1>2. /\ b \in Times /\ b.start <= now /\ b.count <= VerifyRule.limit
      /\ b.start = 0 => b.count = 0
  BY DEF GuessInv, BudgetsTyped
<1>3. /\ after \in Times /\ after.start <= now
      /\ after.count <= VerifyRule.limit
      /\ after.start = 0 => after.count = 0
      /\ \/ after.start = b.start /\ after.count = b.count + more
         \/ /\ after.start = now /\ after.count = more
            /\ b.start = 0 \/ b.start + VerifyRule.window <= now
  BY <1>0, <1>1, <1>2, TakenBucket
<1>4. /\ verifyBudget' = [verifyBudget EXCEPT ![d] = after]
      /\ login' = IF more = 1 THEN [login EXCEPT ![r] = [pc |-> "read", row |-> 0, dest |-> d]] ELSE login
      /\ UNCHANGED <<challenges, wrong, renewals, now>>
      /\ more \in {0, 1}
  BY <1>0 DEF Verify, TakeBudget
<1> HIDE DEF taken
<1>5. /\ verifyBudget' \in [Destinations -> Times]
      /\ verifyBudget'[d] = after
      /\ \A e \in Destinations : e # d => verifyBudget'[e] = verifyBudget[e]
  BY <1>3, <1>4 DEF GuessInv, BudgetsTyped
<1>6. BudgetsTyped'
  BY <1>3, <1>4, <1>5 DEF GuessInv, BudgetsTyped
<1>7. \A q \in Logins : /\ login'[q].pc = "wrong" => login'[q] = login[q]
                        /\ q # r => login'[q] = login[q]
  BY <1>4 DEF RowInv, LoginsTyped
<1>8. \A c : Open(c)' = Open(c)
  BY <1>4 DEF Open
<1>9. ASSUME NEW c \in 1..Len(challenges), ~Open(c) \/ challenges[c].dest # d
      PROVE  GuessesHold(c)'
  <2>1. Guessing(c)' \subseteq Guessing(c)
    <3>1. ASSUME NEW q \in Logins, login'[q].pc = "read", login'[q].dest = challenges[c].dest, Open(c)
          PROVE  login'[q] = login[q]
      BY <1>4, <1>7, <1>9, <3>1 DEF RowInv, LoginsTyped
    <3> QED BY <1>4, <1>7, <1>8, <3>1 DEF Guessing
  <2>2. Budgeted(c)' = Budgeted(c)
    BY <1>4, <1>5, <1>8, <1>9, OfChallenge DEF Budgeted
  <2>3. Budgeted(c)' \in Nat /\ Budgeted(c) <= Budgeted(c)'
    BY <2>2, BudgetedBound
  <2> QED BY <1>4, <2>1, <2>3, NobodyGuesses
<1>10. ASSUME NEW c \in 1..Len(challenges), Open(c), challenges[c].dest = d
       PROVE  GuessesHold(c)'
  <2> DEFINE k == renewals[c]
             e == challenges[c].expires
             First(x) == x.start # 0 /\ x.start + CodeTtl < e
  <2>1. /\ k \in Nat /\ e \in Nat /\ e <= now + CodeTtl /\ now < e
        /\ b.start \in Nat /\ b.count \in 0..VerifyRule.limit
        /\ wrong[c] \in Nat
    BY <1>10, OfChallenge DEF Open
  <2>2. /\ Allow(k) \in Nat /\ Allow(k + 1) \in Nat
        /\ Allow(k + 1) = Allow(k) + VerifyRule.limit
    BY <2>1, AllowFacts
  <2>3. Budgeted(c) = IF First(b) THEN Allow(k) + b.count ELSE Allow(k + 1) + b.count
    BY <1>10 DEF Budgeted
  <2>4. Budgeted(c)' = IF First(after) THEN Allow(k) + after.count ELSE Allow(k + 1) + after.count
    BY <1>4, <1>5, <1>8, <1>10 DEF Budgeted
  <2>5. after.start \in Nat /\ after.count \in Nat
    BY <1>3 DEF Times
  <2>6. Budgeted(c)' \in Nat /\ Budgeted(c) + more <= Budgeted(c)' /\ Budgeted(c) \in Nat
    <3> DEFINE a == Allow(k)
               l == VerifyRule.limit
    <3>1. a \in Nat /\ Allow(k + 1) = a + l /\ l \in Nat
      BY <2>2
    <3>2. /\ b.count \in Nat /\ b.count <= l /\ b.start \in Nat /\ (b.start = 0 => b.count = 0)
          /\ e \in Nat /\ e <= now + CodeTtl /\ now < e
      BY <1>2, <2>1
    <3>3. /\ Budgeted(c) = IF b.start # 0 /\ b.start + CodeTtl < e THEN a + b.count ELSE a + l + b.count
          /\ Budgeted(c)' = IF after.start # 0 /\ after.start + CodeTtl < e
                            THEN a + after.count ELSE a + l + after.count
      BY <2>3, <2>4, <3>1
    <3>4. /\ now # 0 /\ now \in Nat
          /\ \/ after.start = b.start /\ after.count = b.count + more
             \/ after.start = now /\ after.count = more /\ (b.start = 0 \/ b.start + VerifyRule.window <= now)
      BY <1>1, <1>3
    <3>5. PICK s, n, s2, n2, x, y, w :
              /\ s = b.start /\ n = b.count /\ s2 = after.start /\ n2 = after.count
              /\ x = Budgeted(c) /\ y = Budgeted(c)' /\ w = VerifyRule.window
      OBVIOUS
    <3> HIDE DEF a, l, b, e, First
    <3>6. /\ a \in Nat /\ l \in Nat /\ n \in Nat /\ s \in Nat /\ n2 \in Nat /\ s2 \in Nat
          /\ e \in Nat /\ w \in Nat /\ CodeTtl \in Nat /\ now \in Nat /\ more \in {0, 1}
          /\ now # 0 /\ CodeTtl < w /\ e <= now + CodeTtl /\ now < e
          /\ n <= l /\ (s = 0 => n = 0)
      <4>1. a \in Nat /\ l \in Nat /\ e \in Nat /\ e <= now + CodeTtl /\ now < e
        BY ONLY <3>1, <3>2
      <4>2. n \in Nat /\ s \in Nat /\ n2 \in Nat /\ s2 \in Nat /\ n <= l /\ (s = 0 => n = 0)
        BY ONLY <2>5, <3>2, <3>5, Zenon
      <4>3. w \in Nat /\ CodeTtl \in Nat /\ now \in Nat /\ now # 0 /\ CodeTtl < w
        BY ONLY <1>1, <3>4, <3>5
      <4> QED BY ONLY <1>4, <4>1, <4>2, <4>3
    <3>7. /\ x = IF s # 0 /\ s + CodeTtl < e THEN a + n ELSE a + l + n
          /\ y = IF s2 # 0 /\ s2 + CodeTtl < e THEN a + n2 ELSE a + l + n2
      BY ONLY <3>3, <3>5, Zenon
    <3>8. ASSUME s2 = s, n2 = n + more
          PROVE  x \in Nat /\ y \in Nat /\ x + more <= y
      BY ONLY <3>6, <3>7, <3>8
    <3>9. ASSUME s2 = now, n2 = more, s = 0 \/ s + w <= now
          PROVE  x \in Nat /\ y \in Nat /\ x + more <= y
      <4>1. ~(s2 + CodeTtl < e) /\ (s = 0 \/ s + CodeTtl < e)
        BY ONLY <3>6, <3>9
      <4>2. y = a + l + more /\ x = a + (IF s = 0 THEN l ELSE n)
        BY ONLY <3>6, <3>7, <3>9, <4>1
      <4> QED BY ONLY <3>6, <4>2
    <3>10. x \in Nat /\ y \in Nat /\ x + more <= y
      BY ONLY <3>4, <3>5, <3>8, <3>9, Zenon
    <3> QED BY ONLY <3>5, <3>10, Zenon
  <2>7. Cardinality(Guessing(c)') <= Cardinality(Guessing(c)) + more
    <3>1. CASE more = 1
      <4>1. Guessing(c)' \subseteq Guessing(c) \cup {r}
        BY <1>4, <1>7, <1>8 DEF Guessing
      <4>2. /\ IsFiniteSet(Guessing(c) \cup {r})
            /\ \/ Cardinality(Guessing(c) \cup {r}) = Cardinality(Guessing(c)) + 1
               \/ Cardinality(Guessing(c) \cup {r}) = Cardinality(Guessing(c))
        BY GuessingIsFinite, FS_AddElement
      <4>3. Cardinality(Guessing(c)') <= Cardinality(Guessing(c) \cup {r})
        BY <4>1, <4>2, FS_Subset
      <4> QED BY <3>1, <4>2, <4>3, GuessingIsFinite
    <3>2. CASE more = 0
      <4>1. Guessing(c)' \subseteq Guessing(c)
        BY <1>4, <1>8, <3>2 DEF Guessing
      <4>2. Cardinality(Guessing(c)') <= Cardinality(Guessing(c))
        BY <4>1, GuessingIsFinite, FS_Subset
      <4> QED BY <3>2, <4>2, GuessingIsFinite
    <3> QED BY <1>4, <3>1, <3>2
  <2>8. wrong[c] + Cardinality(Guessing(c)) <= Budgeted(c) + Cardinality(Logins)
    BY DEF GuessInv, GuessesHold
  <2>9. \A a, g, h, x, y, l, m \in Nat :
            a + g <= x + l /\ h <= g + m /\ x + m <= y => a + h <= y + l
    OBVIOUS
  <2>10. wrong[c] + Cardinality(Guessing(c)') <= Budgeted(c)' + Cardinality(Logins)
    <3>1. more \in Nat
      BY <1>4
    <3> HIDE DEF First, k, e
    <3> QED BY <2>1, <2>6, <2>7, <2>8, <2>9, <3>1, GuessingIsFinite, ZenonT(60)
  <2> QED BY <1>4, <2>10 DEF GuessesHold
<1>11. \A q \in Logins : login'[q].pc = "wrong" => login'[q].row \in 1..Len(challenges)
  BY <1>7 DEF GuessInv
<1> QED BY <1>4, <1>6, <1>9, <1>10, <1>11 DEF GuessInv

\* The right code: the budget is cleared, which every other code of the
\* destination sees; the code itself is found no more.
LEMMA BurningGuesses ==
  ASSUME RowInv, GuessInv, NEW r \in Logins, Burn(r), Dest(r) \in Destinations
  PROVE  GuessInv'
<1>0. PICK i, d : i = login[r].row /\ d = Dest(r)
  OBVIOUS
<1>1. /\ login[r].pc = "right"
      /\ challenges' = [challenges EXCEPT ![i].verified = TRUE]
      /\ verifyBudget' = [verifyBudget EXCEPT ![d] = NoBucket]
      /\ renewals' = [c \in 1..MaxChallenges |->
                         IF c \in Pending(d) THEN renewals[c] + 1 ELSE renewals[c]]
      /\ UNCHANGED <<wrong, now>>
  BY <1>0 DEF Burn
<1>2. /\ login'[r].pc = "lock"
      /\ \A q \in Logins : q # r => login'[q] = login[q]
  BY NextRequest, OneRequest DEF Burn, Inside, RowInv, LoginsTyped
<1>3. i \in 1..Len(challenges)
  BY <1>0, <1>1 DEF RowInv, KnowsItsRow, Inside
<1>4. /\ Len(challenges') = Len(challenges)
      /\ challenges'[i].verified
      /\ \A c \in 1..Len(challenges) : /\ challenges'[c].dest = challenges[c].dest
                                       /\ challenges'[c].expires = challenges[c].expires
                                       /\ c # i => challenges'[c] = challenges[c]
  BY <1>1, <1>3, BurntRows DEF RowInv, LoginsTyped
<1>5. NoBucket \in Times /\ NoBucket.start = 0 /\ NoBucket.count = 0
  BY DEF NoBucket, Times
<1>6. /\ verifyBudget' \in [Destinations -> Times]
      /\ verifyBudget'[d] = NoBucket
      /\ \A e \in Destinations : e # d => verifyBudget'[e] = verifyBudget[e]
  BY <1>0, <1>1, <1>5 DEF GuessInv, BudgetsTyped
<1>7. /\ renewals' \in [1..MaxChallenges -> Nat]
      /\ \A c \in 1..MaxChallenges : /\ c \in Pending(d) => renewals'[c] = renewals[c] + 1
                                     /\ c \notin Pending(d) => renewals'[c] = renewals[c]
  BY <1>1 DEF GuessInv, BudgetsTyped
<1>8. BudgetsTyped'
  <2>1. now \in Nat /\ VerifyRule.limit \in Nat
    BY DEF RowInv, LoginsTyped
  <2> QED BY <1>1, <1>5, <1>6, <1>7, <2>1 DEF GuessInv, BudgetsTyped
<1>9. ASSUME NEW c \in 1..Len(challenges)
      PROVE  GuessesHold(c)'
  <2>1. Open(c)' => Open(c) /\ c # i /\ challenges'[c] = challenges[c]
    BY <1>1, <1>4 DEF Open
  <2>2. Guessing(c)' \subseteq Guessing(c)
    BY <1>2, <2>1 DEF Guessing
  <2>3. /\ c \in 1..MaxChallenges /\ renewals[c] \in Nat /\ challenges[c].dest \in Destinations
        /\ Budgeted(c) \in Nat /\ Budgeted(c) <= Allow(renewals[c] + 2)
    BY OfChallenge, BudgetedBound
  <2>4. CASE ~Open(c)'
    <3>1. Budgeted(c)' = Allow(renewals'[c] + 2)
      BY <2>4 DEF Budgeted
    <3>2. renewals'[c] = renewals[c] \/ renewals'[c] = renewals[c] + 1
      BY <1>7, <2>3
    <3>3. Budgeted(c)' \in {Allow(renewals[c] + 2), Allow(renewals[c] + 1 + 2)}
      BY ONLY <3>1, <3>2, Zenon
    <3>4. Budgeted(c)' \in Nat /\ Budgeted(c) <= Budgeted(c)'
      BY <3>3, NoBudgetGoes
    <3> QED BY <1>1, <2>2, <3>4, NobodyGuesses
  <2>5. CASE Open(c)' /\ challenges[c].dest = d
    <3>1. c \in Pending(d)
      BY <2>1, <2>5 DEF Pending, Open
    <3>2. renewals'[c] = renewals[c] + 1
      BY <1>7, <2>3, <3>1
    <3>3. Budgeted(c)' = Allow(renewals[c] + 1 + 1) + 0
      BY <1>5, <1>6, <2>1, <2>5, <3>2 DEF Budgeted
    <3>4. Allow(renewals[c] + 1 + 1) = Allow(renewals[c] + 2) /\ Allow(renewals[c] + 2) \in Nat
      BY <2>3, RenewedAllow
    <3>5. Budgeted(c)' \in Nat /\ Budgeted(c) <= Budgeted(c)'
      <4>1. Budgeted(c)' = Allow(renewals[c] + 2)
        BY ONLY <3>3, <3>4
      <4> QED BY <4>1, NoBudgetGoes
    <3> QED BY <1>1, <2>2, <3>5, NobodyGuesses
  <2>6. CASE Open(c)' /\ challenges[c].dest # d
    <3>1. c \notin Pending(d)
      BY <2>6 DEF Pending
    <3>2. renewals'[c] = renewals[c]
      BY <1>7, <2>3, <3>1
    <3>3. verifyBudget'[challenges[c].dest] = verifyBudget[challenges[c].dest]
      BY <1>6, <2>3, <2>6
    <3>4. Budgeted(c)' = Budgeted(c)
      BY <2>1, <2>6, <3>2, <3>3, SMTT(30) DEF Budgeted
    <3>5. Budgeted(c)' \in Nat /\ Budgeted(c) <= Budgeted(c)'
      BY <3>4, NoBudgetGoes
    <3> QED BY <1>1, <2>2, <3>5, NobodyGuesses
  <2> QED BY <2>4, <2>5, <2>6
<1>10. \A c \in 1..Len(challenges') : challenges'[c].expires <= now' + CodeTtl
  BY <1>1, <1>4 DEF GuessInv
<1>11. \A q \in Logins : login'[q].pc = "wrong" => login'[q].row \in 1..Len(challenges')
  BY <1>2, <1>4 DEF GuessInv
<1> QED BY <1>1, <1>4, <1>8, <1>9, <1>10, <1>11 DEF GuessInv

\* The process starts again: budgets are gone, and so are the requests.
LEMMA RestartingGuesses ==
  ASSUME RowInv, GuessInv, OtpRestart
  PROVE  GuessInv'
<1>1. /\ verifyBudget' = [d \in Destinations |-> NoBucket]
      /\ login' = [r \in Logins |-> Idling]
      /\ renewals' = [c \in 1..MaxChallenges |-> renewals[c] + 1]
      /\ UNCHANGED <<challenges, wrong, now>>
  BY DEF OtpRestart
<1>2. NoBucket \in Times /\ NoBucket.start = 0 /\ NoBucket.count = 0
  BY DEF NoBucket, Times
<1>3. /\ renewals' \in [1..MaxChallenges -> Nat]
      /\ \A c \in 1..MaxChallenges : renewals'[c] = renewals[c] + 1
  BY <1>1 DEF GuessInv, BudgetsTyped
<1>4. BudgetsTyped'
  <2>1. now \in Nat /\ VerifyRule.limit \in Nat
    BY DEF RowInv, LoginsTyped
  <2> QED BY <1>1, <1>2, <1>3, <2>1 DEF GuessInv, BudgetsTyped
<1>5. \A r \in Logins : login'[r].pc = "idle"
  BY <1>1 DEF Idling
<1>6. ASSUME NEW c \in 1..Len(challenges)
      PROVE  GuessesHold(c)'
  <2>1. Guessing(c)' \subseteq Guessing(c)
    BY <1>5 DEF Guessing
  <2>2. /\ c \in 1..MaxChallenges /\ renewals[c] \in Nat /\ challenges[c].dest \in Destinations
        /\ Budgeted(c) \in Nat /\ Budgeted(c) <= Allow(renewals[c] + 2)
    BY OfChallenge, BudgetedBound
  <2>3. verifyBudget'[challenges[c].dest] = NoBucket /\ renewals'[c] = renewals[c] + 1
        /\ Open(c)' = Open(c)
    BY <1>1, <1>3, <2>2 DEF Open
  <2>4. Budgeted(c)' \in {Allow(renewals[c] + 1 + 2), Allow(renewals[c] + 1 + 1) + 0}
    BY <1>1, <1>2, <2>3 DEF Budgeted
  <2>5. Allow(renewals[c] + 2) \in Nat /\ Allow(renewals[c] + 1 + 1) = Allow(renewals[c] + 2)
    BY <2>2, RenewedAllow
  <2>6. Budgeted(c)' \in {Allow(renewals[c] + 2), Allow(renewals[c] + 1 + 2)}
    BY ONLY <2>4, <2>5
  <2>7. Budgeted(c)' \in Nat /\ Budgeted(c) <= Budgeted(c)'
    BY <2>6, NoBudgetGoes
  <2> QED BY <1>1, <2>1, <2>7, NobodyGuesses
<1> QED BY <1>1, <1>4, <1>5, <1>6 DEF GuessInv

\* Every step keeps the bound.
LEMMA StepGuesses ==
  ASSUME RowInv, GuessInv, [OtpNext]_<<otpVars, now>>
  PROVE  GuessInv'
<1>1. now \in Nat /\ now <= now
  BY DEF RowInv, LoginsTyped
<1>2. ASSUME NEW r \in Logins, UNCHANGED <<challenges, verifyBudget, wrong, renewals, now>>,
             \A q \in Logins : q # r => login'[q] = login[q],
             login'[r].pc \notin {"read", "wrong"}
      PROVE  GuessInv'
  BY <1>1, <1>2, QuietStep
<1>3. ASSUME NEW r \in Logins, FindAccount(r)
      PROVE  GuessInv'
  <2>1. PICK step \in {"open", "insert"} : login' = [login EXCEPT ![r].pc = step]
    BY <1>3 DEF FindAccount
  <2>2. login'[r].pc = step /\ \A q \in Logins : q # r => login'[q] = login[q]
    BY <2>1, NextRequest, OneRequest DEF Inside, RowInv, LoginsTyped
  <2> QED BY <1>2, <1>3, <2>2 DEF FindAccount
<1>4. ASSUME NEW r \in Logins, CreateAccount(r)
      PROVE  GuessInv'
  <2>1. \/ login' = [login EXCEPT ![r].pc = "open"]
        \/ login' = [login EXCEPT ![r] = Idling]
    BY <1>4 DEF CreateAccount
  <2>2. login'[r].pc \in {"open", "idle"} /\ \A q \in Logins : q # r => login'[q] = login[q]
    <3>1. login \in [Logins -> Requests] /\ "open" \in Inside
      BY DEF RowInv, LoginsTyped, Inside
    <3>2. CASE login' = [login EXCEPT ![r].pc = "open"]
      BY <3>1, <3>2, NextRequest, OneRequest
    <3>3. CASE login' = [login EXCEPT ![r] = Idling]
      BY <3>1, <3>3, IdlingIsARequest, OneRequest DEF Idling
    <3> QED BY <2>1, <3>2, <3>3
  <2> QED BY <1>2, <1>4, <2>2 DEF CreateAccount
<1>5. ASSUME NEW r \in Logins, OpenSession(r) \/ LoginFails(r)
      PROVE  GuessInv'
  <2>1. login'[r].pc = "idle" /\ \A q \in Logins : q # r => login'[q] = login[q]
    BY <1>5 DEF OpenSession, LoginFails, Idling, RowInv, LoginsTyped
  <2> QED BY <1>2, <1>5, <2>1 DEF OpenSession, LoginFails
<1>6. CASE OtpTick
  <2>1. now' \in Nat /\ now <= now'
    BY <1>1, <1>6 DEF OtpTick, Tick
  <2> QED BY <1>6, <2>1, QuietStep DEF OtpTick, otpVars
<1>7. CASE UNCHANGED <<otpVars, now>>
  BY <1>1, <1>7, QuietStep DEF otpVars
<1>8. ASSUME NEW r \in Logins, Steps(r)
      PROVE  GuessInv'
  BY <1>3, <1>4, <1>5, <1>8, TakingGuesses, ReadingGuesses, CountingGuesses, BurningGuesses DEF Steps
<1> QED BY <1>6, <1>7, <1>8, StepsAreThese, SendingGuesses, RestartingGuesses

\* "The real brute-force defence is the short TTL plus the per-destination attempt
\* limit enforced in verifyOtp()" (auth.service.ts): for any number of requests in
\* flight, codes, destinations and restarts, the wrong codes compared with one
\* challenge fit in two budgets, one more for each time the budget was cleared, and
\* the requests that had taken theirs before the code was sent.
THEOREM GuessesAreBounded == OtpSpec => []GuessesBounded
<1>1. OtpInit /\ ClockInit => GuessInv
  <2> SUFFICES ASSUME OtpInit, ClockInit
               PROVE  GuessInv
    OBVIOUS
  <2>1. NoBucket \in Times /\ NoBucket.start = 0 /\ NoBucket.count = 0
    BY DEF NoBucket, Times
  <2>2. BudgetsTyped /\ now # 0
    BY <2>1 DEF OtpInit, ClockInit, BudgetsTyped
  <2>3. 1..Len(challenges) = {}
    BY EmptySeq DEF OtpInit
  <2> QED BY <2>2, <2>3 DEF OtpInit, GuessInv, Idling
<1>2. RowInv /\ GuessInv /\ [OtpNext]_<<otpVars, now>> => GuessInv'
  BY StepGuesses
<1>3. RowInv /\ GuessInv => GuessesBounded
  <2> SUFFICES ASSUME RowInv, GuessInv, NEW c \in 1..MaxChallenges
               PROVE  wrong[c] <= VerifyRule.limit * (2 + renewals[c]) + Cardinality(Logins)
    BY DEF GuessesBounded
  <2>1. /\ renewals[c] \in Nat /\ wrong[c] \in Nat /\ Cardinality(Logins) \in Nat
        /\ Cardinality(Guessing(c)) \in Nat
    BY GuessingIsFinite DEF GuessInv, BudgetsTyped
  <2>2. 2 + renewals[c] = renewals[c] + 2
    BY <2>1
  <2>3. VerifyRule.limit * (2 + renewals[c]) = Allow(renewals[c] + 2)
    BY <2>2 DEF Allow
  <2>4. Allow(renewals[c] + 2) \in Nat
    BY <2>1, AllowFacts
  <2>5. CASE c \in 1..Len(challenges)
    <3>1. wrong[c] + Cardinality(Guessing(c)) <= Budgeted(c) + Cardinality(Logins)
      BY <2>5 DEF GuessInv, GuessesHold
    <3>2. Budgeted(c) \in Nat /\ Budgeted(c) <= Allow(renewals[c] + 2)
      BY <2>5, BudgetedBound
    <3>3. wrong[c] <= Allow(renewals[c] + 2) + Cardinality(Logins)
      BY <2>1, <2>4, <3>1, <3>2
    <3> QED BY <2>3, <3>3
  <2>6. CASE c \notin 1..Len(challenges)
    <3>1. wrong[c] = 0
      BY <2>6 DEF GuessInv
    <3>2. wrong[c] <= Allow(renewals[c] + 2) + Cardinality(Logins)
      BY <2>1, <2>4, <3>1
    <3> QED BY <2>3, <3>2
  <2> QED BY <2>5, <2>6
<1> QED BY <1>1, <1>2, <1>3, AlwaysKnowsRows, PTL DEF OtpSpec


-----------------------------------------------------------------------------
(***************************************************************************)
(* Sessions                                                                *)
(***************************************************************************)

HIDE OtpAssumption
HIDE LoginsAssumption
USE SessionsAssumption, FreeIsNoRefresh

-----------------------------------------------------------------------------
(* Types.                                                                  *)

SessionsTyped ==
    SessionsTypeOK /\ now \in Nat

\* One more at x, and everybody else as before.
LEMMA OneMore ==
  ASSUME NEW S, NEW f \in [S -> Nat], NEW x
  PROVE  [f EXCEPT ![x] = @ + 1] \in [S -> Nat]
<1>1. \A y \in S : f[y] + 1 \in Nat
  OBVIOUS
<1> QED BY <1>1

\* Another value at x, of the same type if x has one.
LEMMA Replaced ==
  ASSUME NEW S, NEW T, NEW f \in [S -> T], NEW x, NEW v, x \in S => v \in T
  PROVE  [f EXCEPT ![x] = v] \in [S -> T]
OBVIOUS

\* A row, and the row revoked.
Rows == [state : {"absent", "live", "revoked"}, expires : Nat]

\* Revoking a row leaves a row.
LEMMA RevokedRow ==
  ASSUME NEW row \in Rows
  PROVE  [row EXCEPT !.state = "revoked"] \in Rows
BY DEF Rows

\* Each operation on rows, requests and tickets keeps every variable in its type.
LEMMA StepTypes ==
  ASSUME SessionsTyped, [SessionsNext]_<<sessionVars, now>>
  PROVE  SessionsTyped'
<1> USE DEF SessionsTyped, SessionsTypeOK
<1>1. NewSession \in [state : {"absent", "live", "revoked"}, expires : Nat]
  BY DEF NewSession
<1>2. ASSUME NEW s \in SessionIds, Login(s)
      PROVE  SessionsTyped'
  BY <1>1, <1>2 DEF Login
<1>3. ASSUME NEW s \in SessionIds, Logout(s)
      PROVE  SessionsTyped'
  BY <1>3, SMTT(30) DEF Logout
<1>4. ASSUME NEW r \in Refreshes, NEW s \in SessionIds, LockForRefresh(r, s)
      PROVE  SessionsTyped'
  BY <1>4 DEF LockForRefresh
<1>5. ASSUME NEW r \in Refreshes, NEW s \in SessionIds, CreateHeir(r, s)
      PROVE  SessionsTyped'
  <2>1. heirs' \in [SessionIds -> Nat]
    BY <1>5, OneMore DEF CreateHeir
  <2>2. refresh' \in [Refreshes -> [pc : {"idle", "revoke", "create"},
                                    session : SessionIds \cup {None}]]
    BY <1>5 DEF CreateHeir
  <2>3. sessions' \in [SessionIds -> [state : {"absent", "live", "revoked"}, expires : Nat]]
    BY <1>1, <1>5 DEF CreateHeir
  <2> QED BY <1>5, <2>1, <2>2, <2>3 DEF CreateHeir
<1>6. ASSUME NEW r \in Refreshes, CommitRefresh(r)
      PROVE  SessionsTyped'
  <2>1. rowLock' \in [SessionIds -> Refreshes \cup {Free}]
    BY <1>6 DEF CommitRefresh
  <2>2. refresh' \in [Refreshes -> [pc : {"idle", "revoke", "create"},
                                    session : SessionIds \cup {None}]]
    BY <1>6 DEF CommitRefresh
  <2>3. sessions' \in [SessionIds -> Rows]
    <3> DEFINE s == refresh[r].session
    <3>1. sessions' = [sessions EXCEPT ![s] = [sessions[s] EXCEPT !.state = "revoked"]]
      BY <1>6 DEF CommitRefresh
    <3>2. s \in SessionIds => [sessions[s] EXCEPT !.state = "revoked"] \in Rows
      BY RevokedRow DEF Rows
    <3>3. sessions \in [SessionIds -> Rows]
      BY DEF Rows
    <3> HIDE DEF s
    <3> QED BY <3>1, <3>2, <3>3, Replaced
  <2> QED BY <1>6, <2>1, <2>2, <2>3 DEF CommitRefresh, Rows
<1>7. ASSUME NEW r \in Refreshes, RefreshFails(r)
      PROVE  SessionsTyped'
  BY <1>7 DEF RefreshFails
<1>8. ASSUME NEW t \in TicketIds, NEW s \in SessionIds, IssueStreamTicket(t, s)
      PROVE  SessionsTyped'
  BY <1>8 DEF IssueStreamTicket
<1>9. ASSUME NEW p \in Processes, NEW t \in TicketIds, RedeemStreamTicket(p, t)
      PROVE  SessionsTyped'
  <2>1. Purged(p) \in SUBSET TicketIds
    BY DEF Purged
  <2>2. purgeAt' \in [Processes -> Nat]
    BY <1>9 DEF RedeemStreamTicket
  <2>3. consumed' \in [Processes -> SUBSET TicketIds]
    <3>1. \/ consumed' = [consumed EXCEPT ![p] = Purged(p) \cup {t}]
          \/ consumed' = [consumed EXCEPT ![p] = Purged(p)]
      BY <1>9 DEF RedeemStreamTicket
    <3>2. Purged(p) \cup {t} \in SUBSET TicketIds
      BY <2>1
    <3> HIDE DEF SessionsTypeOK
    <3>3. consumed \in [Processes -> SUBSET TicketIds]
      BY DEF SessionsTypeOK
    <3> QED BY <2>1, <3>1, <3>2, <3>3, Replaced
  <2>4. redeemed' \in [Processes -> [TicketIds -> Nat]]
    <3>1. redeemed[p][t] + 1 \in Nat
      OBVIOUS
    <3>2. [redeemed[p] EXCEPT ![t] = redeemed[p][t] + 1] \in [TicketIds -> Nat]
      BY <3>1
    <3>3. [redeemed EXCEPT ![p][t] = @ + 1] \in [Processes -> [TicketIds -> Nat]]
      BY <3>2
    <3>4. redeemed' = redeemed \/ redeemed' = [redeemed EXCEPT ![p][t] = @ + 1]
      BY <1>9 DEF RedeemStreamTicket
    <3> QED BY <3>3, <3>4
  <2> QED BY <1>9, <2>2, <2>3, <2>4 DEF RedeemStreamTicket
<1>10. ASSUME NEW p \in Processes, ReplicaRestart(p)
       PROVE  SessionsTyped'
  BY <1>10 DEF ReplicaRestart
<1>11. CASE SessionsTick
  BY <1>11 DEF SessionsTick, Tick, sessionVars
<1>12. CASE UNCHANGED <<sessionVars, now>>
  BY <1>12 DEF sessionVars
<1> QED
  BY <1>2, <1>3, <1>4, <1>5, <1>6, <1>7, <1>8, <1>9, <1>10, <1>11, <1>12 DEF SessionsNext

LEMMA SessionsStart == SessionsInit /\ ClockInit => SessionsTyped
BY DEF SessionsInit, ClockInit, SessionsTyped, SessionsTypeOK, Absent, None

\* Every reachable state has rows, requests and tickets of the shapes the code
\* gives them.
LEMMA AlwaysTyped == SessionsSpec => []SessionsTyped
BY SessionsStart, StepTypes, PTL DEF SessionsSpec

\* The rows of user_sessions, the refreshes in flight, the tickets and what
\* each process remembers of them keep their types.
THEOREM SessionsTypes == SessionsSpec => []SessionsTypeOK
<1>1. SessionsTyped => SessionsTypeOK
  BY DEF SessionsTyped
<1> QED BY <1>1, AlwaysTyped, PTL

-----------------------------------------------------------------------------
(* One heir.  OneHeirPerSession is not inductive: what keeps a second heir  *)
(* away is the lock while a refresh looks at the row, and the revocation    *)
(* once it has let go of it.                                                *)

\* Between the SELECT and the COMMIT the row is the refresh's own, and live.
Holds(r) ==
    refresh[r].pc = "revoke" =>
        /\ refresh[r].session \in SessionIds
        /\ rowLock[refresh[r].session] = r
        /\ sessions[refresh[r].session].state = "live"

\* After the COMMIT the row is revoked, and nobody has been created for it yet.
Rotates(r) ==
    refresh[r].pc = "create" =>
        /\ refresh[r].session \in SessionIds
        /\ sessions[refresh[r].session].state = "revoked"
        /\ heirs[refresh[r].session] = 0

\* No two refreshes are past the COMMIT with one session.
Alone(r, q) ==
    refresh[r].pc = "create" /\ refresh[q].pc = "create" /\ r # q =>
        refresh[r].session # refresh[q].session

RotationInv ==
    /\ OneHeirPerSession
    /\ \A r \in Refreshes : Holds(r) /\ Rotates(r)
    /\ \A r, q \in Refreshes : Alone(r, q)

\* Only a revoked session has an heir.
LEMMA UnrevokedHasNoHeir ==
  ASSUME SessionsTyped, RotationInv, NEW s \in SessionIds, sessions[s].state # "revoked"
  PROVE  heirs[s] = 0
<1>1. heirs[s] \in Nat
  BY DEF SessionsTyped, SessionsTypeOK
<1>2. heirs[s] <= 1 /\ heirs[s] # 1
  BY DEF RotationInv, OneHeirPerSession
<1> QED BY <1>1, <1>2

\* A row that is being inserted is nobody's: it has no heir and no refresh.
LEMMA FreshIsNobodys ==
  ASSUME SessionsTyped, RotationInv, NEW s \in SessionIds, Fresh(s)
  PROVE  /\ heirs[s] = 0
         /\ \A r \in Refreshes : refresh[r].pc # "idle" => refresh[r].session # s
<1>1. sessions[s].state = "absent"
  BY DEF Fresh, Absent
<1>2. heirs[s] = 0
  BY <1>1, UnrevokedHasNoHeir
<1>3. ASSUME NEW r \in Refreshes, refresh[r].pc # "idle"
      PROVE  refresh[r].session # s
  <2>1. refresh[r].pc = "revoke" \/ refresh[r].pc = "create"
    BY <1>3 DEF SessionsTyped, SessionsTypeOK
  <2>2. sessions[refresh[r].session].state \in {"live", "revoked"}
    BY <2>1 DEF RotationInv, Holds, Rotates
  <2> QED BY <1>1, <2>2
<1> QED BY <1>2, <1>3

\* The COMMIT of a refresh hands its session over to the creation.
LEMMA CommitRotates ==
  ASSUME SessionsTyped, RotationInv, NEW r \in Refreshes, CommitRefresh(r)
  PROVE  RotationInv'
<1> DEFINE s == refresh[r].session
<1>1. /\ s \in SessionIds
      /\ rowLock[s] = r
      /\ sessions[s].state = "live"
      /\ heirs[s] = 0
  <2>1. /\ s \in SessionIds
        /\ rowLock[s] = r
        /\ sessions[s].state = "live"
    BY DEF RotationInv, Holds, CommitRefresh
  <2>2. heirs[s] = 0
    BY <2>1, UnrevokedHasNoHeir
  <2> QED BY <2>1, <2>2
<1>2. /\ sessions' = [sessions EXCEPT ![s].state = "revoked"]
      /\ rowLock' = [rowLock EXCEPT ![s] = Free]
      /\ refresh' = [refresh EXCEPT ![r].pc = "create"]
      /\ heirs' = heirs
  BY <1>1 DEF CommitRefresh
<1>3. OneHeirPerSession'
  BY <1>1, <1>2 DEF RotationInv, OneHeirPerSession, SessionsTyped, SessionsTypeOK
<1>4. ASSUME NEW q \in Refreshes
      PROVE  (Holds(q) /\ Rotates(q))'
  <2>1. CASE q = r
    BY <1>1, <1>2, <2>1 DEF Holds, Rotates, SessionsTyped, SessionsTypeOK
  <2>2. CASE q # r
    <3>1. refresh'[q] = refresh[q]
      BY <1>2, <2>2 DEF SessionsTyped, SessionsTypeOK
    <3>2. refresh[q].pc = "revoke" => refresh[q].session # s
      BY <1>1, <2>2 DEF RotationInv, Holds
    <3>3. refresh[q].pc = "create" => refresh[q].session # s
      BY <1>1 DEF RotationInv, Rotates
    <3> QED BY <1>2, <3>1, <3>2, <3>3 DEF RotationInv, Holds, Rotates, SessionsTyped, SessionsTypeOK
  <2> QED BY <2>1, <2>2
<1>5. ASSUME NEW q \in Refreshes, NEW z \in Refreshes
      PROVE  Alone(q, z)'
  <2>1. \A y \in Refreshes : refresh[y].pc = "create" => refresh[y].session # s
    BY <1>1 DEF RotationInv, Rotates
  <2>2. \A y \in Refreshes : y # r => refresh'[y] = refresh[y]
    BY <1>2 DEF SessionsTyped, SessionsTypeOK
  <2>3. refresh'[r].session = s
    BY <1>2 DEF SessionsTyped, SessionsTypeOK
  <2> QED BY <2>1, <2>2, <2>3 DEF RotationInv, Alone
<1> QED BY <1>3, <1>4, <1>5 DEF RotationInv

\* The heir is the only one: nobody else is creating one for that session.
LEMMA CreationRotates ==
  ASSUME SessionsTyped, RotationInv, NEW r \in Refreshes, NEW n \in SessionIds, CreateHeir(r, n)
  PROVE  RotationInv'
<1> DEFINE s == refresh[r].session
<1>1. /\ s \in SessionIds
      /\ sessions[s].state = "revoked"
      /\ heirs[s] = 0
  BY DEF RotationInv, Rotates, CreateHeir
<1>2. /\ heirs[n] = 0
      /\ \A q \in Refreshes : refresh[q].pc # "idle" => refresh[q].session # n
      /\ s # n
  BY FreshIsNobodys DEF CreateHeir
<1>3. /\ sessions' = [sessions EXCEPT ![n] = NewSession]
      /\ heirs' = [heirs EXCEPT ![s] = @ + 1]
      /\ refresh' = [refresh EXCEPT ![r] = [pc |-> "idle", session |-> None]]
      /\ rowLock' = rowLock
  BY DEF CreateHeir
<1>4. OneHeirPerSession'
  BY <1>1, <1>2, <1>3 DEF RotationInv, OneHeirPerSession, SessionsTyped, SessionsTypeOK
<1>5. ASSUME NEW q \in Refreshes
      PROVE  (Holds(q) /\ Rotates(q))'
  <2>1. CASE q = r
    BY <1>3, <2>1 DEF Holds, Rotates, SessionsTyped, SessionsTypeOK
  <2>2. CASE q # r
    <3>1. refresh'[q] = refresh[q]
      BY <1>3, <2>2 DEF SessionsTyped, SessionsTypeOK
    <3>2. refresh[q].pc = "create" => refresh[q].session # s
      BY <2>2 DEF RotationInv, Alone, CreateHeir
    <3> QED BY <1>2, <1>3, <3>1, <3>2 DEF RotationInv, Holds, Rotates, SessionsTyped, SessionsTypeOK
  <2> QED BY <2>1, <2>2
<1>6. ASSUME NEW q \in Refreshes, NEW z \in Refreshes
      PROVE  Alone(q, z)'
  BY <1>3 DEF RotationInv, Alone, SessionsTyped, SessionsTypeOK
<1> QED BY <1>4, <1>5, <1>6 DEF RotationInv

\* Each step keeps the lock and the revocation between a session and a second heir.
LEMMA StepRotates ==
  ASSUME SessionsTyped, RotationInv, [SessionsNext]_<<sessionVars, now>>
  PROVE  RotationInv'
<1> USE DEF SessionsTyped, SessionsTypeOK
<1>1. ASSUME NEW s \in SessionIds, Login(s)
      PROVE  RotationInv'
  <2>1. /\ heirs[s] = 0
        /\ \A r \in Refreshes : refresh[r].pc # "idle" => refresh[r].session # s
    BY <1>1, FreshIsNobodys DEF Login
  <2> QED
    BY <1>1, <2>1 DEF Login, RotationInv, OneHeirPerSession, Holds, Rotates, Alone
<1>2. ASSUME NEW s \in SessionIds, Logout(s)
      PROVE  RotationInv'
  <2>1. \A r \in Refreshes : refresh[r].pc = "revoke" => refresh[r].session # s
    BY <1>2 DEF Logout, RotationInv, Holds
  <2> QED
    BY <1>2, <2>1 DEF Logout, RotationInv, OneHeirPerSession, Holds, Rotates, Alone
<1>3. ASSUME NEW r \in Refreshes, NEW s \in SessionIds, LockForRefresh(r, s)
      PROVE  RotationInv'
  <2>1. \A q \in Refreshes : refresh[q].pc = "revoke" => refresh[q].session # s
    BY <1>3 DEF LockForRefresh, RotationInv, Holds
  <2> QED
    BY <1>3, <2>1 DEF LockForRefresh, Live, RotationInv, OneHeirPerSession, Holds, Rotates, Alone
<1>4. ASSUME NEW r \in Refreshes, RefreshFails(r)
      PROVE  RotationInv'
  BY <1>4 DEF RefreshFails, RotationInv, OneHeirPerSession, Holds, Rotates, Alone
<1>5. ASSUME UNCHANGED <<sessions, rowLock, refresh, heirs>>
      PROVE  RotationInv'
  BY <1>5 DEF RotationInv, OneHeirPerSession, Holds, Rotates, Alone
<1> QED
  BY <1>1, <1>2, <1>3, <1>4, <1>5, CommitRotates, CreationRotates
  DEF SessionsNext, IssueStreamTicket, RedeemStreamTicket, ReplicaRestart, SessionsTick, sessionVars

\* "Lock the row so two concurrent refreshes cannot both rotate": for any number
\* of refreshes, logins, logouts and failures in any order, refreshToken rotates
\* a session into at most one other, and only once it is revoked itself.
THEOREM OneHeir == SessionsSpec => []OneHeirPerSession
<1>1. SessionsInit => RotationInv
  BY DEF SessionsInit, RotationInv, OneHeirPerSession, Holds, Rotates, Alone, Absent
<1>2. SessionsTyped /\ RotationInv /\ [SessionsNext]_<<sessionVars, now>> => RotationInv'
  BY StepRotates
<1>3. RotationInv => OneHeirPerSession
  BY DEF RotationInv
<1> QED BY <1>1, <1>2, <1>3, AlwaysTyped, PTL DEF SessionsSpec

-----------------------------------------------------------------------------
(* One stream for a ticket.  What has been redeemed is remembered until it *)
(* could not be redeemed any more, whenever the memory is purged.          *)

\* A ticket that opened a stream is remembered, or over; and it was issued.
Remembered(p, t) ==
    /\ redeemed[p][t] <= 1
    /\ redeemed[p][t] = 1 => /\ tickets[t].session # None
                             /\ t \in consumed[p] \/ tickets[t].exp <= now

TicketInv ==
    \A p \in Processes, t \in TicketIds : Remembered(p, t)

\* The purge forgets only what is over.
LEMMA PurgeForgetsTheDead ==
  ASSUME SessionsTyped, NEW p \in Processes, NEW t \in consumed[p], t \notin Purged(p)
  PROVE  tickets[t].exp <= now
  BY DEF SessionsTyped, SessionsTypeOK, Purged

\* Redeeming a ticket, admitted or refused, keeps what the process must remember.
LEMMA RedeemRemembers ==
  ASSUME SessionsTyped, TicketInv, NEW p \in Processes, NEW t \in TicketIds, RedeemStreamTicket(p, t)
  PROVE  TicketInv'
<1> USE DEF SessionsTyped, SessionsTypeOK
<1>1. tickets' = tickets /\ now' = now /\ tickets[t].session # None
  BY DEF RedeemStreamTicket
<1>2. Purged(p) \subseteq consumed'[p]
  BY DEF RedeemStreamTicket
<1>3. ASSUME NEW q \in Processes, NEW k \in TicketIds
      PROVE  Remembered(q, k)'
  <2>1. CASE redeemed'[q][k] = redeemed[q][k]
    <3>1. k \in consumed[q] => k \in consumed'[q] \/ tickets[k].exp <= now
      <4>1. CASE q = p
        BY <1>2, <4>1, PurgeForgetsTheDead
      <4>2. CASE q # p
        BY <4>2 DEF RedeemStreamTicket
      <4> QED BY <4>1, <4>2
    <3> QED BY <1>1, <2>1, <3>1 DEF TicketInv, Remembered
  <2>2. CASE redeemed'[q][k] # redeemed[q][k]
    <3>1. /\ q = p /\ k = t
          /\ now < tickets[t].exp
          /\ t \notin Purged(p)
          /\ consumed' = [consumed EXCEPT ![p] = Purged(p) \cup {t}]
          /\ redeemed' = [redeemed EXCEPT ![p][t] = @ + 1]
      BY <2>2 DEF RedeemStreamTicket
    <3>2. redeemed[p][t] = 0
      <4>1. t \notin consumed[p]
        BY <3>1, PurgeForgetsTheDead
      <4>2. ~(tickets[t].exp <= now)
        BY <3>1
      <4>3. redeemed[p][t] <= 1 /\ redeemed[p][t] # 1
        BY <4>1, <4>2 DEF TicketInv, Remembered
      <4>4. redeemed[p][t] \in Nat
        OBVIOUS
      <4> HIDE DEF SessionsTyped, SessionsTypeOK
      <4> QED BY <4>3, <4>4
    <3>3. t \in consumed'[p] /\ redeemed'[p][t] = 1
      BY <3>1, <3>2
    <3> QED BY <1>1, <3>1, <3>3 DEF Remembered
  <2> QED BY <2>1, <2>2
<1> QED BY <1>3 DEF TicketInv

\* So does every other step.
LEMMA StepRemembers ==
  ASSUME SessionsTyped, TicketInv, [SessionsNext]_<<sessionVars, now>>
  PROVE  TicketInv'
<1> USE DEF SessionsTyped, SessionsTypeOK
<1>1. ASSUME NEW t \in TicketIds, NEW s \in SessionIds, IssueStreamTicket(t, s)
      PROVE  TicketInv'
  BY <1>1 DEF IssueStreamTicket, TicketInv, Remembered
<1>2. ASSUME NEW p \in Processes, ReplicaRestart(p)
      PROVE  TicketInv'
  BY <1>2 DEF ReplicaRestart, TicketInv, Remembered
<1>3. CASE SessionsTick
  BY <1>3 DEF SessionsTick, Tick, sessionVars, TicketInv, Remembered
<1>4. ASSUME UNCHANGED <<tickets, consumed, redeemed, now>>
      PROVE  TicketInv'
  BY <1>4 DEF TicketInv, Remembered
<1> QED
  BY <1>1, <1>2, <1>3, <1>4, RedeemRemembers
  DEF SessionsNext, Login, Logout, LockForRefresh, CreateHeir, CommitRefresh, RefreshFails, sessionVars

\* redeemStreamTicket opens one stream for a ticket in one boot of one process,
\* however often the memory of redeemed tickets is purged.
THEOREM OneStreamPerBoot == SessionsSpec => []TicketOncePerBoot
<1>1. SessionsInit => TicketInv
  BY DEF SessionsInit, TicketInv, Remembered
<1>2. SessionsTyped /\ TicketInv /\ [SessionsNext]_<<sessionVars, now>> => TicketInv'
  BY StepRemembers
<1>3. TicketInv => TicketOncePerBoot
  BY DEF TicketInv, Remembered, TicketOncePerBoot
<1> QED BY <1>1, <1>2, <1>3, AlwaysTyped, PTL DEF SessionsSpec

HIDE SessionsAssumption
HIDE FreeIsNoRefresh

-----------------------------------------------------------------------------
(***************************************************************************)
(* AreaLock                                                                *)
(***************************************************************************)

USE AreaAssumption

LockDocs == [enabled : BOOLEAN, password : Passwords \cup {NoPassword}, epoch : Nat, change : Nat]
LockPuts == [doc : LockDocs, fact : Nat]

-----------------------------------------------------------------------------
(* Versions of the record, in the order of its changes.                    *)

\* y is a later version of the record than x, and of a later epoch.
Older(x, y) ==
    x.change < y.change /\ x.epoch < y.epoch

\* y is that version or a later one.
Upto(x, y) ==
    (x.change = y.change /\ x.epoch = y.epoch) \/ Older(x, y)

\* Versions are ordered.
LEMMA VersionsOrdered ==
  ASSUME NEW x, NEW y, NEW z,
         x.change \in Nat, x.epoch \in Nat, y.change \in Nat, y.epoch \in Nat,
         z.change \in Nat, z.epoch \in Nat
  PROVE  /\ Upto(x, y) /\ Upto(y, z) => Upto(x, z)
         /\ Upto(x, y) /\ Older(y, z) => Older(x, z)
         /\ Older(x, y) /\ Upto(y, z) => Older(x, z)
BY DEF Older, Upto

-----------------------------------------------------------------------------
(* The store: what is on disk, what is on its way and what is in memory    *)
(* are versions in that order.                                             *)

LockTyped ==
    /\ lock.mem \in LockDocs /\ lock.disk \in LockDocs
    /\ lock.loaded \in BOOLEAN
    /\ lock.puts \in Seq(LockPuts)
    /\ lock.acked \subseteq Nat
    /\ lock = [mem |-> lock.mem, loaded |-> lock.loaded, disk |-> lock.disk,
               puts |-> lock.puts, acked |-> lock.acked]
    /\ changes \in Nat
    /\ setting \subseteq Passwords
    /\ unlocking \in [Unlocks -> [given : Passwords \cup {NoPassword},
                                  stored : Passwords \cup {NoPassword}]]

\* A snapshot on its way: of a version after the one on disk, and up to memory's.
OnItsWay(i) ==
    /\ lock.puts[i].fact = lock.puts[i].doc.change
    /\ Older(lock.disk, lock.puts[i].doc)
    /\ Upto(lock.puts[i].doc, lock.mem)

StoreInv ==
    /\ LockTyped
    /\ lock.mem.change <= changes /\ lock.disk.change <= changes
    /\ \A i \in 1..Len(lock.puts) : OnItsWay(i)
    /\ \A i, j \in 1..Len(lock.puts) : i < j => Older(lock.puts[i].doc, lock.puts[j].doc)
    /\ lock.loaded => Upto(lock.disk, lock.mem)
    /\ ~lock.loaded => lock.puts = <<>> /\ \A u \in Unlocks : unlocking[u] = NoUnlock
    /\ \A c \in lock.acked : c <= lock.disk.change

\* A ticket signed under an acknowledged version is of one that disk has, or had.
AreaTicketInv ==
    \A t \in areaTickets :
        /\ t.change \in Nat /\ t.epoch \in Nat
        /\ t.solid => Upto(t, lock.disk)

AreaInv ==
    StoreInv /\ AreaTicketInv

\* A version saved is the newest, and the last on its way.
LEMMA SaveKeepsOrder ==
  ASSUME AreaInv, NEW doc \in LockDocs, lock.loaded,
         doc.change = changes + 1, doc.epoch = lock.mem.epoch + 1,
         lock' = Save(lock, doc, changes + 1), changes' = changes + 1,
         areaTickets' = areaTickets, unlocking' = unlocking,
         setting' \subseteq Passwords
  PROVE  AreaInv'
<1> DEFINE put == [doc |-> doc, fact |-> changes + 1]
           n == Len(lock.puts)
<1>1. /\ lock'.mem = doc
      /\ lock'.puts = Append(lock.puts, put)
      /\ lock'.disk = lock.disk /\ lock'.loaded = lock.loaded /\ lock'.acked = lock.acked
      /\ lock' = [mem |-> lock'.mem, loaded |-> lock'.loaded, disk |-> lock'.disk,
                  puts |-> lock'.puts, acked |-> lock'.acked]
  BY DEF Save, LockTyped, AreaInv, StoreInv
<1>2. put \in LockPuts
  BY DEF LockPuts, LockTyped, AreaInv, StoreInv
<1>3. /\ lock.mem.change \in Nat /\ lock.mem.epoch \in Nat
      /\ lock.disk.change \in Nat /\ lock.disk.epoch \in Nat
      /\ doc.change \in Nat /\ doc.epoch \in Nat /\ changes \in Nat
      /\ lock.mem.change <= changes /\ lock.disk.change <= changes
      /\ n \in Nat
  BY LenProperties DEF LockTyped, LockDocs, AreaInv, StoreInv
<1>4. Older(lock.mem, doc)
  BY <1>3 DEF Older
<1>5. Older(lock.disk, doc)
  BY <1>3, <1>4, VersionsOrdered DEF AreaInv, StoreInv
<1>6. \A i \in 1..n : Older(lock.puts[i].doc, doc)
  <2>1. ASSUME NEW i \in 1..n
        PROVE  Older(lock.puts[i].doc, doc)
    <3>1. lock.puts[i] \in LockPuts
      BY ElementOfSeq DEF AreaInv, StoreInv, LockTyped
    <3>2. lock.puts[i].doc.change \in Nat /\ lock.puts[i].doc.epoch \in Nat
      BY <3>1 DEF LockPuts, LockDocs
    <3>3. Upto(lock.puts[i].doc, lock.mem)
      BY DEF AreaInv, StoreInv, OnItsWay
    <3> QED BY <1>3, <1>4, <3>2, <3>3, VersionsOrdered
  <2> QED BY <2>1
<1>7. /\ lock'.puts \in Seq(LockPuts)
      /\ Len(lock'.puts) = n + 1
      /\ \A i \in 1..n : lock'.puts[i] = lock.puts[i]
      /\ lock'.puts[n + 1] = put
  <2>1. lock.puts \in Seq(LockPuts)
    BY DEF AreaInv, StoreInv, LockTyped
  <2> HIDE DEF put
  <2>2. /\ Append(lock.puts, put) \in Seq(LockPuts)
        /\ Len(Append(lock.puts, put)) = Len(lock.puts) + 1
        /\ \A i \in 1..Len(lock.puts) : Append(lock.puts, put)[i] = lock.puts[i]
        /\ Append(lock.puts, put)[Len(lock.puts) + 1] = put
    BY <1>2, <2>1, AppendProperties
  <2> QED BY <1>1, <2>2
<1>8. put.doc = doc /\ put.fact = doc.change
  OBVIOUS
<1>9. ASSUME NEW i \in 1..Len(lock'.puts)
      PROVE  OnItsWay(i)'
  <2>1. CASE i \in 1..n
    <3>1. OnItsWay(i)
      BY <2>1 DEF AreaInv, StoreInv
    <3> QED BY <1>1, <1>6, <1>7, <2>1, <3>1 DEF OnItsWay, Upto
  <2>2. CASE i = n + 1
    BY <1>1, <1>5, <1>7, <1>8, <2>2 DEF OnItsWay, Upto
  <2> HIDE DEF n
  <2> QED BY <1>3, <1>7, <2>1, <2>2
<1>10. ASSUME NEW i \in 1..Len(lock'.puts), NEW j \in 1..Len(lock'.puts), i < j
       PROVE  Older(lock'.puts[i].doc, lock'.puts[j].doc)
  <2>1. i \in 1..n /\ (j \in 1..n \/ j = n + 1)
    <3> HIDE DEF n
    <3> QED BY <1>3, <1>7, <1>10
  <2>2. CASE j \in 1..n
    BY <1>7, <1>10, <2>1, <2>2 DEF AreaInv, StoreInv
  <2>3. CASE j = n + 1
    BY <1>6, <1>7, <1>8, <2>1, <2>3, SMTT(30)
  <2> QED BY <2>1, <2>2, <2>3
<1>11. LockTyped'
  <2>1. lock'.mem \in LockDocs /\ lock'.disk \in LockDocs /\ lock'.loaded \in BOOLEAN
        /\ lock'.acked \subseteq Nat
    BY <1>1 DEF AreaInv, StoreInv, LockTyped
  <2>2. changes' \in Nat
    BY <1>3
  <2> QED BY <1>1, <1>7, <2>1, <2>2 DEF AreaInv, StoreInv, LockTyped
<1>12. AreaTicketInv'
  BY <1>1 DEF AreaInv, AreaTicketInv, Upto, Older
<1>13. /\ lock'.mem.change <= changes' /\ lock'.disk.change <= changes'
       /\ Upto(lock'.disk, lock'.mem)
       /\ lock'.loaded
       /\ \A c \in lock'.acked : c <= lock'.disk.change
  <2>1. lock'.mem.change <= changes' /\ lock'.disk.change <= changes'
    BY <1>1, <1>3, SMTT(30)
  <2>2. \A c \in lock.acked : c <= lock.disk.change
    BY DEF AreaInv, StoreInv
  <2>3. Upto(lock'.disk, lock'.mem)
    BY <1>1, <1>5 DEF Upto
  <2> QED BY <1>1, <2>1, <2>2, <2>3
<1> QED BY <1>9, <1>10, <1>11, <1>12, <1>13 DEF AreaInv, StoreInv

\* The first put lands, or is refused: the rest stays in order.
LEMMA SettlingKeepsOrder ==
  ASSUME AreaInv, LockSettles
  PROVE  AreaInv'
<1> DEFINE n == Len(lock.puts)
<1>0. lock.puts \in Seq(LockPuts) /\ n \in Nat /\ DOMAIN lock.puts = 1..n
  BY LenProperties DEF AreaInv, StoreInv, LockTyped
<1>1. 1 \in 1..n /\ lock' \in {Land(lock, 1), Refuse(lock, 1)}
  <2>1. PICK i \in Due(lock, TRUE) : lock' = Land(lock, i) \/ lock' = Refuse(lock, i)
    BY DEF LockSettles, Settles, Landings, Refusals
  <2>2. i = 1 /\ i \in 1..n
    BY <1>0, <2>1 DEF Due
  <2> QED BY <2>1, <2>2
<1>2. UNCHANGED <<setting, unlocking, areaTickets, changes>>
  BY DEF LockSettles
<1>3. /\ RemoveAt(lock.puts, 1) \in Seq(LockPuts)
      /\ Len(RemoveAt(lock.puts, 1)) = n - 1
      /\ \A k \in 1..(n - 1) :
            RemoveAt(lock.puts, 1)[k] = lock.puts[k + 1] /\ k + 1 \in 1..n
  <2>1. n >= 1
    BY <1>0, <1>1
  <2> QED BY <1>0, <2>1, FirstRemoved
<1>4. lock.puts[1] \in LockPuts /\ lock.puts[1].doc \in LockDocs /\ lock.puts[1].fact \in Nat
  <2>1. lock.puts[1] \in LockPuts
    BY <1>0, <1>1, ElementOfSeq
  <2> QED BY <2>1 DEF LockPuts
<1>5. lock.loaded
  <2>1. lock.puts # <<>>
    BY <1>1, EmptySeq
  <2> QED BY <2>1 DEF AreaInv, StoreInv
<1>6. /\ lock'.mem = lock.mem /\ lock'.loaded = lock.loaded
      /\ lock'.puts = RemoveAt(lock.puts, 1)
      /\ \/ lock'.disk = lock.disk /\ lock'.acked = lock.acked
         \/ lock'.disk = lock.puts[1].doc /\ lock'.acked = lock.acked \cup {lock.puts[1].fact}
      /\ lock' = [mem |-> lock'.mem, loaded |-> lock'.loaded, disk |-> lock'.disk,
                  puts |-> lock'.puts, acked |-> lock'.acked]
  <2>1. lock = [mem |-> lock.mem, loaded |-> lock.loaded, disk |-> lock.disk,
                puts |-> lock.puts, acked |-> lock.acked]
    BY DEF AreaInv, StoreInv, LockTyped
  <2> QED BY <1>1, <2>1 DEF Land, Refuse
<1>7. LockTyped'
  BY <1>2, <1>3, <1>4, <1>6 DEF AreaInv, StoreInv, LockTyped
<1>8. \A k \in 1..Len(lock'.puts) : lock'.puts[k] = lock.puts[k + 1] /\ k + 1 \in 1..n
  BY <1>3, <1>6
<1>9. ASSUME NEW i \in 1..Len(lock'.puts), NEW j \in 1..Len(lock'.puts), i < j
      PROVE  Older(lock'.puts[i].doc, lock'.puts[j].doc)
  <2>1. i + 1 < j + 1
    BY <1>0, <1>3, <1>6, <1>9
  <2>2. Older(lock.puts[i + 1].doc, lock.puts[j + 1].doc)
    BY <1>8, <2>1 DEF AreaInv, StoreInv
  <2> QED BY <1>8, <2>2
<1>10. Upto(lock.disk, lock'.disk) /\ Upto(lock'.disk, lock.mem)
  <2>1. OnItsWay(1) /\ Upto(lock.disk, lock.mem)
    BY <1>1, <1>5 DEF AreaInv, StoreInv
  <2> QED BY <1>6, <2>1 DEF OnItsWay, Upto
<1>11. ASSUME NEW k \in 1..Len(lock'.puts)
       PROVE  OnItsWay(k)'
  <2>1. OnItsWay(k + 1)
    BY <1>8 DEF AreaInv, StoreInv
  <2>2. Older(lock.puts[1].doc, lock.puts[k + 1].doc)
    <3>1. 1 < k + 1
      BY <1>0, <1>3, <1>6
    <3> QED BY <1>1, <1>8, <3>1 DEF AreaInv, StoreInv
  <2> QED BY <1>6, <1>8, <2>1, <2>2 DEF OnItsWay
<1>12. /\ lock.disk.change \in Nat /\ lock.disk.epoch \in Nat
       /\ lock'.disk.change \in Nat /\ lock'.disk.epoch \in Nat
       /\ lock.mem.change \in Nat /\ lock.mem.epoch \in Nat
       /\ changes \in Nat /\ lock.mem.change <= changes
  BY <1>7 DEF AreaInv, StoreInv, LockTyped, LockDocs
<1>13. lock'.disk.change <= changes /\ lock.disk.change <= lock'.disk.change
  BY <1>10, <1>12 DEF Upto, Older
<1>14. \A c \in lock'.acked : c <= lock'.disk.change
  <2>1. \A c \in lock.acked : c \in Nat /\ c <= lock.disk.change
    BY DEF AreaInv, StoreInv, LockTyped
  <2>2. \A c \in lock.acked : c <= lock'.disk.change
    BY <1>12, <1>13, <2>1
  <2>3. OnItsWay(1)
    BY <1>1 DEF AreaInv, StoreInv
  <2> QED BY <1>6, <1>12, <2>2, <2>3 DEF OnItsWay
<1>15. AreaTicketInv'
  <2>1. ASSUME NEW t \in areaTickets
        PROVE  t.change \in Nat /\ t.epoch \in Nat /\ (t.solid => Upto(t, lock'.disk))
    BY <1>10, <1>12, VersionsOrdered DEF AreaInv, AreaTicketInv
  <2> QED BY <1>2, <2>1 DEF AreaTicketInv
<1>16. StoreInv'
  BY <1>2, <1>5, <1>6, <1>7, <1>9, <1>10, <1>11, <1>12, <1>13, <1>14 DEF StoreInv
<1> QED BY <1>15, <1>16 DEF AreaInv

\* A ticket signed under an acknowledged version is of the version on disk.
LEMMA SignedUnderDisk ==
  ASSUME AreaInv, lock.loaded, NEW proved
  PROVE  /\ Ticket(proved).change \in Nat /\ Ticket(proved).epoch \in Nat
         /\ Ticket(proved).solid => Upto(Ticket(proved), lock.disk)
<1> USE DEF AreaInv, StoreInv
<1>1. /\ lock.disk.change \in Nat /\ lock.disk.epoch \in Nat
      /\ lock.mem.change \in Nat /\ lock.mem.epoch \in Nat
  BY DEF LockTyped, LockDocs
<1>2. lock.mem.change = 0 \/ lock.mem.change \in lock.acked
          => lock.mem.change = lock.disk.change /\ lock.mem.epoch = lock.disk.epoch
  BY <1>1 DEF Upto, Older
<1>3. /\ Ticket(proved).change = lock.mem.change
      /\ Ticket(proved).epoch = lock.mem.epoch
      /\ Ticket(proved).solid = (lock.mem.change = 0 \/ lock.mem.change \in lock.acked)
  BY DEF Ticket
<1> QED BY <1>1, <1>2, <1>3 DEF Upto

\* A step that hands out at most such tickets, and leaves the store alone.
LEMMA TicketsKeepOrder ==
  ASSUME AreaInv, lock' = lock, changes' = changes, setting' \subseteq Passwords,
         unlocking' \in [Unlocks -> [given : Passwords \cup {NoPassword},
                                     stored : Passwords \cup {NoPassword}]],
         lock.loaded \/ unlocking' = unlocking,
         \A t \in areaTickets' :
             t \in areaTickets \/ (lock.loaded /\ \E proved : t = Ticket(proved))
  PROVE  AreaInv'
<1>1. StoreInv'
  BY DEF AreaInv, StoreInv, LockTyped, OnItsWay, Upto, Older
<1>2. AreaTicketInv'
  BY SignedUnderDisk DEF AreaInv, AreaTicketInv, Upto, Older
<1> QED BY <1>1, <1>2 DEF AreaInv

\* The record disable() leaves is the next version of the one it found.
DisabledRecord(rec, change) ==
    LET off == [rec EXCEPT !.enabled = FALSE, !.epoch = @ + 1, !.change = change]
    IN  off \in LockDocs /\ off.epoch = rec.epoch + 1 /\ off.change = change

LEMMA DisabledIsNext ==
  ASSUME NEW rec \in LockDocs, NEW n \in Nat
  PROVE  DisabledRecord(rec, n + 1)
<1> DEFINE a == [rec EXCEPT !.enabled = FALSE]
           b == [a EXCEPT !.epoch = a.epoch + 1]
           c == [b EXCEPT !.change = n + 1]
<1>1. a \in LockDocs /\ a.epoch = rec.epoch
  BY DEF LockDocs
<1>2. b \in LockDocs /\ b.epoch = rec.epoch + 1
  <2> HIDE DEF a
  <2>1. a.epoch + 1 \in Nat
    BY <1>1 DEF LockDocs
  <2> QED BY <1>1, <2>1 DEF LockDocs
<1>3. c \in LockDocs /\ c.epoch = rec.epoch + 1 /\ c.change = n + 1
  <2> HIDE DEF b
  <2> QED BY <1>2 DEF LockDocs
<1>4. [rec EXCEPT !.enabled = FALSE, !.epoch = @ + 1, !.change = n + 1] = c
  BY DEF LockDocs
<1> HIDE DEF c
<1> QED BY <1>3, <1>4 DEF DisabledRecord

\* Every step keeps the versions in order.
LEMMA StepKeepsOrder ==
  ASSUME AreaInv, [AreaNext]_<<areaVars, now>>
  PROVE  AreaInv'
<1> USE DEF AreaInv
<1>1. CASE AreaLoad
  <2>1. /\ lock' = [lock EXCEPT !.mem = lock.disk, !.loaded = TRUE]
        /\ ~lock.loaded /\ lock.puts = <<>>
        /\ UNCHANGED <<setting, unlocking, areaTickets, changes>>
    BY <1>1 DEF AreaLoad, Load, StoreInv
  <2>2. /\ lock'.mem = lock.disk /\ lock'.disk = lock.disk /\ lock'.loaded = TRUE
        /\ lock'.puts = lock.puts /\ lock'.acked = lock.acked
        /\ lock' = [mem |-> lock'.mem, loaded |-> lock'.loaded, disk |-> lock'.disk,
                    puts |-> lock'.puts, acked |-> lock'.acked]
    BY <2>1 DEF StoreInv, LockTyped
  <2>3. Len(lock'.puts) = 0
    BY <2>1, <2>2, EmptySeq
  <2>4. LockTyped' /\ AreaTicketInv' /\ lock.disk.change <= changes
    BY <2>1, <2>2 DEF StoreInv, LockTyped, AreaTicketInv, Upto, Older
  <2>5. \A c \in lock'.acked : c <= lock'.disk.change
    BY <2>2 DEF StoreInv
  <2>6. Upto(lock'.disk, lock'.mem) /\ lock'.mem.change <= changes' /\ lock'.disk.change <= changes'
    BY <2>1, <2>2, <2>4 DEF Upto
  <2> QED BY <2>2, <2>3, <2>4, <2>5, <2>6 DEF StoreInv
<1>2. CASE AreaCrash
  <2>1. /\ lock' = [lock EXCEPT !.mem = NoLock, !.loaded = FALSE, !.puts = <<>>]
        /\ setting' = {}
        /\ unlocking' = [u \in Unlocks |-> NoUnlock]
        /\ UNCHANGED <<areaTickets, changes>>
    BY <1>2 DEF AreaCrash, Crash
  <2>2. /\ lock'.mem = NoLock /\ lock'.disk = lock.disk /\ lock'.loaded = FALSE
        /\ lock'.puts = <<>> /\ lock'.acked = lock.acked
        /\ lock' = [mem |-> lock'.mem, loaded |-> lock'.loaded, disk |-> lock'.disk,
                    puts |-> lock'.puts, acked |-> lock'.acked]
    BY <2>1 DEF StoreInv, LockTyped
  <2>3. Len(lock'.puts) = 0 /\ lock'.puts \in Seq(LockPuts)
    BY <2>2, EmptySeq
  <2>4. NoLock \in LockDocs /\ NoLock.change = 0
    BY DEF NoLock, LockDocs
  <2>5. NoUnlock \in [given : Passwords \cup {NoPassword}, stored : Passwords \cup {NoPassword}]
    BY DEF NoUnlock
  <2> QED BY <2>1, <2>2, <2>3, <2>4, <2>5 DEF StoreInv, LockTyped, AreaTicketInv
<1>3. ASSUME NEW w \in Passwords, PasswordHashed(w)
      PROVE  AreaInv'
  <2> DEFINE doc == [enabled |-> TRUE, password |-> w, epoch |-> NextEpoch(lock.mem),
                     change |-> changes + 1]
  <2>1. /\ lock.loaded /\ lock' = Save(lock, doc, changes + 1) /\ changes' = changes + 1
        /\ setting' \subseteq setting
        /\ UNCHANGED <<unlocking, areaTickets>>
    BY <1>3 DEF PasswordHashed
  <2>2. doc \in LockDocs /\ doc.epoch = lock.mem.epoch + 1 /\ doc.change = changes + 1
    BY DEF NextEpoch, LockDocs, StoreInv, LockTyped
  <2> HIDE DEF doc
  <2> QED BY <2>1, <2>2, SaveKeepsOrder DEF StoreInv, LockTyped
<1>4. CASE DisableArea
  <2> DEFINE doc == [lock.mem EXCEPT !.enabled = FALSE, !.epoch = @ + 1, !.change = changes + 1]
  <2>1. /\ lock.loaded /\ lock' = Save(lock, doc, changes + 1) /\ changes' = changes + 1
        /\ UNCHANGED <<setting, unlocking, areaTickets>>
    BY <1>4 DEF DisableArea
  <2>2. doc \in LockDocs /\ doc.epoch = lock.mem.epoch + 1 /\ doc.change = changes + 1
    <3>1. lock.mem \in LockDocs /\ changes \in Nat
      BY DEF StoreInv, LockTyped
    <3>2. DisabledRecord(lock.mem, changes + 1)
      BY <3>1, DisabledIsNext
    <3> QED BY <3>2 DEF DisabledRecord
  <2> HIDE DEF doc
  <2> QED BY <2>1, <2>2, SaveKeepsOrder DEF StoreInv, LockTyped
<1>5. CASE LockSettles
  BY <1>5, SettlingKeepsOrder
<1>6. ASSUME NEW w \in Passwords, SetPassword(w)
      PROVE  AreaInv'
  BY <1>6, TicketsKeepOrder DEF SetPassword, StoreInv, LockTyped
<1>7. ASSUME NEW u \in Unlocks, NEW w \in Passwords, Unlock(u, w)
      PROVE  AreaInv'
  <2>1. lock.mem.password \in Passwords \cup {NoPassword}
    BY DEF StoreInv, LockTyped, LockDocs
  <2>2. unlocking' \in [Unlocks -> [given : Passwords \cup {NoPassword},
                                    stored : Passwords \cup {NoPassword}]]
    BY <1>7, <2>1 DEF Unlock, StoreInv, LockTyped
  <2> QED BY <1>7, <2>2, TicketsKeepOrder DEF Unlock, StoreInv, LockTyped
<1>8. ASSUME NEW u \in Unlocks, UnlockHashed(u)
      PROVE  AreaInv'
  <2>1. lock.loaded
    BY <1>8 DEF UnlockHashed, StoreInv, LockTyped
  <2>2. NoUnlock \in [given : Passwords \cup {NoPassword}, stored : Passwords \cup {NoPassword}]
    BY DEF NoUnlock
  <2>3. unlocking' \in [Unlocks -> [given : Passwords \cup {NoPassword},
                                    stored : Passwords \cup {NoPassword}]]
    BY <1>8, <2>2 DEF UnlockHashed, StoreInv, LockTyped
  <2> QED BY <1>8, <2>1, <2>3, TicketsKeepOrder DEF UnlockHashed, StoreInv, LockTyped
<1>9. CASE AreaTick
  BY <1>9, TicketsKeepOrder DEF AreaTick, StoreInv, LockTyped
<1>10. CASE UNCHANGED <<areaVars, now>>
  BY <1>10, TicketsKeepOrder DEF areaVars, StoreInv, LockTyped
<1> QED BY <1>1, <1>2, <1>3, <1>4, <1>5, <1>6, <1>7, <1>8, <1>9, <1>10 DEF AreaNext

\* "password change kills old tickets by epoch mismatch" (area-lock.service.ts),
\* across any number of crashes, refused puts and half-finished hashes: once a later
\* change of the record has been acknowledged, verifyTicket never admits a ticket
\* signed under an acknowledged earlier one again.
THEOREM AckedChangeIsFinal == AreaSpec => []AckedChangeKillsTickets
<1>1. AreaInit => AreaInv
  <2>1. NoLock \in LockDocs /\ NoLock.change = 0 /\ NoLock.epoch = 0
    BY DEF NoLock, LockDocs
  <2>2. NoUnlock \in [given : Passwords \cup {NoPassword}, stored : Passwords \cup {NoPassword}]
    BY DEF NoUnlock
  <2> QED BY <2>1, <2>2, EmptySeq DEF AreaInit, NewStore, AreaInv, StoreInv, LockTyped, AreaTicketInv
<1>2. AreaInv /\ [AreaNext]_<<areaVars, now>> => AreaInv'
  BY StepKeepsOrder
<1>3. AreaInv => AckedChangeKillsTickets
  <2>1. ASSUME AreaInv, NEW t \in areaTickets, t.solid, NEW c \in lock.acked, c > t.change, Admits(t)
        PROVE  FALSE
    <3>1. /\ lock.disk.change \in Nat /\ lock.disk.epoch \in Nat
          /\ lock.mem.change \in Nat /\ lock.mem.epoch \in Nat
          /\ t.change \in Nat /\ t.epoch \in Nat /\ c \in Nat
      BY <2>1 DEF AreaInv, StoreInv, LockTyped, LockDocs, AreaTicketInv
    <3>2. c <= lock.disk.change /\ Upto(t, lock.disk)
      BY <2>1 DEF AreaInv, StoreInv, AreaTicketInv
    <3>3. Upto(lock.disk, lock.mem) /\ t.epoch = lock.mem.epoch
      BY <2>1 DEF AreaInv, StoreInv, Admits
    <3> QED BY <2>1, <3>1, <3>2, <3>3 DEF Upto, Older
  <2> QED BY <2>1 DEF AckedChangeKillsTickets
<1> QED BY <1>1, <1>2, <1>3, PTL DEF AreaSpec


-----------------------------------------------------------------------------
(***************************************************************************)
(* MachineTokens                                                           *)
(***************************************************************************)

HIDE AreaAssumption
USE MachineTokensAssumption

TokenRecords == [state : {"absent", "live", "revoked"}, born : Nat, exp : Nat]
TokenDocs == [TokenIds -> TokenRecords]
TokenFacts == {"answered", "revoked", "issued"} \X Nat

\* The documents in which t is dead, and those in which n is known.
Dead(t) == {d \in TokenDocs : d[t].state = "revoked"}
Present(n) == {d \in TokenDocs : d[n].state # "absent"}

\* Puts of such documents.
Of(D) == [doc : D, fact : TokenFacts]

\* What the store has said stays said: a revocation revokes, an issue issues.
TokensKept(st) ==
    /\ st \in StoreType(TokenDocs, TokenFacts)
    /\ Quiet(st)
    /\ \A t \in TokenIds : /\ Follows(st, <<"revoked", t>>, Dead(t), Of(Dead(t)))
                           /\ Follows(st, <<"issued", t>>, Present(t), Of(Present(t)))

Rounds == [pc : {"idle", "next", "revoke", "issue", "mint", "date"},
           listed : SUBSET TokenIds, todo : SUBSET TokenIds, cur : Nat, heir : Nat]

\* What a rotation in flight may rely on.  The token at hand is dead in memory
\* when its successor is made, so whoever hears that the successor is on disk
\* knows that the death is, although nobody asked whether its own put landed.
Underway(st, r) ==
    r.pc # "idle" =>
        /\ st.loaded
        /\ r.todo \subseteq r.listed
        /\ \A t \in r.listed : st.mem \in Present(t)
        /\ \A t \in r.listed \ r.todo : Agrees(st, Dead(t))
        /\ r.pc \in {"revoke", "issue", "mint"} => r.cur \in r.todo /\ st.mem \in Dead(r.cur)
        /\ r.pc = "mint" =>
              /\ r.heir \in TokenIds
              /\ st.mem \in Present(r.heir)
              /\ Follows(st, <<"issued", r.heir>>, Dead(r.cur), Of(Dead(r.cur)))
        /\ r.pc = "date" => r.todo = {}

RotationsKept(st, rounds) ==
    /\ rounds \in [Rotations -> Rounds]
    /\ \A o \in Rotations : Underway(st, rounds[o])

RetiredKept(st, dead) ==
    dead \subseteq TokenIds /\ \A t \in dead : Agrees(st, Dead(t))

TokensInv ==
    /\ TokensKept(tokens)
    /\ RotationsKept(tokens, rotation)
    /\ RetiredKept(tokens, retired)
    /\ now \in Nat

\* A store in use goes on: the dead stay dead, the known known.
GoesOn(st, st2) ==
    /\ st2.loaded
    /\ \A t \in TokenIds : /\ st.mem \in Dead(t) => st2.mem \in Dead(t)
                           /\ st.mem \in Present(t) => st2.mem \in Present(t)
                           /\ Agrees(st, Dead(t)) => Agrees(st2, Dead(t))
    /\ \A h, c \in TokenIds :
          (st.mem \in Present(h) /\ Follows(st, <<"issued", h>>, Dead(c), Of(Dead(c))))
              => Follows(st2, <<"issued", h>>, Dead(c), Of(Dead(c)))

\* A change a service makes of a document: nobody is revived or forgotten.
Changes(old, new, fact) ==
    \A t \in TokenIds :
        /\ old \in Dead(t) => new \in Dead(t)
        /\ old \in Present(t) => new \in Present(t)
        /\ fact = <<"revoked", t>> => new \in Dead(t)
        /\ fact = <<"issued", t>> => new \in Present(t) /\ old \notin Present(t)

\* A rotation that waits keeps what it relies on.
LEMMA WaitingRotation ==
  ASSUME NEW st, NEW st2, NEW r \in Rounds, Underway(st, r), st.loaded => GoesOn(st, st2)
  PROVE  Underway(st2, r)
<1> SUFFICES ASSUME r.pc # "idle"
             PROVE  Underway(st2, r)
  BY DEF Underway
<1>1. st.loaded /\ GoesOn(st, st2) /\ r.todo \subseteq TokenIds /\ r.listed \subseteq TokenIds
  BY DEF Underway, Rounds
<1>2. \A t \in r.listed : st2.mem \in Present(t)
  BY <1>1 DEF Underway, GoesOn
<1>3. \A t \in r.listed \ r.todo : Agrees(st2, Dead(t))
  BY <1>1 DEF Underway, GoesOn
<1>4. r.pc \in {"revoke", "issue", "mint"} => r.cur \in r.todo /\ st2.mem \in Dead(r.cur)
  BY <1>1 DEF Underway, GoesOn
<1>5. r.pc = "mint" =>
        /\ r.heir \in TokenIds
        /\ st2.mem \in Present(r.heir)
        /\ Follows(st2, <<"issued", r.heir>>, Dead(r.cur), Of(Dead(r.cur)))
  BY <1>1 DEF Underway, GoesOn
<1> QED BY <1>1, <1>2, <1>3, <1>4, <1>5 DEF Underway, GoesOn

\* An operation that saves.
LEMMA SavingTokens ==
  ASSUME NEW st, TokensKept(st), st.loaded,
         NEW doc \in TokenDocs, NEW fact \in TokenFacts, Changes(st.mem, doc, fact)
  PROVE  TokensKept(Save(st, doc, fact)) /\ GoesOn(st, Save(st, doc, fact))
<1> DEFINE st2 == Save(st, doc, fact)
<1> USE DEF Changes
<1>1. st \in StoreType(TokenDocs, TokenFacts) /\ Quiet(st)
  BY DEF TokensKept
<1>2. /\ st2 \in StoreType(TokenDocs, TokenFacts)
      /\ st2.mem = doc /\ st2.loaded
  <2>1. st2 \in StoreType(TokenDocs, TokenFacts) /\ SavedAs(st, st2, doc, fact)
    BY <1>1, SavedStore
  <2> QED BY <2>1 DEF SavedAs
<1>3. ASSUME NEW D, doc \in D
      PROVE  [doc |-> doc, fact |-> fact] \in Of(D)
  BY <1>3 DEF Of
<1>4. ASSUME NEW t \in TokenIds
      PROVE  /\ Follows(st2, <<"revoked", t>>, Dead(t), Of(Dead(t)))
             /\ Follows(st2, <<"issued", t>>, Present(t), Of(Present(t)))
  <2>1. /\ Follows(st, <<"revoked", t>>, Dead(t), Of(Dead(t)))
        /\ Follows(st, <<"issued", t>>, Present(t), Of(Present(t)))
    BY DEF TokensKept
  <2>2. st.mem \in Dead(t) => doc \in Dead(t) /\ [doc |-> doc, fact |-> fact] \in Of(Dead(t))
    BY <1>3
  <2>3. st.mem \in Present(t)
           => doc \in Present(t) /\ [doc |-> doc, fact |-> fact] \in Of(Present(t))
    BY <1>3
  <2>4. Follows(st2, <<"revoked", t>>, Dead(t), Of(Dead(t)))
    BY <1>1, <2>1, <2>2, SavingFollows
  <2>5. Follows(st2, <<"issued", t>>, Present(t), Of(Present(t)))
    BY <1>1, <2>1, <2>3, SavingFollows
  <2> QED BY <2>4, <2>5
<1>5. ASSUME NEW t \in TokenIds, Agrees(st, Dead(t))
      PROVE  Agrees(st2, Dead(t))
  BY <1>1, <1>5, SavingHolds
<1>6. ASSUME NEW h \in TokenIds, NEW c \in TokenIds, st.mem \in Present(h),
             Follows(st, <<"issued", h>>, Dead(c), Of(Dead(c)))
      PROVE  Follows(st2, <<"issued", h>>, Dead(c), Of(Dead(c)))
  <2>1. fact # <<"issued", h>>
    BY <1>6
  <2>2. st.mem \in Dead(c) => doc \in Dead(c) /\ [doc |-> doc, fact |-> fact] \in Of(Dead(c))
    BY <1>3
  <2> QED BY <1>1, <1>6, <2>1, <2>2, SavingFollows
<1>7. Quiet(st2)
  BY <1>2 DEF Quiet
<1> HIDE DEF st2
<1>8. TokensKept(st2)
  BY <1>2, <1>4, <1>7 DEF TokensKept
<1>9. GoesOn(st, st2)
  BY <1>2, <1>5, <1>6 DEF GoesOn
<1> QED BY <1>8, <1>9 DEF st2

\* A store that rests.
LEMMA RestingTokens ==
  ASSUME NEW st, TokensKept(st), NEW st2, Rests(st, st2, TokenDocs)
  PROVE  /\ TokensKept(st2)
         /\ \A t \in TokenIds : Agrees(st, Dead(t)) => Agrees(st2, Dead(t))
         /\ st2.loaded /\ st2.mem = st.mem => GoesOn(st, st2)
<1>1. st \in StoreType(TokenDocs, TokenFacts) /\ Quiet(st)
  BY DEF TokensKept
<1>2. \A D : \A p \in Of(D) : p.doc \in D
  BY DEF Of
<1>3. st2 \in StoreType(TokenDocs, TokenFacts) /\ Quiet(st2)
  BY <1>1, RestingType
<1>4. ASSUME NEW t \in TokenIds
      PROVE  /\ Follows(st2, <<"revoked", t>>, Dead(t), Of(Dead(t)))
             /\ Follows(st2, <<"issued", t>>, Present(t), Of(Present(t)))
  <2>1. /\ Follows(st, <<"revoked", t>>, Dead(t), Of(Dead(t)))
        /\ Follows(st, <<"issued", t>>, Present(t), Of(Present(t)))
    BY DEF TokensKept
  <2>2. Follows(st2, <<"revoked", t>>, Dead(t), Of(Dead(t)))
    BY <1>1, <1>2, <2>1, RestingFollows
  <2>3. Follows(st2, <<"issued", t>>, Present(t), Of(Present(t)))
    BY <1>1, <1>2, <2>1, RestingFollows
  <2> QED BY <2>2, <2>3
<1>5. ASSUME NEW t \in TokenIds, Agrees(st, Dead(t))
      PROVE  Agrees(st2, Dead(t))
  BY <1>1, <1>5, RestingHolds
<1>6. ASSUME NEW h, NEW c, Follows(st, <<"issued", h>>, Dead(c), Of(Dead(c)))
      PROVE  Follows(st2, <<"issued", h>>, Dead(c), Of(Dead(c)))
  BY <1>1, <1>2, <1>6, RestingFollows
<1>7. st2.loaded /\ st2.mem = st.mem => GoesOn(st, st2)
  BY <1>5, <1>6 DEF GoesOn
<1>8. TokensKept(st2)
  BY <1>3, <1>4 DEF TokensKept
<1> QED BY <1>5, <1>7, <1>8

\* A store that settles, or of which nobody hears.
LEMMA SettlingTokens ==
  ASSUME NEW st, TokensKept(st), NEW st2, st2 = st \/ st2 \in Settles(st, TRUE)
  PROVE  /\ TokensKept(st2)
         /\ \A t \in TokenIds : Agrees(st, Dead(t)) => Agrees(st2, Dead(t))
         /\ st.loaded => GoesOn(st, st2)
<1>1. Rests(st, st2, TokenDocs)
  BY DEF Rests
<1>2. SameInMemory(st, st2)
  <2>1. CASE st2 \in Settles(st, TRUE)
    <3>1. st \in StoreType(TokenDocs, TokenFacts)
      BY DEF TokensKept
    <3> QED BY <2>1, <3>1, SettlingType
  <2> QED BY <2>1 DEF SameInMemory
<1> QED BY <1>1, <1>2, RestingTokens DEF SameInMemory

\* A new token revokes nobody and brings nobody back.
LEMMA IssuedDocument ==
  ASSUME NEW d \in TokenDocs, NEW n \in TokenIds, d[n] = NoToken,
         NEW rec \in TokenRecords, rec.state = "live",
         NEW fact, fact \in {Answered, <<"issued", n>>}
  PROVE  /\ [d EXCEPT ![n] = rec] \in TokenDocs
         /\ fact \in TokenFacts
         /\ Changes(d, [d EXCEPT ![n] = rec], fact)
<1> DEFINE new == [d EXCEPT ![n] = rec]
<1>1. new \in TokenDocs /\ new[n].state = "live"
      /\ \A t \in TokenIds : t # n => new[t] = d[t]
  BY DEF TokenDocs
<1>2. d[n].state = "absent"
  BY DEF NoToken
<1> HIDE DEF new
<1>3. ASSUME NEW t \in TokenIds
      PROVE  /\ d \in Dead(t) => new \in Dead(t)
             /\ d \in Present(t) => new \in Present(t)
  BY <1>1, <1>2 DEF Dead, Present
<1>4. fact \in TokenFacts /\ (\A t \in TokenIds : fact # <<"revoked", t>>)
      /\ \A t \in TokenIds : fact = <<"issued", t>> => t = n
  BY DEF Answered, NoOne, TokenFacts, TokenIds
<1>5. new \in Present(n) /\ d \notin Present(n)
  BY <1>1, <1>2 DEF Present
<1>6. Changes(d, new, fact)
  BY <1>3, <1>4, <1>5 DEF Changes
<1> QED BY <1>1, <1>4, <1>6 DEF new

\* A revocation is one.
LEMMA RevokedDocument ==
  ASSUME NEW d \in TokenDocs, NEW c \in TokenIds
  PROVE  /\ [d EXCEPT ![c].state = "revoked"] \in TokenDocs
         /\ <<"revoked", c>> \in TokenFacts
         /\ Changes(d, [d EXCEPT ![c].state = "revoked"], <<"revoked", c>>)
         /\ [d EXCEPT ![c].state = "revoked"] \in Dead(c)
<1> DEFINE rec == [d[c] EXCEPT !.state = "revoked"]
           new == [d EXCEPT ![c] = rec]
<1>1. rec \in TokenRecords /\ rec.state = "revoked"
  BY DEF TokenDocs, TokenRecords
<1>2. new = [d EXCEPT ![c].state = "revoked"]
  OBVIOUS
<1> HIDE DEF rec
<1>3. new \in TokenDocs /\ new[c].state = "revoked"
      /\ \A t \in TokenIds : t # c => new[t] = d[t]
  BY <1>1 DEF TokenDocs
<1> HIDE DEF new
<1>4. ASSUME NEW t \in TokenIds
      PROVE  /\ d \in Dead(t) => new \in Dead(t)
             /\ d \in Present(t) => new \in Present(t)
  BY <1>3 DEF Dead, Present
<1>5. new \in Dead(c)
  BY <1>3 DEF Dead
<1>6. <<"revoked", c>> \in TokenFacts
  BY DEF TokenFacts, TokenIds
<1>7. Changes(d, new, <<"revoked", c>>)
  BY <1>4, <1>5 DEF Changes
<1> QED BY <1>2, <1>3, <1>5, <1>6, <1>7

\* The answer to a touch says nothing that is not known.
LEMMA SameDocument ==
  ASSUME NEW d \in TokenDocs
  PROVE  Answered \in TokenFacts /\ Changes(d, d, Answered)
<1>1. Answered \in TokenFacts /\ \A t : Answered # <<"revoked", t>> /\ Answered # <<"issued", t>>
  BY DEF Answered, NoOne, TokenFacts
<1> QED BY <1>1 DEF Changes

\* One rotation takes a step, the others keep what they rely on.
LEMMA OneRotationMoves ==
  ASSUME NEW st, NEW st2, NEW rounds, RotationsKept(st, rounds),
         NEW o \in Rotations, NEW r \in Rounds, Underway(st2, r),
         st.loaded => GoesOn(st, st2)
  PROVE  RotationsKept(st2, [rounds EXCEPT ![o] = r])
<1>1. ASSUME NEW q \in Rotations
      PROVE  Underway(st2, rounds[q])
  BY WaitingRotation DEF RotationsKept
<1> QED BY <1>1 DEF RotationsKept

\* No rotation moves.
LEMMA NoRotationMoves ==
  ASSUME NEW st, NEW st2, NEW rounds, RotationsKept(st, rounds),
         st.loaded => GoesOn(st, st2)
  PROVE  RotationsKept(st2, rounds)
BY WaitingRotation DEF RotationsKept

\* An idle rotation relies on nothing.
LEMMA RestingRotation ==
  ASSUME NEW st
  PROVE  Resting \in Rounds /\ Underway(st, Resting)
BY DEF Resting, Rounds, Underway, NoOne

\* What an operation that saves does to the store, whichever it is.
SavesAChange(st, st2) ==
    \E doc \in TokenDocs, fact \in TokenFacts :
        st.loaded /\ st2 = Save(st, doc, fact) /\ Changes(st.mem, doc, fact)

\* Issuing, for a request or for a rotation.
LEMMA IssuedSaves ==
  ASSUME TokensKept(tokens), tokens.loaded, now \in Nat,
         NEW n \in TokenIds, NewTokenId(n), NEW exp \in Nat,
         NEW fact \in {Answered, <<"issued", n>>}
  PROVE  /\ SavesAChange(tokens, Issued(n, exp, fact))
         /\ Issued(n, exp, fact).mem \in Present(n)
<1> DEFINE rec == [state |-> "live", born |-> now, exp |-> exp]
           doc == [tokens.mem EXCEPT ![n] = rec]
<1>1. tokens \in StoreType(TokenDocs, TokenFacts) /\ tokens.mem \in TokenDocs
  BY StoreFields DEF TokensKept
<1>2. tokens.mem[n] = NoToken
  BY DEF NewTokenId
<1>3. rec \in TokenRecords /\ rec.state = "live"
  BY DEF TokenRecords
<1>4. Issued(n, exp, fact) = Save(tokens, doc, fact)
  BY DEF Issued
<1> HIDE DEF rec
<1>5. doc \in TokenDocs /\ fact \in TokenFacts /\ Changes(tokens.mem, doc, fact)
  BY <1>1, <1>2, <1>3, IssuedDocument
<1>6. doc[n] = rec
  BY <1>1 DEF TokenDocs
<1> HIDE DEF doc
<1>7. SavedAs(tokens, Save(tokens, doc, fact), doc, fact)
  BY <1>1, <1>5, SavedStore
<1>8. Save(tokens, doc, fact).mem = doc
  BY <1>7 DEF SavedAs
<1>9. doc \in Present(n)
  BY <1>3, <1>5, <1>6 DEF Present
<1> QED BY <1>4, <1>5, <1>8, <1>9 DEF SavesAChange

\* Revoking, for a request or for a rotation.
LEMMA RevokedSaves ==
  ASSUME TokensKept(tokens), tokens.loaded, NEW t \in TokenIds
  PROVE  SavesAChange(tokens, Revoked(t)) /\ Revoked(t).mem \in Dead(t)
<1> DEFINE doc == [tokens.mem EXCEPT ![t].state = "revoked"]
<1>1. tokens \in StoreType(TokenDocs, TokenFacts) /\ tokens.mem \in TokenDocs
  BY StoreFields DEF TokensKept
<1>2. /\ doc \in TokenDocs
      /\ <<"revoked", t>> \in TokenFacts
      /\ Changes(tokens.mem, doc, <<"revoked", t>>)
      /\ doc \in Dead(t)
  BY <1>1, RevokedDocument
<1>3. Revoked(t) = Save(tokens, doc, <<"revoked", t>>)
  BY DEF Revoked
<1> HIDE DEF doc
<1>4. SavedAs(tokens, Save(tokens, doc, <<"revoked", t>>), doc, <<"revoked", t>>)
  BY <1>1, <1>2, SavedStore
<1>5. Save(tokens, doc, <<"revoked", t>>).mem = doc
  BY <1>4 DEF SavedAs
<1> QED BY <1>2, <1>3, <1>5 DEF SavesAChange

\* The touch of a verification.
LEMMA TouchSaves ==
  ASSUME TokensKept(tokens), tokens.loaded
  PROVE  SavesAChange(tokens, Save(tokens, tokens.mem, Answered))
<1>1. tokens \in StoreType(TokenDocs, TokenFacts) /\ tokens.mem \in TokenDocs
  BY StoreFields DEF TokensKept
<1> QED BY <1>1, SameDocument DEF SavesAChange

\* The store after a change.
LEMMA ChangedTokens ==
  ASSUME NEW st, NEW st2, TokensKept(st), SavesAChange(st, st2)
  PROVE  TokensKept(st2) /\ GoesOn(st, st2) /\ st.loaded
BY SavingTokens DEF SavesAChange

\* The invariant of a step that may move rotations, told of the states before and after.
TokensMove(st2, rounds2, dead2) ==
    TokensKept(st2) /\ RotationsKept(st2, rounds2) /\ RetiredKept(st2, dead2)

\* A change by a request.
LEMMA RequestMoves ==
  ASSUME TokensInv, NEW st2, SavesAChange(tokens, st2)
  PROVE  TokensMove(st2, rotation, retired)
<1>1. TokensKept(st2) /\ GoesOn(tokens, st2)
  BY ChangedTokens DEF TokensInv
<1>2. RotationsKept(st2, rotation)
  BY <1>1, NoRotationMoves DEF TokensInv
<1>3. RetiredKept(st2, retired)
  BY <1>1 DEF TokensInv, RetiredKept, GoesOn
<1> QED BY <1>1, <1>2, <1>3 DEF TokensMove

\* A step of a rotation, with a change or without one.
LEMMA RotationMoves ==
  ASSUME TokensInv, NEW st2, st2 = tokens \/ SavesAChange(tokens, st2), tokens.loaded,
         NEW o \in Rotations, NEW r \in Rounds, Underway(st2, r)
  PROVE  TokensMove(st2, [rotation EXCEPT ![o] = r], retired)
<1>1. TokensKept(st2) /\ GoesOn(tokens, st2)
  BY ChangedTokens, SettlingTokens DEF TokensInv
<1>2. RotationsKept(st2, [rotation EXCEPT ![o] = r])
  BY <1>1, OneRotationMoves DEF TokensInv
<1>3. RetiredKept(st2, retired)
  BY <1>1 DEF TokensInv, RetiredKept, GoesOn
<1> QED BY <1>1, <1>2, <1>3 DEF TokensMove

\* A successor is put behind the death of the one it succeeds: whoever hears of
\* the one may rely on the other.
LEMMA SuccessorFollows ==
  ASSUME TokensKept(tokens), tokens.loaded, now \in Nat,
         NEW n \in TokenIds, NewTokenId(n), NEW exp \in Nat,
         NEW c \in TokenIds, tokens.mem \in Dead(c)
  PROVE  Follows(Issued(n, exp, <<"issued", n>>), <<"issued", n>>, Dead(c), Of(Dead(c)))
<1> DEFINE rec == [state |-> "live", born |-> now, exp |-> exp]
           doc == [tokens.mem EXCEPT ![n] = rec]
           fact == <<"issued", n>>
<1>1. tokens \in StoreType(TokenDocs, TokenFacts) /\ tokens.mem \in TokenDocs
  BY StoreFields DEF TokensKept
<1>2. tokens.mem[n] = NoToken
  BY DEF NewTokenId
<1>3. rec \in TokenRecords /\ rec.state = "live"
  BY DEF TokenRecords
<1>4. Issued(n, exp, fact) = Save(tokens, doc, fact)
  BY DEF Issued
<1> HIDE DEF rec
<1>5. fact \in {Answered, <<"issued", n>>}
  OBVIOUS
<1> HIDE DEF fact
<1>6. doc \in TokenDocs /\ fact \in TokenFacts /\ Changes(tokens.mem, doc, fact)
  BY <1>1, <1>2, <1>3, <1>5, IssuedDocument
<1> HIDE DEF doc
<1>7. doc \in Dead(c) /\ [doc |-> doc, fact |-> fact] \in Of(Dead(c))
  BY <1>6 DEF Changes, Of
<1>8. Follows(tokens, fact, Present(n), Of(Present(n))) /\ tokens.mem \notin Present(n)
  BY <1>6 DEF TokensKept, Changes, fact
<1>9. Follows(tokens, fact, Dead(c), Of(Dead(c)))
  BY <1>8 DEF Follows
<1>10. Follows(Save(tokens, doc, fact), fact, Dead(c), Of(Dead(c)))
  BY <1>1, <1>6, <1>7, <1>9, SavingFollows
<1> QED BY <1>4, <1>10 DEF fact

\* rotateAll takes its list.
LEMMA ListingMoves ==
  ASSUME TokensInv, NEW o \in Rotations, RotateList(o)
  PROVE  TokensMove(tokens', rotation', retired')
<1> DEFINE r == [Resting EXCEPT !.pc = "next", !.listed = Unrevoked, !.todo = Unrevoked]
<1>1. tokens.loaded /\ tokens' = tokens /\ retired' = retired
      /\ rotation' = [rotation EXCEPT ![o] = r]
  BY DEF RotateList
<1>2. r \in Rounds /\ r.pc = "next" /\ r.listed = Unrevoked /\ r.todo = Unrevoked
  BY DEF Resting, Rounds, NoOne, Unrevoked
<1> HIDE DEF r
<1>3. tokens.mem \in TokenDocs
  BY StoreFields DEF TokensInv, TokensKept
<1>4. \A t \in Unrevoked : tokens.mem \in Present(t)
  BY <1>3 DEF Unrevoked, Present
<1>5. Underway(tokens, r)
  BY <1>1, <1>2, <1>4 DEF Underway
<1>6. TokensMove(tokens, [rotation EXCEPT ![o] = r], retired)
  BY <1>1, <1>2, <1>5, RotationMoves
<1> QED BY <1>1, <1>6

\* The loop comes to the next token: it is revoked, or somebody else did it.
LEMMA RevokingMoves ==
  ASSUME TokensInv, NEW o \in Rotations, RotateRevoke(o)
  PROVE  TokensMove(tokens', rotation', retired')
<1>1. rotation[o] \in Rounds /\ Underway(tokens, rotation[o]) /\ TokensKept(tokens)
      /\ rotation \in [Rotations -> Rounds]
  BY DEF TokensInv, RotationsKept
<1>2. PICK t \in rotation[o].todo :
        /\ rotation[o].pc = "next"
        /\ tokens.loaded
        /\ retired' = retired
        /\ \/ /\ t \in Unrevoked
              /\ tokens' = Revoked(t)
              /\ rotation' = [rotation EXCEPT ![o].pc = "revoke", ![o].cur = t]
           \/ /\ t \notin Unrevoked
              /\ rotation' = [rotation EXCEPT ![o].pc = "issue", ![o].cur = t]
              /\ tokens' = tokens
  BY DEF RotateRevoke, Room
<1>3. t \in TokenIds /\ t \in Nat
  BY <1>1, <1>2 DEF Rounds, TokenIds
<1>4. ASSUME NEW st2, NEW pc \in {"revoke", "issue"},
             st2 = tokens \/ SavesAChange(tokens, st2), st2.mem \in Dead(t)
      PROVE  TokensMove(st2, [rotation EXCEPT ![o].pc = pc, ![o].cur = t], retired)
  <2> DEFINE r == [rotation[o] EXCEPT !.pc = pc, !.cur = t]
  <2>1. GoesOn(tokens, st2)
    BY <1>1, <1>2, <1>4, ChangedTokens, SettlingTokens
  <2>2. Underway(st2, rotation[o])
    BY <1>1, <2>1, WaitingRotation
  <2>3. /\ r \in Rounds /\ r.pc = pc /\ r.cur = t
        /\ r.listed = rotation[o].listed /\ r.todo = rotation[o].todo
    BY <1>1, <1>3 DEF Rounds
  <2>4. [rotation EXCEPT ![o].pc = pc, ![o].cur = t] = [rotation EXCEPT ![o] = r]
    BY <1>1 DEF Rounds
  <2> HIDE DEF r
  <2>5. Underway(st2, r)
    BY <1>2, <1>4, <2>2, <2>3 DEF Underway
  <2>6. TokensMove(st2, [rotation EXCEPT ![o] = r], retired)
    BY <1>2, <1>4, <2>3, <2>5, RotationMoves
  <2> QED BY <2>4, <2>6
<1>5. CASE t \in Unrevoked
  <2>1. SavesAChange(tokens, Revoked(t)) /\ Revoked(t).mem \in Dead(t)
    BY <1>1, <1>2, <1>3, RevokedSaves
  <2>2. TokensMove(Revoked(t), [rotation EXCEPT ![o].pc = "revoke", ![o].cur = t], retired)
    BY <1>4, <2>1
  <2> QED BY <1>2, <1>5, <2>2
<1>6. CASE t \notin Unrevoked
  <2>1. tokens.mem \in Present(t)
    BY <1>1, <1>2 DEF Underway
  <2>2. tokens.mem \in Dead(t)
    BY <1>3, <1>6, <2>1 DEF Present, Dead, Unrevoked, TokenDocs, TokenRecords
  <2>3. TokensMove(tokens, [rotation EXCEPT ![o].pc = "issue", ![o].cur = t], retired)
    BY <1>4, <2>2
  <2> QED BY <1>2, <1>6, <2>3
<1> QED BY <1>5, <1>6

\* A successor is issued.
LEMMA IssuingMoves ==
  ASSUME TokensInv, NEW o \in Rotations, NEW n \in TokenIds, RotateIssue(o, n)
  PROVE  TokensMove(tokens', rotation', retired')
<1> DEFINE c == rotation[o].cur
           exp == HeirEnds(c)
           st2 == Issued(n, exp, <<"issued", n>>)
           r == [rotation[o] EXCEPT !.pc = "mint", !.heir = n]
<1>1. rotation[o] \in Rounds /\ Underway(tokens, rotation[o]) /\ TokensKept(tokens)
      /\ rotation \in [Rotations -> Rounds] /\ now \in Nat
  BY DEF TokensInv, RotationsKept
<1>2. /\ rotation[o].pc \in {"revoke", "issue"} /\ tokens.loaded /\ NewTokenId(n)
      /\ tokens' = st2 /\ retired' = retired
      /\ rotation' = [rotation EXCEPT ![o].pc = "mint", ![o].heir = n]
  BY DEF RotateIssue, Room
<1>3. rotation[o].cur \in rotation[o].todo /\ c \in TokenIds /\ tokens.mem \in Dead(c)
  BY <1>1, <1>2 DEF Underway, Rounds
<1>4. exp \in Nat
  <2>1. tokens.mem \in TokenDocs
    BY <1>3 DEF Dead
  <2>2. tokens.mem[c].exp \in Nat
    BY <1>3, <2>1 DEF TokenDocs, TokenRecords
  <2> HIDE DEF c
  <2> QED BY <1>1, <2>2 DEF HeirEnds
<1>5. n \in Nat
  BY DEF TokenIds
<1> HIDE DEF exp
<1>6. SavesAChange(tokens, st2) /\ st2.mem \in Present(n)
  BY <1>1, <1>2, <1>4, IssuedSaves
<1>7. Follows(st2, <<"issued", n>>, Dead(c), Of(Dead(c)))
  BY <1>1, <1>2, <1>3, <1>4, SuccessorFollows
<1> HIDE DEF st2
<1>8. GoesOn(tokens, st2)
  BY <1>1, <1>6, ChangedTokens
<1>9. Underway(st2, rotation[o]) /\ st2.mem \in Dead(c)
  <2>1. Underway(st2, rotation[o])
    BY <1>1, <1>8, WaitingRotation
  <2> QED BY <1>3, <1>8, <2>1 DEF GoesOn
<1>10. /\ r \in Rounds /\ r.pc = "mint" /\ r.cur = c /\ r.heir = n
       /\ r.listed = rotation[o].listed /\ r.todo = rotation[o].todo
  BY <1>1, <1>5 DEF Rounds
<1>11. rotation' = [rotation EXCEPT ![o] = r]
  BY <1>1, <1>2 DEF Rounds
<1> HIDE DEF r
<1>12. Underway(st2, r)
  BY <1>2, <1>3, <1>6, <1>7, <1>9, <1>10 DEF Underway
<1>13. TokensMove(st2, [rotation EXCEPT ![o] = r], retired)
  BY <1>2, <1>6, <1>10, <1>12, RotationMoves
<1> QED BY <1>2, <1>11, <1>13

\* The successor is on disk, and so is the death of the one it succeeds.
LEMMA MintingMoves ==
  ASSUME TokensInv, NEW o \in Rotations, RotateMinted(o)
  PROVE  TokensMove(tokens', rotation', retired')
<1> DEFINE c == rotation[o].cur
           r == [rotation[o] EXCEPT !.pc = "next", !.todo = rotation[o].todo \ {c}]
<1>1. rotation[o] \in Rounds /\ Underway(tokens, rotation[o])
      /\ rotation \in [Rotations -> Rounds]
  BY DEF TokensInv, RotationsKept
<1>2. /\ rotation[o].pc = "mint" /\ <<"issued", rotation[o].heir>> \in tokens.acked
      /\ tokens' = tokens /\ retired' = retired
      /\ rotation' = [rotation EXCEPT ![o].pc = "next", ![o].todo = rotation[o].todo \ {c}]
  BY DEF RotateMinted
<1>3. tokens.loaded /\ Follows(tokens, <<"issued", rotation[o].heir>>, Dead(c), Of(Dead(c)))
  BY <1>1, <1>2 DEF Underway
<1>4. Agrees(tokens, Dead(c))
  <2>1. \A p \in Of(Dead(c)) : p.doc \in Dead(c)
    BY DEF Of
  <2> QED BY <1>2, <1>3, <2>1, AckedHolds
<1>5. /\ r \in Rounds /\ r.pc = "next"
      /\ r.listed = rotation[o].listed /\ r.todo = rotation[o].todo \ {c}
  BY <1>1 DEF Rounds
<1>6. rotation' = [rotation EXCEPT ![o] = r]
  BY <1>1, <1>2 DEF Rounds
<1> HIDE DEF r
<1>7. Underway(tokens, r)
  BY <1>1, <1>2, <1>4, <1>5 DEF Underway
<1>8. TokensMove(tokens, [rotation EXCEPT ![o] = r], retired)
  BY <1>3, <1>5, <1>7, RotationMoves
<1> QED BY <1>2, <1>6, <1>8

\* The loop is over.
LEMMA DatingMoves ==
  ASSUME TokensInv, NEW o \in Rotations, RotateDate(o)
  PROVE  TokensMove(tokens', rotation', retired')
<1> DEFINE r == [rotation[o] EXCEPT !.pc = "date"]
<1>1. rotation[o] \in Rounds /\ Underway(tokens, rotation[o])
      /\ rotation \in [Rotations -> Rounds]
  BY DEF TokensInv, RotationsKept
<1>2. /\ rotation[o].pc = "next" /\ rotation[o].todo = {}
      /\ tokens' = tokens /\ retired' = retired
      /\ rotation' = [rotation EXCEPT ![o].pc = "date"]
  BY DEF RotateDate
<1>3. /\ r \in Rounds /\ r.pc = "date"
      /\ r.listed = rotation[o].listed /\ r.todo = rotation[o].todo
  BY <1>1 DEF Rounds
<1>4. rotation' = [rotation EXCEPT ![o] = r]
  BY <1>1, <1>2 DEF Rounds
<1> HIDE DEF r
<1>5. Underway(tokens, r) /\ tokens.loaded
  BY <1>1, <1>2, <1>3 DEF Underway
<1>6. TokensMove(tokens, [rotation EXCEPT ![o] = r], retired)
  BY <1>3, <1>5, RotationMoves
<1> QED BY <1>2, <1>4, <1>6

\* A rotation ends, with an error or with an answer.
LEMMA EndingMoves ==
  ASSUME TokensInv, NEW o \in Rotations, RotateFails(o) \/ RotateAnswer(o)
  PROVE  TokensMove(tokens', rotation', retired')
<1>1. rotation[o] \in Rounds /\ Underway(tokens, rotation[o])
      /\ rotation \in [Rotations -> Rounds]
  BY DEF TokensInv, RotationsKept
<1>2. /\ rotation[o].pc # "idle" /\ tokens' = tokens
      /\ rotation' = [rotation EXCEPT ![o] = Resting]
      /\ \/ retired' = retired
         \/ rotation[o].pc = "date" /\ retired' = retired \cup rotation[o].listed
  BY DEF RotateFails, RotateAnswer
<1>3. TokensMove(tokens, rotation', retired)
  <2>1. tokens.loaded
    BY <1>1, <1>2 DEF Underway
  <2> QED BY <1>2, <2>1, RestingRotation, RotationMoves
<1>4. RetiredKept(tokens, retired')
  <2>1. CASE retired' = retired
    BY <1>3, <2>1 DEF TokensMove
  <2>2. CASE rotation[o].pc = "date" /\ retired' = retired \cup rotation[o].listed
    <3>1. \A t \in rotation[o].listed : Agrees(tokens, Dead(t))
      BY <1>1, <2>2 DEF Underway
    <3>2. rotation[o].listed \subseteq TokenIds
      BY <1>1 DEF Rounds
    <3> QED BY <2>2, <3>1, <3>2 DEF TokensInv, RetiredKept
  <2> QED BY <1>2, <2>1, <2>2
<1> QED BY <1>2, <1>3, <1>4 DEF TokensMove

\* Nobody's step: the store settles, loads or goes down with the process.
LEMMA StoreMoves ==
  ASSUME TokensInv, InOrder = TRUE, TokensLoad \/ TokensSettle \/ TokensCrash
  PROVE  TokensMove(tokens', rotation', retired')
<1>1. CASE TokensLoad
  <2>1. ~tokens.loaded /\ tokens' = Load(tokens) /\ rotation' = rotation /\ retired' = retired
    BY <1>1 DEF TokensLoad
  <2>2. Rests(tokens, tokens', TokenDocs)
    BY <2>1 DEF Rests
  <2>3. TokensKept(tokens') /\ \A t \in TokenIds : Agrees(tokens, Dead(t)) => Agrees(tokens', Dead(t))
    BY <2>2, RestingTokens DEF TokensInv
  <2>4. RotationsKept(tokens', rotation)
    BY <2>1, NoRotationMoves DEF TokensInv
  <2>5. RetiredKept(tokens', retired)
    BY <2>3 DEF TokensInv, RetiredKept
  <2> QED BY <2>1, <2>3, <2>4, <2>5 DEF TokensMove
<1>2. CASE TokensSettle
  <2>1. /\ tokens' = tokens \/ tokens' \in Settles(tokens, TRUE)
        /\ rotation' = rotation /\ retired' = retired
    BY <1>2 DEF TokensSettle
  <2>2. /\ TokensKept(tokens')
        /\ \A t \in TokenIds : Agrees(tokens, Dead(t)) => Agrees(tokens', Dead(t))
        /\ tokens.loaded => GoesOn(tokens, tokens')
    BY <2>1, SettlingTokens DEF TokensInv
  <2>3. RotationsKept(tokens', rotation)
    BY <2>2, NoRotationMoves DEF TokensInv
  <2>4. RetiredKept(tokens', retired)
    BY <2>2 DEF TokensInv, RetiredKept
  <2> QED BY <2>1, <2>2, <2>3, <2>4 DEF TokensMove
<1>3. CASE TokensCrash
  <2>1. /\ tokens' = Crash(tokens, NoTokens) /\ retired' = retired
        /\ rotation' = [o \in Rotations |-> Resting]
    BY <1>3 DEF TokensCrash
  <2>2. NoTokens \in TokenDocs
    BY DEF NoTokens, NoToken, TokenDocs, TokenRecords
  <2>3. Rests(tokens, tokens', TokenDocs)
    BY <2>1, <2>2 DEF Rests
  <2>4. TokensKept(tokens') /\ \A t \in TokenIds : Agrees(tokens, Dead(t)) => Agrees(tokens', Dead(t))
    BY <2>3, RestingTokens DEF TokensInv
  <2>5. RotationsKept(tokens', rotation')
    BY <2>1, RestingRotation DEF RotationsKept
  <2>6. RetiredKept(tokens', retired)
    BY <2>4 DEF TokensInv, RetiredKept
  <2> QED BY <2>1, <2>4, <2>5, <2>6 DEF TokensMove
<1> QED BY <1>1, <1>2, <1>3

\* Every step keeps what the tokens' store has said.
LEMMA TokensStep ==
  ASSUME TokensInv, InOrder = TRUE, [TokensNext]_<<tokenVars, now>>
  PROVE  TokensInv'
<1>1. now' \in Nat
  <2>1. CASE TokensTick
    BY <2>1 DEF TokensTick, Tick, TokensInv
  <2>2. CASE ~TokensTick
    BY <2>2 DEF TokensInv, TokensNext, TokensLoad, TokensSettle, TokensCrash, IssueToken,
                VerifyToken, RevokeToken, RotateList, RotateRevoke, RotateMinted, RotateFails,
                RotateDate, RotateAnswer, RotateIssue
  <2> QED BY <2>1, <2>2
<1>2. TokensMove(tokens', rotation', retired')
  <2>1. CASE TokensLoad \/ TokensSettle \/ TokensCrash
    BY <2>1, StoreMoves
  <2>2. CASE TokensTick \/ UNCHANGED <<tokenVars, now>>
    <3>1. tokens' = tokens /\ rotation' = rotation /\ retired' = retired
      BY <2>2 DEF TokensTick, tokenVars
    <3> QED BY <3>1 DEF TokensMove, TokensInv
  <2>3. ASSUME NEW t \in TokenIds, IssueToken(t)
        PROVE  TokensMove(tokens', rotation', retired')
    <3>1. PICK exp \in {0, now} : tokens' = Issued(t, exp, Answered)
      BY <2>3 DEF IssueToken
    <3>2. tokens.loaded /\ NewTokenId(t) /\ exp \in Nat /\ now \in Nat
          /\ rotation' = rotation /\ retired' = retired
      BY <2>3 DEF IssueToken, Room, TokensInv
    <3>3. SavesAChange(tokens, tokens')
      BY <3>1, <3>2, IssuedSaves DEF TokensInv
    <3> QED BY <3>2, <3>3, RequestMoves
  <2>4. ASSUME NEW t \in TokenIds, VerifyToken(t)
        PROVE  TokensMove(tokens', rotation', retired')
    <3>1. tokens' = Save(tokens, tokens.mem, Answered) /\ tokens.loaded
          /\ rotation' = rotation /\ retired' = retired
      BY <2>4 DEF VerifyToken, Room
    <3>2. SavesAChange(tokens, tokens')
      BY <3>1, TouchSaves DEF TokensInv
    <3> QED BY <3>1, <3>2, RequestMoves
  <2>5. ASSUME NEW t \in TokenIds, RevokeToken(t)
        PROVE  TokensMove(tokens', rotation', retired')
    <3>1. tokens' = Revoked(t) /\ tokens.loaded /\ rotation' = rotation /\ retired' = retired
      BY <2>5 DEF RevokeToken, Room
    <3>2. SavesAChange(tokens, tokens')
      BY <3>1, RevokedSaves DEF TokensInv
    <3> QED BY <3>1, <3>2, RequestMoves
  <2>6. ASSUME NEW o \in Rotations, NEW n \in TokenIds, RotateIssue(o, n)
        PROVE  TokensMove(tokens', rotation', retired')
    BY <2>6, IssuingMoves
  <2>7. ASSUME NEW o \in Rotations,
               \/ RotateList(o) \/ RotateRevoke(o) \/ RotateMinted(o)
               \/ RotateFails(o) \/ RotateDate(o) \/ RotateAnswer(o)
        PROVE  TokensMove(tokens', rotation', retired')
    BY <2>7, ListingMoves, RevokingMoves, MintingMoves, DatingMoves, EndingMoves
  <2> QED BY <2>1, <2>2, <2>3, <2>4, <2>5, <2>6, <2>7 DEF TokensNext
<1> QED BY <1>1, <1>2
    DEF TokensInv, TokensMove, TokensKept, RotationsKept, RetiredKept, Underway, Quiet,
        Follows, Agrees

\* Every token a rotation that has answered found in use is dead in every document
\* of the store, and so is every token whose revocation was answered: no boot lets
\* one in again, whatever puts were refused and whatever went on meanwhile.  Over
\* files, that is with puts that land in order (rotation.service.ts rotateAll).
THEOREM TheRotatedStayDead ==
  ASSUME InOrder = TRUE
  PROVE  TokensSpec => []RotatedStaysDead
<1>1. TokensInit /\ ClockInit => TokensInv
  <2> SUFFICES ASSUME TokensInit, ClockInit
               PROVE  TokensInv
    OBVIOUS
  <2>1. tokens = NewStore(NoTokens) /\ rotation = [o \in Rotations |-> Resting] /\ retired = {}
    BY DEF TokensInit
  <2>2. NoTokens \in TokenDocs
    BY DEF NoTokens, NoToken, TokenDocs, TokenRecords
  <2>3. TokensKept(tokens)
    <3>1. NewStore(NoTokens) \in StoreType(TokenDocs, TokenFacts) /\ Quiet(NewStore(NoTokens))
      BY <2>2, NewStoreType
    <3>2. \A fact, D, P : Follows(NewStore(NoTokens), fact, D, P)
      BY NewKeeps
    <3> QED BY <2>1, <3>1, <3>2 DEF TokensKept
  <2>4. RotationsKept(tokens, rotation)
    BY <2>1, RestingRotation DEF RotationsKept
  <2>5. RetiredKept(tokens, retired) /\ now \in Nat
    BY <2>1 DEF RetiredKept, ClockInit
  <2> QED BY <2>3, <2>4, <2>5 DEF TokensInv
<1>2. TokensInv /\ [TokensNext]_<<tokenVars, now>> => TokensInv'
  BY TokensStep
<1>3. TokensInv => RotatedStaysDead
  <2> SUFFICES ASSUME TokensInv, NEW t \in TokenIds, tokens.loaded,
                      t \in retired \/ <<"revoked", t>> \in tokens.acked
               PROVE  tokens.mem[t].state = "revoked"
    BY DEF RotatedStaysDead, Verifies
  <2>1. tokens.mem \in Dead(t)
    BY DEF TokensInv, TokensKept, RetiredKept, Follows, Agrees
  <2> QED BY <2>1 DEF Dead
<1> QED BY <1>1, <1>2, <1>3, PTL DEF TokensSpec

-----------------------------------------------------------------------------
(* Types, and the report, whatever the order in which puts land.           *)

RoundTyped(r) ==
    /\ r \in Rounds
    /\ r.todo \subseteq r.listed
    /\ r.pc \in {"revoke", "issue", "mint"} => r.cur \in TokenIds

TokensTyped ==
    /\ tokens \in StoreType(TokenDocs, TokenFacts)
    /\ epochs \in StoreType(0..MaxClock, Rotations)
    /\ rotation \in [Rotations -> Rounds]
    /\ \A o \in Rotations : RoundTyped(rotation[o])
    /\ retired \subseteq TokenIds
    /\ now \in 1..MaxClock

\* A change of the tokens is a store of tokens again.
LEMMA ChangedType ==
  ASSUME NEW st \in StoreType(TokenDocs, TokenFacts),
         NEW doc \in TokenDocs, NEW fact \in TokenFacts
  PROVE  Save(st, doc, fact) \in StoreType(TokenDocs, TokenFacts)
BY SavedStore

\* A token issued.
LEMMA IssuedType ==
  ASSUME TokensTyped, NEW n \in TokenIds, NewTokenId(n), NEW exp \in Nat,
         NEW fact \in {Answered, <<"issued", n>>}
  PROVE  Issued(n, exp, fact) \in StoreType(TokenDocs, TokenFacts)
<1> DEFINE rec == [state |-> "live", born |-> now, exp |-> exp]
           doc == [tokens.mem EXCEPT ![n] = rec]
<1>1. tokens \in StoreType(TokenDocs, TokenFacts) /\ tokens.mem \in TokenDocs
  BY StoreFields DEF TokensTyped
<1>2. tokens.mem[n] = NoToken
  BY DEF NewTokenId
<1>3. rec \in TokenRecords /\ rec.state = "live"
  BY DEF TokenRecords, TokensTyped
<1>4. Issued(n, exp, fact) = Save(tokens, doc, fact)
  BY DEF Issued
<1> HIDE DEF rec
<1>5. doc \in TokenDocs /\ fact \in TokenFacts
  BY <1>1, <1>2, <1>3, IssuedDocument
<1> HIDE DEF doc
<1> QED BY <1>1, <1>4, <1>5, ChangedType

\* A token revoked.
LEMMA RevokedType ==
  ASSUME TokensTyped, NEW t \in TokenIds
  PROVE  Revoked(t) \in StoreType(TokenDocs, TokenFacts)
<1>1. tokens \in StoreType(TokenDocs, TokenFacts) /\ tokens.mem \in TokenDocs
  BY StoreFields DEF TokensTyped
<1>2. [tokens.mem EXCEPT ![t].state = "revoked"] \in TokenDocs /\ <<"revoked", t>> \in TokenFacts
  BY <1>1, RevokedDocument
<1> QED BY <1>1, <1>2, ChangedType DEF Revoked

\* What a step may make of the tokens.
LEMMA TokensStayTyped ==
  ASSUME TokensTyped, [TokensNext]_<<tokenVars, now>>
  PROVE  tokens' \in StoreType(TokenDocs, TokenFacts)
<1>0. tokens \in StoreType(TokenDocs, TokenFacts) /\ now \in Nat
  BY DEF TokensTyped
<1>1. CASE tokens' = tokens
  BY <1>0, <1>1
<1>2. CASE TokensLoad
  BY <1>0, <1>2, LoadedStore DEF TokensLoad
<1>3. CASE TokensSettle
  BY <1>0, <1>3, SettlingType DEF TokensSettle
<1>4. CASE TokensCrash
  <2>1. NoTokens \in TokenDocs
    BY DEF NoTokens, NoToken, TokenDocs, TokenRecords
  <2> QED BY <1>0, <1>4, <2>1, CrashedStore DEF TokensCrash
<1>5. ASSUME NEW t \in TokenIds, IssueToken(t)
      PROVE  tokens' \in StoreType(TokenDocs, TokenFacts)
  BY <1>0, <1>5, IssuedType DEF IssueToken
<1>6. ASSUME NEW t \in TokenIds, VerifyToken(t)
      PROVE  tokens' \in StoreType(TokenDocs, TokenFacts)
  <2>1. tokens.mem \in TokenDocs
    BY <1>0, StoreFields
  <2>2. Answered \in TokenFacts
    BY DEF Answered, NoOne, TokenFacts
  <2> QED BY <1>0, <1>6, <2>1, <2>2, ChangedType DEF VerifyToken
<1>7. ASSUME NEW t \in TokenIds, RevokeToken(t)
      PROVE  tokens' \in StoreType(TokenDocs, TokenFacts)
  BY <1>7, RevokedType DEF RevokeToken
<1>8. ASSUME NEW o \in Rotations, RotateRevoke(o)
      PROVE  tokens' \in StoreType(TokenDocs, TokenFacts)
  BY <1>1, <1>8, RevokedType DEF RotateRevoke, Unrevoked
<1>9. ASSUME NEW o \in Rotations, NEW n \in TokenIds, RotateIssue(o, n)
      PROVE  tokens' \in StoreType(TokenDocs, TokenFacts)
  <2>1. HeirEnds(rotation[o].cur) \in Nat
    <3>1. tokens.mem \in TokenDocs /\ rotation[o].cur \in TokenIds
      BY <1>0, <1>9, StoreFields DEF TokensTyped, RoundTyped, RotateIssue
    <3>2. tokens.mem[rotation[o].cur].exp \in Nat
      BY <3>1 DEF TokenDocs, TokenRecords
    <3> QED BY <1>0, <3>2 DEF HeirEnds
  <2> QED BY <1>9, <2>1, IssuedType DEF RotateIssue
<1> QED
  BY <1>1, <1>2, <1>3, <1>4, <1>5, <1>6, <1>7, <1>8, <1>9
     DEF TokensNext, TokensTick, tokenVars, RotateList, RotateMinted, RotateFails, RotateDate,
         RotateAnswer

\* What a step may make of a rotation.
LEMMA RoundsStayTyped ==
  ASSUME TokensTyped, [TokensNext]_<<tokenVars, now>>
  PROVE  /\ rotation' \in [Rotations -> Rounds]
         /\ \A o \in Rotations : RoundTyped(rotation'[o])
         /\ retired' \subseteq TokenIds
<1>0. /\ rotation \in [Rotations -> Rounds] /\ retired \subseteq TokenIds
      /\ \A o \in Rotations : RoundTyped(rotation[o])
  BY DEF TokensTyped
<1>1. CASE rotation' = rotation /\ retired' = retired
  BY <1>0, <1>1
<1>2. RoundTyped(Resting)
  BY DEF RoundTyped, Rounds, Resting, NoOne
<1>3. CASE rotation' = [o \in Rotations |-> Resting] /\ retired' = retired
  BY <1>0, <1>2, <1>3 DEF RoundTyped
<1>4. ASSUME NEW o \in Rotations, NEW r, RoundTyped(r), rotation' = [rotation EXCEPT ![o] = r],
             retired' \subseteq TokenIds
      PROVE  /\ rotation' \in [Rotations -> Rounds]
             /\ \A q \in Rotations : RoundTyped(rotation'[q])
             /\ retired' \subseteq TokenIds
  BY <1>0, <1>4 DEF RoundTyped
<1>5. ASSUME NEW o \in Rotations,
             \/ RotateList(o) \/ RotateRevoke(o) \/ RotateMinted(o)
             \/ RotateFails(o) \/ RotateDate(o) \/ RotateAnswer(o)
             \/ \E n \in TokenIds : RotateIssue(o, n)
      PROVE  /\ retired' \subseteq TokenIds
             /\ \E r : RoundTyped(r) /\ rotation' = [rotation EXCEPT ![o] = r]
  <2>1. rotation[o] \in Rounds /\ RoundTyped(rotation[o]) /\ rotation[o].listed \subseteq TokenIds
        /\ rotation[o].todo \subseteq TokenIds
    BY <1>0 DEF Rounds
  <2>2. retired' \subseteq TokenIds
    BY <1>0, <1>5, <2>1 DEF RotateList, RotateRevoke, RotateMinted, RotateFails, RotateDate,
                            RotateAnswer, RotateIssue
  <2>3. CASE RotateList(o)
    <3> DEFINE r == [Resting EXCEPT !.pc = "next", !.listed = Unrevoked, !.todo = Unrevoked]
    <3>1. RoundTyped(r)
      BY DEF RoundTyped, Resting, Rounds, NoOne, Unrevoked
    <3>2. rotation' = [rotation EXCEPT ![o] = r]
      BY <2>3 DEF RotateList
    <3> QED BY <2>2, <3>1, <3>2
  <2>4. CASE RotateRevoke(o)
    <3>1. PICK t \in rotation[o].todo, pc \in {"revoke", "issue"} :
             rotation' = [rotation EXCEPT ![o].pc = pc, ![o].cur = t]
      BY <2>4 DEF RotateRevoke
    <3> DEFINE r == [rotation[o] EXCEPT !.pc = pc, !.cur = t]
    <3>2. t \in TokenIds /\ t \in Nat
      BY <2>1 DEF TokenIds
    <3>3. RoundTyped(r)
      BY <2>1, <3>2 DEF RoundTyped, Rounds
    <3>4. rotation' = [rotation EXCEPT ![o] = r]
      BY <1>0, <3>1 DEF Rounds
    <3> QED BY <2>2, <3>3, <3>4
  <2>5. CASE RotateMinted(o)
    <3> DEFINE r == [rotation[o] EXCEPT !.pc = "next", !.todo = rotation[o].todo \ {rotation[o].cur}]
    <3>1. RoundTyped(r)
      BY <2>1 DEF RoundTyped, Rounds
    <3>2. rotation' = [rotation EXCEPT ![o] = r]
      BY <1>0, <2>5 DEF RotateMinted, Rounds
    <3> QED BY <2>2, <3>1, <3>2
  <2>6. CASE RotateDate(o)
    <3> DEFINE r == [rotation[o] EXCEPT !.pc = "date"]
    <3>1. RoundTyped(r)
      BY <2>1 DEF RoundTyped, Rounds
    <3>2. rotation' = [rotation EXCEPT ![o] = r]
      BY <1>0, <2>6 DEF RotateDate, Rounds
    <3> QED BY <2>2, <3>1, <3>2
  <2>7. CASE RotateFails(o) \/ RotateAnswer(o)
    <3>1. rotation' = [rotation EXCEPT ![o] = Resting]
      BY <2>7 DEF RotateFails, RotateAnswer
    <3> QED BY <1>2, <2>2, <3>1
  <2>8. CASE \E n \in TokenIds : RotateIssue(o, n)
    <3>1. PICK n \in TokenIds : RotateIssue(o, n)
      BY <2>8
    <3> DEFINE r == [rotation[o] EXCEPT !.pc = "mint", !.heir = n]
    <3>2. rotation[o].cur \in TokenIds /\ n \in Nat
      BY <2>1, <3>1 DEF RotateIssue, RoundTyped, TokenIds
    <3>3. RoundTyped(r)
      BY <2>1, <3>2 DEF RoundTyped, Rounds
    <3>4. rotation' = [rotation EXCEPT ![o] = r]
      BY <1>0, <3>1 DEF RotateIssue, Rounds
    <3> QED BY <2>2, <3>3, <3>4
  <2> QED BY <1>5, <2>3, <2>4, <2>5, <2>6, <2>7, <2>8
<1>6. CASE TokensCrash
  BY <1>3, <1>6 DEF TokensCrash
<1>7. CASE \/ TokensLoad \/ TokensSettle \/ TokensTick \/ UNCHANGED <<tokenVars, now>>
           \/ \E t \in TokenIds : IssueToken(t) \/ VerifyToken(t) \/ RevokeToken(t)
  BY <1>1, <1>7 DEF TokensLoad, TokensSettle, TokensTick, tokenVars, IssueToken, VerifyToken,
                    RevokeToken
<1> QED BY <1>4, <1>5, <1>6, <1>7 DEF TokensNext

\* What a step may make of the dates.
LEMMA DatesStayTyped ==
  ASSUME TokensTyped, [TokensNext]_<<tokenVars, now>>
  PROVE  epochs' \in StoreType(0..MaxClock, Rotations) /\ now' \in 1..MaxClock
<1>0. /\ epochs \in StoreType(0..MaxClock, Rotations) /\ now \in 1..MaxClock
      /\ now \in 0..MaxClock /\ 0 \in 0..MaxClock
  BY DEF TokensTyped
<1>1. CASE epochs' = epochs /\ now' = now
  BY <1>0, <1>1
<1>2. CASE TokensTick
  BY <1>0, <1>2 DEF TokensTick, Tick, tokenVars
<1>3. CASE TokensLoad
  BY <1>0, <1>3, LoadedStore DEF TokensLoad
<1>4. CASE TokensSettle
  BY <1>0, <1>4, SettlingType DEF TokensSettle
<1>5. CASE TokensCrash
  BY <1>0, <1>5, CrashedStore DEF TokensCrash
<1>6. ASSUME NEW o \in Rotations, RotateDate(o)
      PROVE  epochs' \in StoreType(0..MaxClock, Rotations) /\ now' \in 1..MaxClock
  <2> DEFINE cleared == [epochs EXCEPT !.acked = epochs.acked \ {o}]
  <2>1. cleared \in StoreType(0..MaxClock, Rotations)
    BY <1>0 DEF StoreType
  <2>2. epochs' = Save(cleared, now, o) /\ now' = now
    BY <1>6 DEF RotateDate
  <2> HIDE DEF cleared
  <2>3. Save(cleared, now, o) \in StoreType(0..MaxClock, Rotations)
    BY <1>0, <2>1, SavedStore
  <2> QED BY <1>0, <2>2, <2>3
<1> QED
  BY <1>1, <1>2, <1>3, <1>4, <1>5, <1>6
     DEF TokensNext, tokenVars, IssueToken, VerifyToken, RevokeToken, RotateList, RotateRevoke,
         RotateMinted, RotateFails, RotateAnswer, RotateIssue

\* The least of the dates of birth.
LEMMA LeastBirth ==
  ASSUME NEW births, births \subseteq Nat, births # {}
  PROVE  \E b \in births : \A c \in births : b <= c
<1> DEFINE earlier == {bc \in Nat \X Nat : bc[1] < bc[2]}
<1>1. IsWellFoundedOn(earlier, Nat)
  BY NatLessThanWellFounded DEF OpToRel
<1> HIDE DEF earlier
<1>2. PICK b \in births : \A c \in births : ~(<<c, b>> \in earlier)
  BY <1>1, WFMin, Zenon
<1>3. ASSUME NEW c \in births
      PROVE  b <= c
  <2>1. \A m, n \in Nat : m < n => <<m, n>> \in earlier
    BY DEF earlier
  <2>2. ~(c < b) /\ b \in Nat /\ c \in Nat
    BY <1>2, <2>1
  <2> QED BY <2>2
<1> QED BY <1>3

LEMMA TokensStart == TokensInit /\ ClockInit => TokensTyped
<1> SUFFICES ASSUME TokensInit, ClockInit
             PROVE  TokensTyped
  OBVIOUS
<1>1. /\ tokens = NewStore(NoTokens) /\ epochs = NewStore(0) /\ retired = {}
      /\ rotation = [o \in Rotations |-> Resting]
  BY DEF TokensInit
<1>2. NoTokens \in TokenDocs /\ 0 \in 0..MaxClock
  BY DEF NoTokens, NoToken, TokenDocs, TokenRecords
<1>3. NewStore(NoTokens) \in StoreType(TokenDocs, TokenFacts)
  BY <1>2, NewStoreType
<1>4. NewStore(0) \in StoreType(0..MaxClock, Rotations)
  BY <1>2, NewStoreType
<1>5. RoundTyped(Resting)
  BY DEF RoundTyped, Rounds, Resting, NoOne
<1>6. now \in 1..MaxClock
  BY DEF ClockInit
<1>7. rotation \in [Rotations -> Rounds] /\ \A o \in Rotations : RoundTyped(rotation[o])
  BY <1>1, <1>5 DEF RoundTyped
<1> QED BY <1>1, <1>3, <1>4, <1>6, <1>7 DEF TokensTyped

LEMMA TokensKeepTypes == TokensTyped /\ [TokensNext]_<<tokenVars, now>> => TokensTyped'
<1> SUFFICES ASSUME TokensTyped, [TokensNext]_<<tokenVars, now>>
             PROVE  TokensTyped'
  OBVIOUS
<1> QED BY TokensStayTyped, RoundsStayTyped, DatesStayTyped DEF TokensTyped, RoundTyped

\* In every reachable state.
LEMMA TokensAlwaysTyped == TokensSpec => []TokensTyped
BY TokensStart, TokensKeepTypes, PTL DEF TokensSpec

LEMMA TokensAreTyped == TokensTyped => TokensTypeOK
<1> SUFFICES ASSUME TokensTyped
             PROVE  TokensTypeOK
  OBVIOUS
<1>1. tokens \in StoreType(TokenDocs, TokenFacts) /\ epochs \in StoreType(0..MaxClock, Rotations)
  BY DEF TokensTyped
<1>2. tokens.mem \in TokenDocs /\ tokens.disk \in TokenDocs
  BY <1>1, StoreFields
<1>3. epochs.mem \in 0..MaxClock
  BY <1>1, StoreFields
<1>4. \A o \in Rotations : RoundTyped(rotation[o])
  BY DEF TokensTyped
<1> QED BY <1>2, <1>3, <1>4
        DEF TokensTyped, TokensTypeOK, RoundTyped, Rounds, TokenDocs, TokenRecords

\* Types of the tokens, of the rotations in flight and of the dates, whatever the
\* order in which the database takes the puts.
THEOREM TokensTypes == TokensSpec => []TokensTypeOK
BY TokensAreTyped, TokensAlwaysTyped, PTL

\* The report goes by the older of the last rotation logged and the oldest token in
\* use, so it never calls fresh what is older than it says (rotation.service.ts advice).
THEOREM AdviceIsHonest == TokensSpec => []AdviceNeverFlatters
<1>1. TokensTyped => AdviceNeverFlatters
  <2> SUFFICES ASSUME TokensTyped, Advice = "fresh", NEW t \in Unrevoked
               PROVE  3 * (now - tokens.mem[t].born) <= 2 * MaxAge
    BY DEF AdviceNeverFlatters
  <2> DEFINE births == {tokens.mem[u].born : u \in Unrevoked}
             oldest == CHOOSE b \in births : \A c \in births : b <= c
             born == tokens.mem[t].born
             last == LastRotation
  <2>1. tokens \in StoreType(TokenDocs, TokenFacts) /\ epochs \in StoreType(0..MaxClock, Rotations)
        /\ now \in Nat /\ MaxAge \in Nat
    BY DEF TokensTyped
  <2>2. tokens.mem \in TokenDocs /\ epochs.mem \in Nat
    BY <2>1, StoreFields
  <2>3. births \subseteq Nat /\ born \in births
    BY <2>2 DEF Unrevoked, TokenDocs, TokenRecords
  <2>4. oldest \in births /\ \A c \in births : oldest <= c
    <3> HIDE DEF births
    <3>1. \E b \in births : \A c \in births : b <= c
      BY <2>3, LeastBirth
    <3> QED BY <3>1
  <2>5. last = IF epochs.mem = 0 \/ oldest < epochs.mem THEN oldest ELSE epochs.mem
    BY <2>3 DEF LastRotation
  <2> HIDE DEF births, oldest, born
  <2>6. oldest \in Nat /\ born \in Nat /\ oldest <= born
    BY <2>3, <2>4
  <2>7. last \in Nat /\ last <= born
    BY <2>2, <2>5, <2>6
  <2>8. last # 0 /\ 3 * (now - last) <= 2 * MaxAge
    BY DEF Advice
  <2> HIDE DEF last
  <2>9. 3 * (now - born) <= 2 * MaxAge
    BY <2>1, <2>6, <2>7, <2>8
  <2> QED BY <2>9 DEF born
<1> QED BY <1>1, TokensAlwaysTyped, PTL


-----------------------------------------------------------------------------
(***************************************************************************)
(* Passkeys                                                                *)
(***************************************************************************)

HIDE MachineTokensAssumption
USE PasskeysAssumption

KeyRecords == {r \in [reg : 0..MaxRegistrations, counter : 0..MaxCounter] :
                   r.reg = 0 => r.counter = 0}
KeyDocs == [Keys -> KeyRecords]
LoginFacts == {r \in KeyRecords : r.counter # 0}

\* Registrations are numbered up to n, and each is of one key.
Proper(n) ==
    {d \in KeyDocs :
        \A k, l \in Keys : /\ d[k].reg <= n
                           /\ d[k].reg # 0 /\ d[k].reg = d[l].reg => k = l}

\* After the login f the counter of its registration is at least f's, and later
\* logins with it have higher ones.
AtLeast(f) ==
    {d \in KeyDocs : \A k \in Keys : d[k].reg = f.reg => d[k].counter >= f.counter}

Later(f) ==
    {p \in [doc : AtLeast(f), fact : KeyRecords] :
        p.fact.reg = f.reg /\ p.fact.counter # 0 => p.fact.counter > f.counter}

\* Nobody was told, or is about to be told, of a registration after the n-th.
KeysKept(st, n) ==
    /\ st \in StoreType(KeyDocs, KeyRecords)
    /\ Quiet(st)
    /\ Agrees(st, Proper(n))
    /\ \A f \in KeyRecords : f.reg > n => Follows(st, f, {}, {})
    /\ \A f \in LoginFacts : Follows(st, f, AtLeast(f), Later(f))

\* The logins were all acknowledged, and their counters rose.
LoginsKept(st, log) ==
    /\ log \in Seq(LoginFacts)
    /\ \A i \in 1..Len(log) : log[i] \in st.acked
    /\ \A i, j \in 1..Len(log) :
          i < j /\ log[i].reg = log[j].reg => log[i].counter < log[j].counter

CeremonyRecords ==
    [purpose : {"unused", "register", "login", "decoy", "taken"}, expires : Nat]

PasskeysInv ==
    /\ KeysKept(passkeys, registrations)
    /\ LoginsKept(passkeys, logins)
    /\ registrations \in 0..MaxRegistrations
    /\ ceremonies \in [Ceremonies -> CeremonyRecords]
    /\ now \in Nat

\* A store that rests.
LEMMA RestingKeys ==
  ASSUME NEW st, NEW n, KeysKept(st, n), NEW st2, Rests(st, st2, KeyDocs)
  PROVE  KeysKept(st2, n) /\ st.acked \subseteq st2.acked
<1>1. st \in StoreType(KeyDocs, KeyRecords) /\ Quiet(st)
  BY DEF KeysKept
<1>2. st2 \in StoreType(KeyDocs, KeyRecords) /\ Quiet(st2) /\ st.acked \subseteq st2.acked
  BY <1>1, RestingType
<1>3. Agrees(st2, Proper(n))
  BY <1>1, RestingHolds DEF KeysKept
<1>4. ASSUME NEW f \in KeyRecords, f.reg > n
      PROVE  Follows(st2, f, {}, {})
  <2>1. Follows(st, f, {}, {}) /\ \A p \in {} : p.doc \in {}
    BY <1>4 DEF KeysKept
  <2> QED BY <1>1, <2>1, RestingFollows
<1>5. ASSUME NEW f \in LoginFacts
      PROVE  Follows(st2, f, AtLeast(f), Later(f))
  <2>1. Follows(st, f, AtLeast(f), Later(f)) /\ \A p \in Later(f) : p.doc \in AtLeast(f)
    BY DEF KeysKept, Later
  <2> QED BY <1>1, <2>1, RestingFollows
<1> QED BY <1>2, <1>3, <1>4, <1>5 DEF KeysKept

\* An operation that saves.
LEMMA SavingKeys ==
  ASSUME NEW st, NEW n \in Nat, KeysKept(st, n), st.loaded, NEW m \in Nat, n <= m,
         NEW doc, doc \in Proper(m), NEW new \in KeyRecords, new.reg <= m,
         \A f \in LoginFacts :
             /\ f.reg <= n /\ st.mem \in AtLeast(f) => [doc |-> doc, fact |-> new] \in Later(f)
             /\ f.reg <= n /\ new = f => doc \in AtLeast(f)
             /\ f.reg > n => new # f
  PROVE  KeysKept(Save(st, doc, new), m) /\ Save(st, doc, new).acked = st.acked
<1> DEFINE st2 == Save(st, doc, new)
<1>1. st \in StoreType(KeyDocs, KeyRecords) /\ Quiet(st) /\ doc \in KeyDocs
  BY DEF KeysKept, Proper
<1>2. st2 \in StoreType(KeyDocs, KeyRecords) /\ Quiet(st2) /\ st2.acked = st.acked
  <2>1. st2 \in StoreType(KeyDocs, KeyRecords) /\ SavedAs(st, st2, doc, new)
    BY <1>1, SavedStore
  <2> QED BY <2>1 DEF SavedAs, Quiet
<1>3. Agrees(st2, Proper(m))
  <2>1. Proper(n) \subseteq Proper(m)
    BY DEF Proper, KeyDocs, KeyRecords
  <2>2. Agrees(st, Proper(m))
    BY <2>1 DEF KeysKept, Agrees
  <2> QED BY <1>1, <2>2, SavingHolds
<1>4. ASSUME NEW f \in KeyRecords, f.reg > m
      PROVE  Follows(st2, f, {}, {})
  <2>1. f.reg \in Nat /\ f.reg > n /\ new # f
    BY <1>4 DEF KeyRecords
  <2>2. Follows(st, f, {}, {})
    BY <2>1 DEF KeysKept
  <2> QED BY <1>1, <2>1, <2>2, SavingFollows
<1>5. ASSUME NEW f \in LoginFacts
      PROVE  Follows(st2, f, AtLeast(f), Later(f))
  <2>1. f \in KeyRecords /\ f.reg \in Nat
    BY DEF LoginFacts, KeyRecords
  <2>2. CASE f.reg <= n
    <3>1. Follows(st, f, AtLeast(f), Later(f))
      BY DEF KeysKept
    <3>2. \A p \in Later(f) : p.doc \in AtLeast(f)
      BY DEF Later
    <3>3. st.mem \in AtLeast(f) => doc \in AtLeast(f) /\ [doc |-> doc, fact |-> new] \in Later(f)
      BY <2>2, <3>2
    <3>4. new = f => doc \in AtLeast(f)
      BY <2>2
    <3> QED BY <1>1, <3>1, <3>3, <3>4, SavingFollows
  <2>3. CASE ~(f.reg <= n)
    <3>1. f.reg > n /\ new # f
      BY <2>1, <2>3
    <3>2. Follows(st, f, {}, {})
      BY <2>1, <3>1 DEF KeysKept
    <3>3. Follows(st2, f, {}, {})
      BY <1>1, <3>1, <3>2, SavingFollows
    <3> HIDE DEF st2
    <3> QED BY <3>3 DEF Follows
  <2> QED BY <2>2, <2>3
<1> HIDE DEF st2
<1>6. KeysKept(st2, m)
  BY <1>2, <1>3, <1>4, <1>5 DEF KeysKept
<1> QED BY <1>2, <1>6 DEF st2

\* A key is registered under a new number.
LEMMA RegisteringKeys ==
  ASSUME NEW st, NEW n \in Nat, n < MaxRegistrations, KeysKept(st, n), st.loaded, NEW k \in Keys,
         NEW rec, rec = [reg |-> n + 1, counter |-> 0]
  PROVE  KeysKept(Save(st, [st.mem EXCEPT ![k] = rec], rec), n + 1)
         /\ Save(st, [st.mem EXCEPT ![k] = rec], rec).acked = st.acked
<1> DEFINE doc == [st.mem EXCEPT ![k] = rec]
<1>1. st.mem \in Proper(n) /\ st.mem \in KeyDocs
  BY DEF KeysKept, Agrees, Proper
<1>2. rec \in KeyRecords /\ rec.reg = n + 1 /\ rec.counter = 0
  BY DEF KeyRecords
<1>3. doc \in KeyDocs /\ doc[k] = rec /\ \A l \in Keys : l # k => doc[l] = st.mem[l]
  BY <1>1, <1>2 DEF KeyDocs
<1> HIDE DEF doc
<1>4. \A l \in Keys : st.mem[l].reg \in Nat /\ st.mem[l].reg <= n
  BY <1>1 DEF Proper, KeyDocs, KeyRecords
<1>5. doc \in Proper(n + 1)
  <2>1. ASSUME NEW i \in Keys, NEW j \in Keys
        PROVE  doc[i].reg <= n + 1 /\ (doc[i].reg # 0 /\ doc[i].reg = doc[j].reg => i = j)
    BY <1>1, <1>2, <1>3, <1>4 DEF Proper
  <2> QED BY <1>3, <2>1 DEF Proper
<1>6. ASSUME NEW f \in LoginFacts
      PROVE  /\ f.reg <= n /\ st.mem \in AtLeast(f) => [doc |-> doc, fact |-> rec] \in Later(f)
             /\ f.reg <= n /\ rec = f => doc \in AtLeast(f)
             /\ f.reg > n => rec # f
  <2>1. rec # f /\ f.reg \in Nat
    BY <1>2 DEF LoginFacts, KeyRecords
  <2>2. f.reg <= n /\ st.mem \in AtLeast(f) => doc \in AtLeast(f)
    BY <1>2, <1>3, <2>1 DEF AtLeast
  <2>3. doc \in AtLeast(f) => [doc |-> doc, fact |-> rec] \in Later(f)
    BY <1>2 DEF Later
  <2> QED BY <2>1, <2>2, <2>3
<1>7. n + 1 \in Nat /\ n <= n + 1 /\ rec.reg <= n + 1
  BY <1>2
<1>8. KeysKept(Save(st, doc, rec), n + 1) /\ Save(st, doc, rec).acked = st.acked
  BY <1>2, <1>5, <1>6, <1>7, SavingKeys
<1> QED BY <1>8 DEF doc

\* A counter moves up.
LEMMA CountingKeys ==
  ASSUME NEW st, NEW n \in Nat, KeysKept(st, n), st.loaded, NEW k \in Keys,
         st.mem[k] # NoPasskey, NEW c \in 1..MaxCounter, c > st.mem[k].counter,
         NEW new, new = [reg |-> st.mem[k].reg, counter |-> c]
  PROVE  KeysKept(Save(st, [st.mem EXCEPT ![k].counter = c], new), n)
         /\ Save(st, [st.mem EXCEPT ![k].counter = c], new).acked = st.acked
<1> DEFINE doc == [st.mem EXCEPT ![k].counter = c]
<1>1. st.mem \in Proper(n) /\ st.mem \in KeyDocs
  BY DEF KeysKept, Agrees, Proper
<1>2. st.mem[k] \in [reg : 0..MaxRegistrations, counter : 0..MaxCounter] /\ st.mem[k].reg # 0
      /\ st.mem[k].reg <= n
  <2>1. st.mem[k] \in KeyRecords /\ st.mem[k].reg <= n
    BY <1>1 DEF KeyDocs, Proper
  <2>2. st.mem[k].reg = 0 => st.mem[k] = NoPasskey
    BY <2>1 DEF KeyRecords, NoPasskey
  <2> QED BY <2>1, <2>2 DEF KeyRecords
<1>3. new \in KeyRecords /\ new.reg = st.mem[k].reg /\ new.counter = c
  BY <1>2 DEF KeyRecords
<1>4. doc \in KeyDocs /\ doc[k] = new /\ \A l \in Keys : l # k => doc[l] = st.mem[l]
  <2>1. [st.mem[k] EXCEPT !.counter = c] = new
    BY <1>2
  <2>2. doc = [st.mem EXCEPT ![k] = new]
    BY <1>1, <2>1 DEF KeyDocs
  <2> QED BY <1>1, <1>3, <2>2 DEF KeyDocs
<1> HIDE DEF doc
<1>5. doc \in Proper(n)
  <2>1. ASSUME NEW i \in Keys, NEW j \in Keys
        PROVE  doc[i].reg <= n /\ (doc[i].reg # 0 /\ doc[i].reg = doc[j].reg => i = j)
    BY <1>1, <1>3, <1>4 DEF Proper
  <2> QED BY <1>4, <2>1 DEF Proper
<1>6. ASSUME NEW f \in LoginFacts
      PROVE  /\ f.reg <= n /\ st.mem \in AtLeast(f) => [doc |-> doc, fact |-> new] \in Later(f)
             /\ f.reg <= n /\ new = f => doc \in AtLeast(f)
             /\ f.reg > n => new # f
  <2>1. /\ f.reg \in Nat /\ f.counter \in Nat /\ st.mem[k].counter \in Nat
        /\ c \in Nat /\ st.mem[k].reg \in Nat
    BY <1>2 DEF LoginFacts, KeyRecords
  <2>2. ASSUME st.mem \in AtLeast(f)
        PROVE  doc \in AtLeast(f) /\ (new.reg = f.reg => new.counter > f.counter)
    <3>1. st.mem[k].reg = f.reg => st.mem[k].counter >= f.counter
      BY <2>2 DEF AtLeast
    <3>2. new.reg = f.reg => new.counter > f.counter
      BY <1>3, <2>1, <3>1
    <3>3. ASSUME NEW l \in Keys, doc[l].reg = f.reg
          PROVE  doc[l].counter >= f.counter
      <4>1. CASE l = k
        BY <1>3, <1>4, <2>1, <3>2, <3>3, <4>1
      <4>2. CASE l # k
        BY <1>4, <2>2, <3>3, <4>2 DEF AtLeast
      <4> QED BY <4>1, <4>2
    <3> QED BY <1>4, <3>2, <3>3 DEF AtLeast
  <2>3. st.mem \in AtLeast(f) => [doc |-> doc, fact |-> new] \in Later(f)
    BY <1>3, <2>2 DEF Later
  <2>4. ASSUME new = f
        PROVE  doc \in AtLeast(f)
    <3>1. \A l \in Keys : doc[l].reg = f.reg => l = k
      BY <1>2, <1>3, <1>4, <1>5, <2>4 DEF Proper
    <3> QED BY <1>4, <2>1, <2>4, <3>1 DEF AtLeast
  <2>5. f.reg > n => new # f
    BY <1>2, <1>3, <2>1
  <2> QED BY <2>3, <2>4, <2>5
<1>7. new.reg <= n /\ n <= n
  BY <1>2, <1>3
<1>8. KeysKept(Save(st, doc, new), n) /\ Save(st, doc, new).acked = st.acked
  BY <1>3, <1>5, <1>6, <1>7, SavingKeys
<1> QED BY <1>8 DEF doc

\* A key is removed; its number is never given again.
LEMMA RemovingKeys ==
  ASSUME NEW st, NEW n \in Nat, KeysKept(st, n), st.loaded, NEW k \in Keys
  PROVE  KeysKept(Save(st, [st.mem EXCEPT ![k] = NoPasskey], NoPasskey), n)
         /\ Save(st, [st.mem EXCEPT ![k] = NoPasskey], NoPasskey).acked = st.acked
<1> DEFINE doc == [st.mem EXCEPT ![k] = NoPasskey]
<1>1. st.mem \in Proper(n) /\ st.mem \in KeyDocs
  BY DEF KeysKept, Agrees, Proper
<1>2. NoPasskey \in KeyRecords /\ NoPasskey.reg = 0 /\ NoPasskey.counter = 0
  BY DEF KeyRecords, NoPasskey
<1>3. doc \in KeyDocs /\ doc[k] = NoPasskey /\ \A l \in Keys : l # k => doc[l] = st.mem[l]
  BY <1>1, <1>2 DEF KeyDocs
<1> HIDE DEF doc
<1>4. doc \in Proper(n)
  <2>1. ASSUME NEW i \in Keys, NEW j \in Keys
        PROVE  doc[i].reg <= n /\ (doc[i].reg # 0 /\ doc[i].reg = doc[j].reg => i = j)
    BY <1>1, <1>2, <1>3 DEF Proper
  <2> QED BY <1>3, <2>1 DEF Proper
<1>5. ASSUME NEW f \in LoginFacts
      PROVE  /\ f.reg <= n /\ st.mem \in AtLeast(f) => [doc |-> doc, fact |-> NoPasskey] \in Later(f)
             /\ f.reg <= n /\ NoPasskey = f => doc \in AtLeast(f)
             /\ f.reg > n => NoPasskey # f
  <2>1. NoPasskey # f /\ f.reg # 0
    BY <1>2 DEF LoginFacts, KeyRecords
  <2>2. st.mem \in AtLeast(f) => doc \in AtLeast(f)
    BY <1>2, <1>3, <2>1 DEF AtLeast
  <2>3. doc \in AtLeast(f) => [doc |-> doc, fact |-> NoPasskey] \in Later(f)
    BY <1>2 DEF Later
  <2> QED BY <2>1, <2>2, <2>3
<1>6. NoPasskey.reg <= n /\ n <= n
  BY <1>2
<1>7. KeysKept(Save(st, doc, NoPasskey), n) /\ Save(st, doc, NoPasskey).acked = st.acked
  BY <1>2, <1>4, <1>5, <1>6, SavingKeys
<1> QED BY <1>7 DEF doc

\* Logins that stay, in a store that forgets nothing it has acknowledged.
LEMMA SameLogins ==
  ASSUME NEW st, NEW st2, NEW log, LoginsKept(st, log), st.acked \subseteq st2.acked
  PROVE  LoginsKept(st2, log)
BY DEF LoginsKept

\* A login whose put has landed: its counter is above all before it.
LEMMA NextLogin ==
  ASSUME NEW st, NEW n, KeysKept(st, n), NEW log, LoginsKept(st, log), Len(st.puts) >= 1,
         NEW done, done = st.puts[1].fact, done.counter # 0
  PROVE  LoginsKept(Land(st, 1), Append(log, done))
<1> DEFINE log2 == Append(log, done)
           st2 == Land(st, 1)
           z == Len(log)
<1>1. st \in StoreType(KeyDocs, KeyRecords) /\ log \in Seq(LoginFacts) /\ z \in Nat
  BY LenProperties DEF KeysKept, LoginsKept
<1>2. st2.acked = st.acked \cup {done}
  BY <1>1, LandedStore
<1>3. 1 \in 1..Len(st.puts) /\ done \in KeyRecords
  BY <1>1, StoreFields
<1>4. done \in LoginFacts
  BY <1>3 DEF LoginFacts
<1>5. /\ log2 \in Seq(LoginFacts) /\ Len(log2) = z + 1
      /\ \A i \in 1..z : log2[i] = log[i]
      /\ log2[z + 1] = done
  BY <1>1, <1>4, AppendProperties
<1> HIDE DEF log2, st2
<1>6. ASSUME NEW i \in 1..z, log[i].reg = done.reg
      PROVE  log[i].counter < done.counter
  <2>1. log[i] \in st.acked /\ log[i] \in LoginFacts
    BY <1>1, ElementOfSeq DEF LoginsKept
  <2>2. st.puts[1] \in Later(log[i])
    BY <1>3, <2>1 DEF KeysKept, Follows
  <2>3. done.counter > log[i].counter
    BY <1>6, <2>2 DEF Later
  <2>4. \A f \in KeyRecords : f.counter \in Nat
    BY SMTT(30) DEF KeyRecords
  <2>5. done.counter \in Nat /\ log[i].counter \in Nat
    BY <1>3, <2>1, <2>4, ZenonT(30) DEF LoginFacts
  <2> QED BY ONLY <2>3, <2>5, SMT
<1> HIDE DEF z
<1>7. \A i \in 1..Len(log2) : i \in 1..z \/ i = z + 1
  BY <1>1, <1>5
<1>8. \A i \in 1..Len(log2) : log2[i] \in st2.acked
  <2>1. \A i \in 1..z : log[i] \in st.acked
    BY DEF LoginsKept, z
  <2> QED BY <1>2, <1>5, <1>7, <2>1
<1>9. ASSUME NEW i \in 1..Len(log2), NEW j \in 1..Len(log2), i < j, log2[i].reg = log2[j].reg
      PROVE  log2[i].counter < log2[j].counter
  <2>1. i \in 1..z
    BY <1>1, <1>5, <1>9
  <2>2. CASE j \in 1..z
    <3>1. log[i].reg = log[j].reg /\ i \in 1..Len(log) /\ j \in 1..Len(log)
      BY <1>5, <1>9, <2>1, <2>2 DEF z
    <3>2. log[i].counter < log[j].counter
      BY <1>9, <3>1 DEF LoginsKept
    <3> QED BY <1>5, <2>1, <2>2, <3>2
  <2>3. CASE j = z + 1
    BY <1>5, <1>6, <1>9, <2>1, <2>3
  <2> QED BY <1>7, <2>2, <2>3
<1>10. LoginsKept(st2, log2)
  BY <1>5, <1>8, <1>9 DEF LoginsKept
<1> QED BY <1>10 DEF log2, st2

\* The store, the logins and the number of registrations after a step.
KeysMove ==
    /\ KeysKept(passkeys', registrations')
    /\ LoginsKept(passkeys', logins')
    /\ registrations' \in 0..MaxRegistrations

\* The operations on credentials.
LEMMA CredentialMoves ==
  ASSUME PasskeysInv, NEW k \in Keys,
         \/ RemoveCredential(k)
         \/ \E c \in Ceremonies : FinishRegistration(c, k) \/ FinishPasskeyLogin(c, k)
  PROVE  KeysMove
<1>0. /\ KeysKept(passkeys, registrations) /\ LoginsKept(passkeys, logins)
      /\ registrations \in 0..MaxRegistrations /\ registrations \in Nat
      /\ passkeys.loaded /\ logins' = logins
  <2>1. passkeys.loaded /\ logins' = logins
    BY DEF FinishRegistration, FinishPasskeyLogin, RemoveCredential
  <2>2. registrations \in 0..MaxRegistrations /\ registrations \in Nat
    BY DEF PasskeysInv
  <2> QED BY <2>1, <2>2 DEF PasskeysInv
<1>1. CASE passkeys' = passkeys /\ registrations' = registrations
  BY <1>0, <1>1 DEF KeysMove
<1>2. ASSUME passkeys'.acked = passkeys.acked
      PROVE  LoginsKept(passkeys', logins')
  BY <1>0, <1>2, SameLogins
<1>3. ASSUME NEW c \in Ceremonies, FinishRegistration(c, k)
      PROVE  KeysMove
  <2>1. CASE ~(passkeys' = passkeys /\ registrations' = registrations)
    <3> DEFINE rec == [reg |-> registrations + 1, counter |-> 0]
    <3>1. /\ registrations < MaxRegistrations /\ registrations' = registrations + 1
          /\ passkeys' = Save(passkeys, [passkeys.mem EXCEPT ![k] = rec], rec)
      BY <1>3, <2>1 DEF FinishRegistration
    <3> HIDE DEF rec
    <3>2. KeysKept(passkeys', registrations + 1) /\ passkeys'.acked = passkeys.acked
      BY <1>0, <3>1, RegisteringKeys DEF rec
    <3> QED BY <1>0, <1>2, <3>1, <3>2 DEF KeysMove
  <2> QED BY <1>1, <2>1
<1>4. ASSUME NEW c \in Ceremonies, FinishPasskeyLogin(c, k)
      PROVE  KeysMove
  <2>1. registrations' = registrations
    BY <1>4 DEF FinishPasskeyLogin
  <2>2. CASE passkeys' # passkeys
    <3>1. PICK n \in 1..MaxCounter :
             /\ passkeys.mem[k] # NoPasskey
             /\ n > passkeys.mem[k].counter
             /\ passkeys' = Save(passkeys, CounterMoved(k, n),
                                 [reg |-> passkeys.mem[k].reg, counter |-> n])
      BY <1>4, <2>2 DEF FinishPasskeyLogin
    <3> DEFINE new == [reg |-> passkeys.mem[k].reg, counter |-> n]
    <3>2. passkeys' = Save(passkeys, [passkeys.mem EXCEPT ![k].counter = n], new)
      BY <3>1 DEF CounterMoved
    <3> HIDE DEF new
    <3>3. KeysKept(passkeys', registrations) /\ passkeys'.acked = passkeys.acked
      BY <1>0, <3>1, <3>2, CountingKeys DEF new
    <3> QED BY <1>0, <1>2, <2>1, <3>3 DEF KeysMove
  <2> QED BY <1>1, <2>1, <2>2
<1>5. CASE RemoveCredential(k)
  <2>1. /\ passkeys' = Save(passkeys, [passkeys.mem EXCEPT ![k] = NoPasskey], NoPasskey)
        /\ registrations' = registrations
    BY <1>5 DEF RemoveCredential
  <2>2. KeysKept(passkeys', registrations) /\ passkeys'.acked = passkeys.acked
    BY <1>0, <2>1, RemovingKeys
  <2> QED BY <1>0, <1>2, <2>1, <2>2 DEF KeysMove
<1> QED BY <1>3, <1>4, <1>5

\* A put lands or fails, the store loads, the process ends, or nothing of it moves.
LEMMA KeysStoreMoves ==
  ASSUME PasskeysInv,
         \/ PasskeysLoad \/ PasskeysSettle \/ PasskeysCrash
         \/ UNCHANGED <<passkeys, logins, registrations>>
  PROVE  KeysMove
<1>0. /\ KeysKept(passkeys, registrations) /\ LoginsKept(passkeys, logins)
      /\ registrations \in 0..MaxRegistrations
      /\ passkeys \in StoreType(KeyDocs, KeyRecords)
  BY DEF PasskeysInv, KeysKept
<1>1. ASSUME Rests(passkeys, passkeys', KeyDocs), registrations' = registrations, logins' = logins
      PROVE  KeysMove
  <2>1. KeysKept(passkeys', registrations) /\ passkeys.acked \subseteq passkeys'.acked
    BY <1>0, <1>1, RestingKeys
  <2>2. LoginsKept(passkeys', logins)
    BY <1>0, <2>1, SameLogins
  <2> QED BY <1>0, <1>1, <2>1, <2>2 DEF KeysMove
<1>2. CASE PasskeysLoad
  BY <1>1, <1>2 DEF PasskeysLoad, Rests
<1>3. CASE PasskeysCrash
  <2>1. NoPasskeys \in KeyDocs
    BY DEF NoPasskeys, NoPasskey, KeyDocs, KeyRecords
  <2> QED BY <1>1, <1>3, <2>1 DEF PasskeysCrash, Rests
<1>4. CASE PasskeysSettle
  <2> DEFINE done == Head(passkeys.puts).fact
  <2>1. /\ passkeys.puts # <<>> /\ registrations' = registrations
        /\ \/ passkeys' = Land(passkeys, 1) /\ logins' = logins
           \/ /\ passkeys' = Land(passkeys, 1)
              /\ done.counter # 0 /\ logins' = Append(logins, done)
           \/ passkeys' = Refuse(passkeys, 1) /\ logins' = logins
    BY <1>4 DEF PasskeysSettle
  <2>2. Len(passkeys.puts) >= 1 /\ done = passkeys.puts[1].fact
    <3>1. passkeys.puts \in Seq(Puts(KeyDocs, KeyRecords))
      BY <1>0, StoreFields
    <3>2. Len(passkeys.puts) \in Nat \ {0}
      BY <2>1, <3>1, EmptySeq
    <3> QED BY <3>1, <3>2
  <2> HIDE DEF done
  <2>3. Land(passkeys, 1) \in Settles(passkeys, TRUE) /\ Refuse(passkeys, 1) \in Settles(passkeys, TRUE)
    <3>1. 1 \in Due(passkeys, TRUE)
      BY <1>0, <2>2, StoreFields DEF Due
    <3> QED BY <3>1 DEF Settles, Landings, Refusals
  <2>4. Rests(passkeys, passkeys', KeyDocs)
    BY <2>1, <2>3 DEF Rests
  <2>5. CASE logins' = logins
    BY <1>1, <2>1, <2>4, <2>5
  <2>6. CASE passkeys' = Land(passkeys, 1) /\ done.counter # 0 /\ logins' = Append(logins, done)
    <3>1. KeysKept(passkeys', registrations)
      BY <1>0, <2>4, RestingKeys
    <3>2. LoginsKept(passkeys', logins')
      BY <1>0, <2>2, <2>6, NextLogin
    <3> QED BY <1>0, <2>1, <3>1, <3>2 DEF KeysMove
  <2> QED BY <2>1, <2>5, <2>6
<1>5. CASE UNCHANGED <<passkeys, logins, registrations>>
  BY <1>1, <1>5 DEF Rests
<1> QED BY <1>2, <1>3, <1>4, <1>5

\* Challenges are made, taken and lost.
LEMMA CeremoniesTyped ==
  ASSUME PasskeysInv, [PasskeysNext]_<<passkeyVars, now>>
  PROVE  ceremonies' \in [Ceremonies -> CeremonyRecords] /\ now' \in Nat
<1>0. ceremonies \in [Ceremonies -> CeremonyRecords] /\ now \in Nat /\ ChallengeTtl \in Nat
  BY DEF PasskeysInv
<1>1. [purpose |-> "taken", expires |-> 0] \in CeremonyRecords /\ NoCeremony \in CeremonyRecords
  BY DEF CeremonyRecords, NoCeremony
<1>2. ASSUME NEW c \in Ceremonies, NEW purpose \in {"register", "login", "decoy"},
             BeginCeremony(c, purpose)
      PROVE  ceremonies' \in [Ceremonies -> CeremonyRecords] /\ now' \in Nat
  <2>1. [purpose |-> purpose, expires |-> now + ChallengeTtl] \in CeremonyRecords
    BY <1>0 DEF CeremonyRecords
  <2> QED BY <1>0, <1>2, <2>1 DEF BeginCeremony
<1>3. ASSUME NEW c \in Ceremonies, ceremonies' = Taken(c)
      PROVE  ceremonies' \in [Ceremonies -> CeremonyRecords]
  BY <1>0, <1>1, <1>3 DEF Taken
<1>4. CASE PasskeysCrash
  <2>1. ceremonies' = [c \in Ceremonies |-> IF ceremonies[c] = NoCeremony THEN NoCeremony
                                            ELSE [purpose |-> "taken", expires |-> 0]]
        /\ now' = now
    BY <1>4 DEF PasskeysCrash
  <2> QED BY <1>0, <1>1, <2>1
<1>5. ASSUME NEW c \in Ceremonies, NEW k \in Keys, FinishRegistration(c, k) \/ FinishPasskeyLogin(c, k)
      PROVE  ceremonies' \in [Ceremonies -> CeremonyRecords] /\ now' \in Nat
  BY <1>0, <1>3, <1>5 DEF FinishRegistration, FinishPasskeyLogin
<1>6. CASE PasskeysTick
  BY <1>0, <1>6 DEF PasskeysTick, Tick, passkeyVars
<1>7. CASE UNCHANGED <<ceremonies, now>>
  BY <1>0, <1>7
<1> QED
  BY <1>2, <1>4, <1>5, <1>6, <1>7
     DEF PasskeysNext, passkeyVars, PasskeysLoad, PasskeysSettle, RemoveCredential, BeginPasskeyLogin

\* Every step keeps counters rising.
LEMMA PasskeysStep ==
  ASSUME PasskeysInv, [PasskeysNext]_<<passkeyVars, now>>
  PROVE  PasskeysInv'
<1>1. KeysMove
  <2>1. CASE \/ PasskeysLoad \/ PasskeysSettle \/ PasskeysCrash
             \/ UNCHANGED <<passkeys, logins, registrations>>
    BY <2>1, KeysStoreMoves
  <2>2. ASSUME NEW c \in Ceremonies, NEW k \in Keys,
               FinishRegistration(c, k) \/ FinishPasskeyLogin(c, k)
        PROVE  KeysMove
    BY <2>2, CredentialMoves
  <2>3. ASSUME NEW k \in Keys, RemoveCredential(k)
        PROVE  KeysMove
    BY <2>3, CredentialMoves
  <2> QED
    BY <2>1, <2>2, <2>3
       DEF PasskeysNext, passkeyVars, PasskeysTick, BeginPasskeyLogin, BeginCeremony
<1>2. ceremonies' \in [Ceremonies -> CeremonyRecords] /\ now' \in Nat
  BY CeremoniesTyped
<1> QED BY <1>1, <1>2
    DEF PasskeysInv, KeysMove, KeysKept, LoginsKept, Quiet, Agrees, Follows

LEMMA PasskeysStart == PasskeysInit /\ ClockInit => PasskeysInv
<1> SUFFICES ASSUME PasskeysInit, ClockInit
             PROVE  PasskeysInv
  OBVIOUS
<1>1. /\ passkeys = NewStore(NoPasskeys) /\ logins = <<>> /\ registrations = 0
      /\ ceremonies = [c \in Ceremonies |-> NoCeremony]
  BY DEF PasskeysInit
<1>2. NoPasskeys \in KeyDocs /\ NoPasskeys \in Proper(0)
  BY DEF NoPasskeys, NoPasskey, KeyDocs, KeyRecords, Proper
<1>3. NewStore(NoPasskeys) \in StoreType(KeyDocs, KeyRecords) /\ Quiet(NewStore(NoPasskeys))
  BY <1>2, NewStoreType
<1>4. Agrees(NewStore(NoPasskeys), Proper(0)) /\ \A f, D, P : Follows(NewStore(NoPasskeys), f, D, P)
  BY <1>2, NewKeeps
<1>5. KeysKept(passkeys, registrations)
  BY <1>1, <1>3, <1>4 DEF KeysKept
<1>6. LoginsKept(passkeys, logins)
  BY <1>1, EmptySeq DEF LoginsKept
<1>7. ceremonies \in [Ceremonies -> CeremonyRecords]
  BY <1>1 DEF NoCeremony, CeremonyRecords
<1> QED BY <1>1, <1>5, <1>6, <1>7 DEF PasskeysInv, ClockInit

\* In every reachable state.
LEMMA PasskeysAlways == PasskeysSpec => []PasskeysInv
BY PasskeysStart, PasskeysStep, PTL DEF PasskeysSpec

LEMMA PasskeysAreTyped == PasskeysInv => PasskeysTypeOK
<1> SUFFICES ASSUME PasskeysInv
             PROVE  PasskeysTypeOK
  OBVIOUS
<1>1. passkeys \in StoreType(KeyDocs, KeyRecords)
  BY DEF PasskeysInv, KeysKept
<1>2. passkeys.mem \in KeyDocs /\ passkeys.disk \in KeyDocs
  BY <1>1, StoreFields
<1> QED BY <1>2 DEF PasskeysInv, PasskeysTypeOK, KeyDocs, KeyRecords, CeremonyRecords

\* Types of credentials and ceremonies.
THEOREM PasskeysTypes == PasskeysSpec => []PasskeysTypeOK
BY PasskeysAreTyped, PasskeysAlways, PTL

\* The counters of the logins with one registration rise, over refused puts and
\* crashes: a login opens its session when its counter is on disk, every put behind
\* it has a higher one, and a registration's number is never given twice
\* (passkeys.service.ts finishLogin).
THEOREM CountersRise == PasskeysSpec => []CountersNeverRewind
<1>1. PasskeysInv => CountersNeverRewind
  <2> SUFFICES ASSUME PasskeysInv
               PROVE  CountersNeverRewind
    OBVIOUS
  <2>1. DOMAIN logins = 1..Len(logins)
    BY LenProperties DEF PasskeysInv, LoginsKept
  <2> QED BY <2>1 DEF PasskeysInv, LoginsKept, CountersNeverRewind
<1> QED BY <1>1, PasskeysAlways, PTL

HIDE PasskeysAssumption

-----------------------------------------------------------------------------
(***************************************************************************)
(* Types.                                                                  *)
(***************************************************************************)

HIDE MaxClockAssumption

RuleType == [limit : Nat \ {0}, window : Nat \ {0}, cooldown : Nat, lock : Nat]

\* The buckets of a rule, up to instant m.
BucketsOf(rule, m) == Bucket(0..rule.limit, 0..m)

LEMMA EmptyBucket ==
  ASSUME NEW rule \in RuleType, NEW m \in Nat
  PROVE  NoBucket \in BucketsOf(rule, m)
BY DEF RuleType, BucketsOf, Bucket, NoBucket

\* consume(), whatever the verdict, counts no further than the limit of the rule
\* and notes no instant that has not come.
LEMMA ConsumedBucket ==
  ASSUME NEW rule \in RuleType, NEW m \in Nat, NEW t \in 0..m,
         NEW b \in BucketsOf(rule, m)
  PROVE  Consume(b, rule, t).bucket \in BucketsOf(rule, m)
<1> DEFINE cur == Current(b, rule, t)
           fresh == [count |-> 0, start |-> t, hit |-> 0, lockedUntil |-> 0]
<1>1. rule.limit \in Nat \ {0} /\ rule.lock \in Nat
  BY DEF RuleType
<1>2. fresh \in BucketsOf(rule, m)
  BY <1>1 DEF BucketsOf, Bucket
<1>3. [NoBucket EXCEPT !.start = t] = fresh
  BY DEF NoBucket
<1>4. cur \in BucketsOf(rule, m)
  BY <1>2, <1>3 DEF Current
<1> HIDE DEF cur, fresh
<1>5. /\ cur.count \in 0..rule.limit
      /\ cur.start \in 0..m /\ cur.hit \in 0..m /\ cur.lockedUntil \in Nat
      /\ cur = [count |-> cur.count, start |-> cur.start, hit |-> cur.hit,
                lockedUntil |-> cur.lockedUntil]
  BY <1>4 DEF BucketsOf, Bucket
<1>6. CASE Locked(b, t)
  <2>1. Consume(b, rule, t) = [verdict |-> "locked", bucket |-> b]
    BY <1>6 DEF Consume
  <2> QED BY <2>1
<1>7. CASE ~Locked(b, t) /\ Cooling(cur, rule, t)
  <2>1. Consume(b, rule, t) = [verdict |-> "cooldown", bucket |-> cur]
    BY <1>7 DEF Consume, cur
  <2> QED BY <1>4, <2>1
<1>8. CASE ~Locked(b, t) /\ ~Cooling(cur, rule, t) /\ cur.count >= rule.limit
  <2> DEFINE locked == [cur EXCEPT !.lockedUntil = t + rule.lock]
  <2>1. Consume(b, rule, t) = [verdict |-> "limit", bucket |-> locked]
    BY <1>8 DEF Consume, cur
  <2>2. t + rule.lock \in Nat
    BY <1>1
  <2>3. locked = [count |-> cur.count, start |-> cur.start, hit |-> cur.hit,
                  lockedUntil |-> t + rule.lock]
    BY <1>5
  <2> HIDE DEF locked
  <2>4. locked \in BucketsOf(rule, m)
    BY <1>5, <2>2, <2>3 DEF BucketsOf, Bucket
  <2> QED BY <2>1, <2>4
<1>9. CASE ~Locked(b, t) /\ ~Cooling(cur, rule, t) /\ ~(cur.count >= rule.limit)
  <2> DEFINE counted == [cur EXCEPT !.count = @ + 1, !.hit = t]
  <2>1. Consume(b, rule, t) = [verdict |-> "allowed", bucket |-> counted]
    BY <1>9 DEF Consume, cur
  <2>2. cur.count + 1 \in 0..rule.limit
    BY <1>1, <1>5, <1>9
  <2> DEFINE one == [cur EXCEPT !.count = cur.count + 1]
  <2>3. one = [count |-> cur.count + 1, start |-> cur.start, hit |-> cur.hit,
               lockedUntil |-> cur.lockedUntil]
    BY <1>5
  <2>4. counted = [one EXCEPT !.hit = t]
    BY <1>5
  <2>5. counted = [count |-> cur.count + 1, start |-> cur.start, hit |-> t,
                   lockedUntil |-> cur.lockedUntil]
    <3> HIDE DEF counted, one
    <3> QED BY <2>3, <2>4
  <2> HIDE DEF counted
  <2>6. counted \in BucketsOf(rule, m)
    BY <1>5, <2>2, <2>5 DEF BucketsOf, Bucket
  <2> QED BY <2>1, <2>6
<1> QED BY <1>6, <1>7, <1>8, <1>9

-----------------------------------------------------------------------------
(* The limiter: the bucket, the shared counters, what has been admitted.    *)

LimiterTyped ==
    /\ LimiterTypeOK
    /\ now \in 1..MaxClock
    /\ IsFiniteSet(admitted)

\* One hit more is one of the hits that are noted.
LEMMA AdmittedType ==
  ASSUME LimiterTyped, admitted' = Admit(admitted, now)
  PROVE  admitted' \subseteq [at : 1..MaxClock, nth : Nat] /\ IsFiniteSet(admitted')
<1> DEFINE n == Cardinality({h \in admitted : h.at = now})
           new == [at |-> now, nth |-> n]
<1>1. {h \in admitted : h.at = now} \in SUBSET admitted
  OBVIOUS
<1>2. n \in Nat
  BY <1>1, FS_Subset, FS_CardinalityType DEF LimiterTyped
<1> HIDE DEF n
<1>3. new \in [at : 1..MaxClock, nth : Nat]
  BY <1>2 DEF LimiterTyped
<1>4. admitted' = admitted \cup {new}
  BY DEF Admit, n
<1> HIDE DEF new
<1> QED BY <1>3, <1>4, FS_AddElement DEF LimiterTyped, LimiterTypeOK

LEMMA HitType ==
  ASSUME LimiterTyped, Hit
  PROVE  LimiterTyped'
<1> DEFINE answer == Consume(bucket, LimitRule, now)
<1>1. /\ LimitRule \in RuleType /\ MaxClock \in Nat /\ now \in 0..MaxClock
      /\ bucket \in BucketsOf(LimitRule, MaxClock) /\ lockEnd \in Nat
  BY LimiterAssumption, MaxClockAssumption DEF LimiterTyped, LimiterTypeOK, RuleType, BucketsOf
<1>2. answer.bucket \in BucketsOf(LimitRule, MaxClock)
  BY <1>1, ConsumedBucket
<1>3. /\ bucket' = answer.bucket
      /\ admitted' = Admit(admitted, now) \/ admitted' = admitted
      /\ lockEnd' = answer.bucket.lockedUntil \/ lockEnd' = lockEnd
      /\ UNCHANGED <<driver, slots, now>>
  BY DEF Hit
<1> HIDE DEF answer
<1>4. answer.bucket.lockedUntil \in Nat
  BY <1>2 DEF BucketsOf, Bucket
<1>5. admitted' \subseteq [at : 1..MaxClock, nth : Nat] /\ IsFiniteSet(admitted')
  BY <1>3, AdmittedType DEF LimiterTyped, LimiterTypeOK
<1>6. lockEnd' \in Nat /\ bucket' \in Bucket(0..LimitRule.limit, 0..MaxClock)
  BY <1>1, <1>2, <1>3, <1>4 DEF BucketsOf
<1>7. driver' \in Drivers /\ now' \in 1..MaxClock
      /\ slots' \in [0..MaxClock -> 0..(LimitRule.limit + 1)]
  BY <1>3 DEF LimiterTyped, LimiterTypeOK
<1> QED BY <1>5, <1>6, <1>7 DEF LimiterTyped, LimiterTypeOK

LEMMA SharedHitType ==
  ASSUME LimiterTyped, SharedHit
  PROVE  LimiterTyped'
<1>1. PICK s : /\ s = Slot(LimitRule, now) /\ slots[s] <= LimitRule.limit
               /\ slots' = [slots EXCEPT ![s] = slots[s] + 1]
  BY DEF SharedHit
<1>2. LimitRule.limit \in Nat \ {0}
  BY LimiterAssumption
<1>3. slots \in [0..MaxClock -> 0..(LimitRule.limit + 1)]
  BY DEF LimiterTyped, LimiterTypeOK
<1>4. s \in 0..MaxClock => slots[s] + 1 \in 0..(LimitRule.limit + 1)
  BY <1>1, <1>2, <1>3
<1>5. slots' \in [0..MaxClock -> 0..(LimitRule.limit + 1)]
  BY <1>1, <1>3, <1>4
<1>6. /\ admitted' = Admit(admitted, now) \/ admitted' = admitted
      /\ UNCHANGED <<driver, bucket, lockEnd, now>>
  BY DEF SharedHit
<1>7. admitted' \subseteq [at : 1..MaxClock, nth : Nat] /\ IsFiniteSet(admitted')
  BY <1>6, AdmittedType DEF LimiterTyped, LimiterTypeOK
<1> QED BY <1>5, <1>6, <1>7 DEF LimiterTyped, LimiterTypeOK

LEMMA LimiterStaysTyped ==
  ASSUME LimiterTyped, [LimiterNext]_<<limiterVars, now>>
  PROVE  LimiterTyped'
<1>1. CASE Hit
  BY <1>1, HitType
<1>2. CASE SharedHit
  BY <1>2, SharedHitType
<1>3. CASE Evict
  <2>1. LimitRule \in RuleType /\ MaxClock \in Nat
    BY LimiterAssumption, MaxClockAssumption DEF RuleType
  <2>2. NoBucket \in Bucket(0..LimitRule.limit, 0..MaxClock)
    BY <2>1, EmptyBucket DEF BucketsOf
  <2> QED BY <1>3, <2>2 DEF Evict, LimiterTyped, LimiterTypeOK
<1>4. CASE LimiterTick
  <2>1. admitted' \in SUBSET admitted
    BY <1>4 DEF LimiterTick, Recent
  <2>2. IsFiniteSet(admitted')
    BY <2>1, FS_Subset DEF LimiterTyped
  <2>3. now' \in 1..MaxClock
    BY <1>4, MaxClockAssumption DEF LimiterTick, Tick, LimiterTyped
  <2>4. UNCHANGED <<driver, bucket, slots, lockEnd>>
    BY <1>4 DEF LimiterTick
  <2> QED BY <2>1, <2>2, <2>3, <2>4 DEF LimiterTyped, LimiterTypeOK
<1>5. CASE UNCHANGED <<limiterVars, now>>
  BY <1>5 DEF limiterVars, LimiterTyped, LimiterTypeOK
<1> QED BY <1>1, <1>2, <1>3, <1>4, <1>5 DEF LimiterNext, FloorHit, EndpointHit

LEMMA LimiterStarts == LimiterInit /\ ClockInit => LimiterTyped
<1> SUFFICES ASSUME LimiterInit, ClockInit
             PROVE  LimiterTyped
  OBVIOUS
<1>1. LimitRule \in RuleType /\ MaxClock \in Nat \ {0} /\ LimitRule.limit \in Nat
  BY LimiterAssumption, MaxClockAssumption DEF RuleType
<1>2. bucket \in Bucket(0..LimitRule.limit, 0..MaxClock)
  BY <1>1, EmptyBucket DEF BucketsOf, LimiterInit
<1>3. slots \in [0..MaxClock -> 0..(LimitRule.limit + 1)]
  BY <1>1 DEF LimiterInit
<1>4. now \in 1..MaxClock
  BY <1>1 DEF ClockInit
<1> QED BY <1>2, <1>3, <1>4, FS_EmptySet DEF LimiterInit, LimiterTyped, LimiterTypeOK

\* Types of the bucket, of the shared counters and of what was admitted.
THEOREM LimiterTypes == LimiterSpec => []LimiterTypeOK
<1>1. LimiterTyped => LimiterTypeOK
  BY DEF LimiterTyped
<1> QED BY <1>1, LimiterStarts, LimiterStaysTyped, PTL DEF LimiterSpec

-----------------------------------------------------------------------------
(* Codes: with the rows and the requests, the budgets.                      *)

BudgetTyped ==
    /\ now \in 1..MaxClock
    /\ verifyBudget \in [Destinations -> BucketsOf(VerifyRule, MaxClock)]

LEMMA BudgetStaysTyped ==
  ASSUME BudgetTyped, [OtpNext]_<<otpVars, now>>
  PROVE  BudgetTyped'
<1>1. VerifyRule \in RuleType /\ MaxClock \in Nat /\ now \in 0..MaxClock
  BY OtpAssumption, MaxClockAssumption DEF RuleType, BudgetTyped
<1>2. NoBucket \in BucketsOf(VerifyRule, MaxClock)
  BY <1>1, EmptyBucket
<1>3. CASE UNCHANGED <<verifyBudget, now>>
  BY <1>3 DEF BudgetTyped
<1>4. ASSUME NEW r \in Logins, NEW d \in Destinations, Verify(r, d)
      PROVE  BudgetTyped'
  <2>1. verifyBudget[d] \in BucketsOf(VerifyRule, MaxClock)
    BY DEF BudgetTyped
  <2>2. PICK after : after = Consume(verifyBudget[d], VerifyRule, now).bucket
    OBVIOUS
  <2>3. after \in BucketsOf(VerifyRule, MaxClock)
    BY <1>1, <2>1, <2>2, ConsumedBucket
  <2>4. verifyBudget' = [verifyBudget EXCEPT ![d] = after] /\ now' = now
    BY <1>4, <2>2 DEF Verify, TakeBudget
  <2> QED BY <2>3, <2>4 DEF BudgetTyped
<1>5. ASSUME NEW r \in Logins, Burn(r)
      PROVE  BudgetTyped'
  <2>1. verifyBudget' = [verifyBudget EXCEPT ![Dest(r)] = NoBucket] /\ now' = now
    BY <1>5 DEF Burn
  <2> QED BY <1>2, <2>1 DEF BudgetTyped
<1>6. CASE OtpRestart
  BY <1>2, <1>6 DEF OtpRestart, BudgetTyped
<1>7. CASE OtpTick
  <2>1. UNCHANGED verifyBudget /\ now' = now + 1 /\ now < MaxClock
    BY <1>7 DEF OtpTick, Tick, otpVars
  <2>2. now' \in 1..MaxClock
    BY <1>1, <2>1
  <2> QED BY <2>1, <2>2 DEF BudgetTyped
<1>8. ASSUME NEW r \in Logins, Steps(r)
      PROVE  BudgetTyped'
  <2>1. CASE \E d \in Destinations : Verify(r, d)
    BY <1>4, <2>1
  <2>2. CASE Burn(r)
    BY <1>5, <2>2
  <2>3. CASE \/ ReadChallenge(r) \/ CountAttempt(r) \/ FindAccount(r) \/ CreateAccount(r)
             \/ OpenSession(r) \/ LoginFails(r)
    BY <1>3, <2>3
    DEF ReadChallenge, CountAttempt, FindAccount, CreateAccount, OpenSession, LoginFails
  <2> QED BY <1>8, <2>1, <2>2, <2>3 DEF Steps
<1>9. ASSUME NEW d \in Destinations, SendCode(d)
      PROVE  BudgetTyped'
  BY <1>3, <1>9 DEF SendCode
<1>10. CASE UNCHANGED <<otpVars, now>>
  BY <1>3, <1>10 DEF otpVars
<1> QED BY <1>6, <1>7, <1>8, <1>9, <1>10, StepsAreThese

LEMMA BudgetStarts == OtpInit /\ ClockInit => BudgetTyped
<1> SUFFICES ASSUME OtpInit, ClockInit
             PROVE  BudgetTyped
  OBVIOUS
<1>1. VerifyRule \in RuleType /\ MaxClock \in Nat \ {0}
  BY OtpAssumption, MaxClockAssumption DEF RuleType
<1>2. NoBucket \in BucketsOf(VerifyRule, MaxClock)
  BY <1>1, EmptyBucket
<1> QED BY <1>1, <1>2 DEF OtpInit, ClockInit, BudgetTyped

LEMMA OtpIsTyped == RowInv /\ BudgetTyped => OtpTypeOK
<1> SUFFICES ASSUME RowInv, BudgetTyped
             PROVE  OtpTypeOK
  OBVIOUS
<1>1. \A r \in Logins : login[r].pc \in {"idle", "read", "wrong", "right", "lock", "insert", "open"}
  BY DEF RowInv, LoginsTyped, Requests, Inside
<1>2. \A d \in Destinations : /\ verifyBudget[d] \in Bucket(0..VerifyRule.limit, 0..MaxClock)
                              /\ advisory[d] \in Logins \cup {Nobody}
  BY DEF RowInv, LoginsTyped, BudgetTyped, BucketsOf
<1> QED BY <1>1, <1>2 DEF RowInv, LoginsTyped, OtpTypeOK, Challenges

\* Types of the rows, of the requests and of the budgets.
THEOREM OtpTypes == OtpSpec => []OtpTypeOK
BY BudgetStarts, BudgetStaysTyped, OtpIsTyped, AlwaysKnowsRows, PTL DEF OtpSpec

-----------------------------------------------------------------------------
(* The area's lock: changes and epochs are as many as the record has had.   *)

AreaRecords(n) == {d \in LockRecord : d.epoch <= n /\ d.change <= n}

AreaFacts == 1..MaxChanges

AreaTyped ==
    /\ AreaTypeOK
    /\ lock \in StoreType(AreaRecords(changes), AreaFacts)
    /\ IsFiniteSet(setting)
    /\ changes + Cardinality(setting) <= MaxChanges

\* The records of more changes are no fewer.
LEMMA MoreRecords ==
  ASSUME NEW n \in Nat, NEW st \in StoreType(AreaRecords(n), AreaFacts)
  PROVE  st \in StoreType(AreaRecords(n + 1), AreaFacts) /\ st \in StoreType(LockRecord, AreaFacts)
<1>1. AreaRecords(n) \subseteq AreaRecords(n + 1) /\ AreaRecords(n) \subseteq LockRecord
  <2>1. \A d \in LockRecord : d.epoch \in Int /\ d.change \in Int
    BY DEF LockRecord
  <2> QED BY <2>1 DEF AreaRecords
<1>2. ASSUME NEW D, AreaRecords(n) \subseteq D
      PROVE  st \in StoreType(D, AreaFacts)
  <2>1. /\ st.mem \in D /\ st.disk \in D /\ st.loaded \in BOOLEAN /\ st.acked \subseteq AreaFacts
        /\ st = [mem |-> st.mem, loaded |-> st.loaded, disk |-> st.disk,
                 puts |-> st.puts, acked |-> st.acked]
        /\ st.puts \in Seq([doc : AreaRecords(n), fact : AreaFacts])
    BY <1>2 DEF StoreType
  <2>2. st.puts \in Seq([doc : D, fact : AreaFacts])
    <3>1. [doc : AreaRecords(n), fact : AreaFacts] \subseteq [doc : D, fact : AreaFacts]
      BY <1>2
    <3> DEFINE S == [doc : AreaRecords(n), fact : AreaFacts]
               T == [doc : D, fact : AreaFacts]
    <3>2. st.puts \in Seq(S) /\ S \subseteq T
      BY <2>1, <3>1
    <3> HIDE DEF S, T
    <3>3. st.puts \in Seq(T)
      BY <3>2, SeqMonotonic
    <3> QED BY <3>3 DEF T
  <2> QED BY <2>1, <2>2 DEF StoreType
<1> QED BY <1>1, <1>2

\* What the hashing of a password adds and takes from the changes to come.
LEMMA OneSetting ==
  ASSUME IsFiniteSet(setting), NEW w
  PROVE  /\ IsFiniteSet(setting \cup {w}) /\ IsFiniteSet(setting \ {w})
         /\ Cardinality(setting) \in Nat
         /\ Cardinality(setting \cup {w}) \in Nat /\ Cardinality(setting \ {w}) \in Nat
         /\ Cardinality(setting \cup {w}) <= Cardinality(setting) + 1
         /\ w \in setting => Cardinality(setting \ {w}) = Cardinality(setting) - 1
<1>1. /\ IsFiniteSet(setting \cup {w})
      /\ Cardinality(setting \cup {w}) =
             IF w \in setting THEN Cardinality(setting) ELSE Cardinality(setting) + 1
  BY FS_AddElement
<1>2. /\ IsFiniteSet(setting \ {w})
      /\ Cardinality(setting \ {w}) =
             IF w \in setting THEN Cardinality(setting) - 1 ELSE Cardinality(setting)
  BY FS_RemoveElement
<1>3. /\ Cardinality(setting) \in Nat
      /\ Cardinality(setting \cup {w}) \in Nat /\ Cardinality(setting \ {w}) \in Nat
  BY <1>1, <1>2, FS_CardinalityType
<1> QED BY <1>1, <1>2, <1>3

\* A change of the record.
LEMMA ChangeType ==
  ASSUME AreaTyped, changes < MaxChanges, changes' = changes + 1,
         NEW doc, doc.epoch = lock.mem.epoch + 1, doc.change = changes + 1,
         doc \in LockDocs,
         lock' = Save(lock, doc, changes + 1)
  PROVE  /\ lock' \in StoreType(AreaRecords(changes'), AreaFacts)
         /\ lock' \in StoreType(LockRecord, AreaFacts)
         /\ changes' \in 0..MaxChanges
<1>1. changes \in Nat /\ MaxChanges \in Nat
  BY AreaAssumption DEF AreaTyped, AreaTypeOK
<1>2. lock \in StoreType(AreaRecords(changes), AreaFacts)
  BY DEF AreaTyped
<1>3. lock \in StoreType(AreaRecords(changes + 1), AreaFacts)
  BY <1>1, <1>2, MoreRecords
<1>4. lock.mem.epoch \in Nat /\ lock.mem.epoch <= changes
  <2>1. lock.mem \in AreaRecords(changes)
    BY <1>2, StoreFields
  <2> QED BY <2>1 DEF AreaRecords, LockRecord
<1>5. doc \in AreaRecords(changes + 1)
  <2>1. /\ doc.epoch \in 0..MaxChanges /\ doc.change \in 0..MaxChanges
        /\ doc.epoch <= changes + 1 /\ doc.change <= changes + 1
    BY <1>1, <1>4
  <2>2. doc = [enabled |-> doc.enabled, password |-> doc.password,
               epoch |-> doc.epoch, change |-> doc.change]
        /\ doc.enabled \in BOOLEAN /\ doc.password \in Passwords \cup {NoPassword}
    BY DEF LockDocs
  <2>3. doc \in LockRecord
    BY <2>1, <2>2 DEF LockRecord
  <2> QED BY <2>1, <2>3 DEF AreaRecords
<1>6. changes + 1 \in AreaFacts /\ changes + 1 \in 0..MaxChanges
  BY <1>1 DEF AreaFacts
<1>7. lock' \in StoreType(AreaRecords(changes + 1), AreaFacts)
  BY <1>3, <1>5, <1>6, SavedStore
<1>8. lock' \in StoreType(LockRecord, AreaFacts)
  <2>1. changes + 1 \in Nat
    BY <1>1
  <2> QED BY <1>7, <2>1, MoreRecords
<1> QED BY <1>6, <1>7, <1>8

LEMMA PasswordType ==
  ASSUME AreaTyped, NEW w \in Passwords, PasswordHashed(w)
  PROVE  AreaTyped'
<1>1. changes \in Nat /\ MaxChanges \in Nat
  BY AreaAssumption DEF AreaTyped, AreaTypeOK
<1>2. /\ w \in setting /\ changes' = changes + 1 /\ setting' = setting \ {w}
      /\ UNCHANGED <<unlocking, areaTickets, crashes, now>>
  BY DEF PasswordHashed
<1>3. changes + Cardinality(setting) <= MaxChanges /\ IsFiniteSet(setting)
  BY DEF AreaTyped
<1>4. /\ IsFiniteSet(setting') /\ Cardinality(setting) \in Nat
      /\ Cardinality(setting') = Cardinality(setting) - 1 /\ Cardinality(setting') \in Nat
  BY <1>2, <1>3, OneSetting
<1>5. changes < MaxChanges /\ changes' + Cardinality(setting') <= MaxChanges
  BY <1>1, <1>2, <1>3, <1>4
<1>6. PICK doc : doc = [enabled |-> TRUE, password |-> w,
                        epoch |-> NextEpoch(lock.mem), change |-> changes + 1]
  OBVIOUS
<1>7. lock' = Save(lock, doc, changes + 1)
  BY <1>6 DEF PasswordHashed
<1>8. lock.mem \in LockRecord
  <2>1. lock \in StoreType(LockRecord, AreaFacts)
    BY DEF AreaTyped, AreaTypeOK, AreaFacts
  <2> QED BY <2>1, StoreFields
<1>9. /\ doc.epoch = lock.mem.epoch + 1 /\ doc.change = changes + 1
      /\ doc \in LockDocs
  BY <1>1, <1>6, <1>8 DEF NextEpoch, LockRecord, LockDocs
<1>10. /\ lock' \in StoreType(AreaRecords(changes'), AreaFacts)
       /\ lock' \in StoreType(LockRecord, AreaFacts)
       /\ changes' \in 0..MaxChanges
  BY <1>2, <1>5, <1>7, <1>9, ChangeType
<1>11. setting' \subseteq Passwords
  BY <1>2 DEF AreaTyped, AreaTypeOK
<1> QED BY <1>2, <1>4, <1>5, <1>10, <1>11 DEF AreaTyped, AreaTypeOK, AreaFacts

LEMMA DisableType ==
  ASSUME AreaTyped, DisableArea
  PROVE  AreaTyped'
<1>1. changes \in Nat /\ MaxChanges \in Nat
  BY AreaAssumption DEF AreaTyped, AreaTypeOK
<1>2. /\ changes + Cardinality(setting) < MaxChanges /\ changes' = changes + 1
      /\ UNCHANGED <<setting, unlocking, areaTickets, crashes, now>>
  BY DEF DisableArea
<1>3. IsFiniteSet(setting) /\ Cardinality(setting) \in Nat
  BY OneSetting DEF AreaTyped
<1>4. changes < MaxChanges /\ changes' + Cardinality(setting') <= MaxChanges
  BY <1>1, <1>2, <1>3
<1>5. lock.mem \in LockDocs
  <2>1. lock \in StoreType(LockRecord, AreaFacts)
    BY DEF AreaTyped, AreaTypeOK, AreaFacts
  <2>2. lock.mem \in LockRecord
    BY <2>1, StoreFields
  <2> QED BY <1>1, <2>2 DEF LockRecord, LockDocs
<1>6. PICK doc : doc = [lock.mem EXCEPT !.enabled = FALSE, !.epoch = @ + 1, !.change = changes + 1]
  OBVIOUS
<1>7. doc \in LockDocs /\ doc.epoch = lock.mem.epoch + 1 /\ doc.change = changes + 1
  BY <1>1, <1>5, <1>6, DisabledIsNext DEF DisabledRecord
<1>8. lock' = Save(lock, doc, changes + 1)
  BY <1>6 DEF DisableArea
<1>9. /\ lock' \in StoreType(AreaRecords(changes'), AreaFacts)
      /\ lock' \in StoreType(LockRecord, AreaFacts)
      /\ changes' \in 0..MaxChanges
  BY <1>2, <1>4, <1>7, <1>8, ChangeType
<1> QED BY <1>2, <1>3, <1>4, <1>9 DEF AreaTyped, AreaTypeOK, AreaFacts

\* The steps that leave the record's changes alone.
LEMMA SameChangesType ==
  ASSUME AreaTyped, UNCHANGED changes,
         \/ lock' = lock
         \/ lock' = Load(lock)
         \/ lock' \in Settles(lock, TRUE)
         \/ lock' = Crash(lock, NoLock)
  PROVE  /\ lock' \in StoreType(AreaRecords(changes'), AreaFacts)
         /\ lock' \in StoreType(LockRecord, AreaFacts)
         /\ changes' \in 0..MaxChanges
<1>1. changes \in Nat /\ lock \in StoreType(AreaRecords(changes), AreaFacts)
  BY AreaAssumption DEF AreaTyped, AreaTypeOK
<1>2. NoLock \in AreaRecords(changes)
  <2>1. MaxChanges \in Nat
    BY AreaAssumption
  <2>2. NoLock \in LockRecord
    BY <2>1 DEF NoLock, LockRecord
  <2>3. NoLock.epoch = 0 /\ NoLock.change = 0
    BY DEF NoLock
  <2> QED BY <1>1, <2>2, <2>3 DEF AreaRecords
<1>3. lock' \in StoreType(AreaRecords(changes), AreaFacts)
  <2>1. CASE lock' = lock
    BY <1>1, <2>1
  <2>2. CASE lock' = Load(lock)
    BY <1>1, <2>2, LoadedStore
  <2>3. CASE lock' \in Settles(lock, TRUE)
    BY <1>1, <2>3, SettlingType
  <2>4. CASE lock' = Crash(lock, NoLock)
    BY <1>1, <1>2, <2>4, CrashedStore
  <2> QED BY <2>1, <2>2, <2>3, <2>4
<1> QED BY <1>1, <1>3, MoreRecords DEF AreaTyped, AreaTypeOK

LEMMA AreaStaysTyped ==
  ASSUME AreaTyped, [AreaNext]_<<areaVars, now>>
  PROVE  AreaTyped'
<1>1. ASSUME UNCHANGED <<setting, changes>>,
             lock' = lock \/ lock' = Load(lock) \/ lock' \in Settles(lock, TRUE),
             unlocking' \in [Unlocks -> [given : Passwords \cup {NoPassword},
                                         stored : Passwords \cup {NoPassword}]]
      PROVE  AreaTyped'
  BY <1>1, SameChangesType DEF AreaTyped, AreaTypeOK, AreaFacts
<1>2. CASE AreaLoad
  BY <1>1, <1>2 DEF AreaLoad, AreaTyped, AreaTypeOK
<1>3. CASE LockSettles
  BY <1>1, <1>3 DEF LockSettles, AreaTyped, AreaTypeOK
<1>4. ASSUME NEW w \in Passwords, SetPassword(w)
      PROVE  AreaTyped'
  <2>1. changes \in Nat /\ MaxChanges \in Nat
    BY AreaAssumption DEF AreaTyped, AreaTypeOK
  <2>2. changes + Cardinality(setting) < MaxChanges
        /\ setting' = setting \cup {w} /\ UNCHANGED <<lock, unlocking, changes>>
    BY <1>4 DEF SetPassword
  <2>3. /\ IsFiniteSet(setting') /\ Cardinality(setting') \in Nat /\ Cardinality(setting) \in Nat
        /\ Cardinality(setting') <= Cardinality(setting) + 1
    BY <2>2, OneSetting DEF AreaTyped
  <2>4. changes' + Cardinality(setting') <= MaxChanges
    BY <2>1, <2>2, <2>3
  <2> QED BY <2>2, <2>3, <2>4 DEF AreaTyped, AreaTypeOK
<1>5. ASSUME NEW u \in Unlocks, NEW w \in Passwords, Unlock(u, w)
      PROVE  AreaTyped'
  <2>1. lock.mem.password \in Passwords \cup {NoPassword}
    <3>1. lock \in StoreType(LockRecord, AreaFacts)
      BY DEF AreaTyped, AreaTypeOK, AreaFacts
    <3>2. lock.mem \in LockRecord
      BY <3>1, StoreFields
    <3> QED BY <3>2 DEF LockRecord
  <2>2. [given |-> w, stored |-> lock.mem.password]
            \in [given : Passwords \cup {NoPassword}, stored : Passwords \cup {NoPassword}]
    BY <2>1
  <2> QED BY <1>1, <1>5, <2>2 DEF Unlock, AreaTyped, AreaTypeOK
<1>6. ASSUME NEW u \in Unlocks, UnlockHashed(u)
      PROVE  AreaTyped'
  BY <1>1, <1>6 DEF UnlockHashed, NoUnlock, AreaTyped, AreaTypeOK
<1>7. CASE AreaCrash
  <2>1. /\ UNCHANGED changes /\ setting' = {} /\ lock' = Crash(lock, NoLock)
        /\ unlocking' = [u \in Unlocks |-> NoUnlock]
    BY <1>7 DEF AreaCrash
  <2>2. IsFiniteSet(setting') /\ Cardinality(setting') = 0
    BY <2>1, FS_EmptySet
  <2>3. changes' + Cardinality(setting') <= MaxChanges
    BY <2>1, <2>2, AreaAssumption DEF AreaTyped, AreaTypeOK
  <2>4. unlocking' \in [Unlocks -> [given : Passwords \cup {NoPassword},
                                    stored : Passwords \cup {NoPassword}]]
    BY <2>1 DEF NoUnlock
  <2>5. setting' \subseteq Passwords
    BY <2>1
  <2>6. /\ lock' \in StoreType(AreaRecords(changes'), AreaFacts)
        /\ lock' \in StoreType(LockRecord, AreaFacts)
        /\ changes' \in 0..MaxChanges
    BY <2>1, SameChangesType
  <2> QED BY <2>2, <2>3, <2>4, <2>5, <2>6 DEF AreaTyped, AreaTypeOK, AreaFacts
<1>8. CASE AreaTick
  BY <1>1, <1>8 DEF AreaTick, AreaTyped, AreaTypeOK
<1>9. CASE UNCHANGED <<areaVars, now>>
  BY <1>1, <1>9 DEF areaVars, AreaTyped, AreaTypeOK
<1> QED BY <1>2, <1>3, <1>4, <1>5, <1>6, <1>7, <1>8, <1>9, PasswordType, DisableType DEF AreaNext

LEMMA AreaStarts == AreaInit => AreaTyped
<1> SUFFICES ASSUME AreaInit
             PROVE  AreaTyped
  OBVIOUS
<1>1. lock = NewStore(NoLock) /\ setting = {} /\ changes = 0
      /\ unlocking = [u \in Unlocks |-> NoUnlock]
  BY DEF AreaInit
<1>2. MaxChanges \in Nat
  BY AreaAssumption
<1>3. NoLock \in AreaRecords(0)
  BY <1>2 DEF NoLock, AreaRecords, LockRecord
<1>4. lock \in StoreType(AreaRecords(0), AreaFacts)
  BY <1>1, <1>3, NewStoreType
<1>5. lock \in StoreType(LockRecord, AreaFacts)
  BY <1>4, MoreRecords
<1>6. IsFiniteSet(setting) /\ changes + Cardinality(setting) <= MaxChanges
  BY <1>1, <1>2, FS_EmptySet
<1>7. unlocking \in [Unlocks -> [given : Passwords \cup {NoPassword},
                                 stored : Passwords \cup {NoPassword}]]
  BY <1>1 DEF NoUnlock
<1> QED BY <1>1, <1>2, <1>4, <1>5, <1>6, <1>7 DEF AreaTyped, AreaTypeOK, AreaFacts

\* Types of the area's store and of the requests: an epoch never passes the
\* number of changes the record has had.
THEOREM AreaTypes == AreaSpec => []AreaTypeOK
<1>1. AreaTyped => AreaTypeOK
  BY DEF AreaTyped
<1> QED BY <1>1, AreaStarts, AreaStaysTyped, PTL DEF AreaSpec

-----------------------------------------------------------------------------
(* The whole.  The part that runs keeps the invariant its proof has; the    *)
(* others stay as they began, whose types the clock does not touch.         *)

IdentityTyped ==
    /\ IdentityTypeOK
    /\ part = "limiter" => LimiterTyped
    /\ part = "otp" => RowInv /\ BudgetTyped
    /\ part = "sessions" => SessionsTyped
    /\ part = "area" => AreaTyped
    /\ part = "tokens" => TokensTyped
    /\ part = "passkeys" => PasskeysInv

LEMMA IdentityStarts == MCInit => IdentityTyped
<1> SUFFICES ASSUME MCInit
             PROVE  IdentityTyped
  OBVIOUS
<1>1. /\ ClockInit /\ LimiterInit /\ OtpInit /\ SessionsInit
      /\ AreaInit /\ TokensInit /\ PasskeysInit
  BY DEF MCInit
<1>2. LimiterTyped /\ LimiterTypeOK
  BY <1>1, LimiterStarts DEF LimiterTyped
<1>3. RowInv /\ BudgetTyped /\ OtpTypeOK
  BY <1>1, RowsStart, BudgetStarts, OtpIsTyped
<1>4. SessionsTyped /\ SessionsTypeOK
  BY <1>1, SessionsStart DEF SessionsTyped
<1>5. AreaTyped /\ AreaTypeOK
  BY <1>1, AreaStarts DEF AreaTyped
<1>6. TokensTyped /\ TokensTypeOK
  BY <1>1, TokensStart, TokensAreTyped
<1>7. PasskeysInv /\ PasskeysTypeOK
  BY <1>1, PasskeysStart, PasskeysAreTyped
<1> QED BY <1>2, <1>3, <1>4, <1>5, <1>6, <1>7 DEF IdentityTyped, IdentityTypeOK

\* A part that does not move keeps its types.
LEMMA OthersKeepTypes ==
  ASSUME IdentityTypeOK
  PROVE  /\ UNCHANGED limiterVars => LimiterTypeOK'
         /\ UNCHANGED otpVars => OtpTypeOK'
         /\ UNCHANGED sessionVars => SessionsTypeOK'
         /\ UNCHANGED areaVars => AreaTypeOK'
         /\ UNCHANGED tokenVars => TokensTypeOK'
         /\ UNCHANGED passkeyVars => PasskeysTypeOK'
<1>1. UNCHANGED limiterVars => LimiterTypeOK'
  BY DEF IdentityTypeOK, LimiterTypeOK, limiterVars
<1>2. UNCHANGED otpVars => OtpTypeOK'
  BY DEF IdentityTypeOK, OtpTypeOK, otpVars
<1>3. UNCHANGED sessionVars => SessionsTypeOK'
  BY DEF IdentityTypeOK, SessionsTypeOK, sessionVars
<1>4. UNCHANGED areaVars => AreaTypeOK'
  BY DEF IdentityTypeOK, AreaTypeOK, areaVars
<1>5. UNCHANGED tokenVars => TokensTypeOK'
  BY DEF IdentityTypeOK, TokensTypeOK, tokenVars
<1>6. UNCHANGED passkeyVars => PasskeysTypeOK'
  BY DEF IdentityTypeOK, PasskeysTypeOK, passkeyVars
<1> QED BY <1>1, <1>2, <1>3, <1>4, <1>5, <1>6

LEMMA IdentitySteps ==
  ASSUME IdentityTyped, MCNext
  PROVE  IdentityTyped'
<1>1. IdentityTypeOK /\ part' = part
  BY DEF IdentityTyped, MCNext, Only
<1>2. CASE part = "limiter" /\ LimiterNext /\ Only("limiter")
  <2>1. LimiterTyped' /\ LimiterTypeOK'
    BY <1>2, LimiterStaysTyped DEF IdentityTyped, LimiterTyped
  <2>2. UNCHANGED <<otpVars, sessionVars, areaVars, tokenVars, passkeyVars>>
    BY <1>2 DEF Only
  <2> QED BY <1>1, <1>2, <2>1, <2>2, OthersKeepTypes DEF IdentityTyped, IdentityTypeOK
<1>3. CASE part = "otp" /\ OtpNext /\ Only("otp")
  <2>1. RowInv' /\ BudgetTyped' /\ OtpTypeOK'
    <3>1. RowInv' /\ BudgetTyped'
      BY <1>3, StepKnowsRows, BudgetStaysTyped DEF IdentityTyped
    <3>2. (RowInv /\ BudgetTyped => OtpTypeOK)'
      BY OtpIsTyped, PTL
    <3> QED BY <3>1, <3>2
  <2>2. UNCHANGED <<limiterVars, sessionVars, areaVars, tokenVars, passkeyVars>>
    BY <1>3 DEF Only
  <2> QED BY <1>1, <1>3, <2>1, <2>2, OthersKeepTypes DEF IdentityTyped, IdentityTypeOK
<1>4. CASE part = "sessions" /\ SessionsNext /\ Only("sessions")
  <2>1. SessionsTyped' /\ SessionsTypeOK'
    BY <1>4, StepTypes DEF IdentityTyped, SessionsTyped
  <2>2. UNCHANGED <<limiterVars, otpVars, areaVars, tokenVars, passkeyVars>>
    BY <1>4 DEF Only
  <2> QED BY <1>1, <1>4, <2>1, <2>2, OthersKeepTypes DEF IdentityTyped, IdentityTypeOK
<1>5. CASE part = "area" /\ AreaNext /\ Only("area")
  <2>1. AreaTyped' /\ AreaTypeOK'
    BY <1>5, AreaStaysTyped DEF IdentityTyped, AreaTyped
  <2>2. UNCHANGED <<limiterVars, otpVars, sessionVars, tokenVars, passkeyVars>>
    BY <1>5 DEF Only
  <2> QED BY <1>1, <1>5, <2>1, <2>2, OthersKeepTypes DEF IdentityTyped, IdentityTypeOK
<1>6. CASE part = "tokens" /\ TokensNext /\ Only("tokens")
  <2>1. TokensTyped' /\ TokensTypeOK'
    <3>1. TokensTyped'
      BY <1>6, TokensKeepTypes DEF IdentityTyped
    <3>2. (TokensTyped => TokensTypeOK)'
      BY TokensAreTyped, PTL
    <3> QED BY <3>1, <3>2
  <2>2. UNCHANGED <<limiterVars, otpVars, sessionVars, areaVars, passkeyVars>>
    BY <1>6 DEF Only
  <2> QED BY <1>1, <1>6, <2>1, <2>2, OthersKeepTypes DEF IdentityTyped, IdentityTypeOK
<1>7. CASE part = "passkeys" /\ PasskeysNext /\ Only("passkeys")
  <2>1. PasskeysInv' /\ PasskeysTypeOK'
    <3>1. PasskeysInv'
      BY <1>7, PasskeysStep DEF IdentityTyped
    <3>2. (PasskeysInv => PasskeysTypeOK)'
      BY PasskeysAreTyped, PTL
    <3> QED BY <3>1, <3>2
  <2>2. UNCHANGED <<limiterVars, otpVars, sessionVars, areaVars, tokenVars>>
    BY <1>7 DEF Only
  <2> QED BY <1>1, <1>7, <2>1, <2>2, OthersKeepTypes DEF IdentityTyped, IdentityTypeOK
<1> QED BY <1>2, <1>3, <1>4, <1>5, <1>6, <1>7 DEF MCNext

LEMMA IdentityStutters ==
  ASSUME IdentityTyped,
         UNCHANGED <<part, now, limiterVars, otpVars, sessionVars, areaVars,
                     tokenVars, passkeyVars>>
  PROVE  IdentityTyped'
<1>1. /\ UNCHANGED <<limiterVars, now>> /\ UNCHANGED <<otpVars, now>>
      /\ UNCHANGED <<sessionVars, now>> /\ UNCHANGED <<areaVars, now>>
      /\ UNCHANGED <<tokenVars, now>> /\ UNCHANGED <<passkeyVars, now>>
      /\ UNCHANGED part
  OBVIOUS
<1>2. /\ (LimiterTyped => LimiterTyped')
      /\ (RowInv => RowInv') /\ (BudgetTyped => BudgetTyped')
      /\ (SessionsTyped => SessionsTyped') /\ (AreaTyped => AreaTyped')
      /\ (TokensTyped => TokensTyped') /\ (PasskeysInv => PasskeysInv')
  BY <1>1, LimiterStaysTyped, StepKnowsRows, BudgetStaysTyped, StepTypes, AreaStaysTyped,
     TokensKeepTypes, PasskeysStep
<1>3. IdentityTypeOK'
  BY <1>1, OthersKeepTypes DEF IdentityTyped, IdentityTypeOK
<1> QED BY <1>1, <1>2, <1>3 DEF IdentityTyped

\* Whichever part runs, the rows, stores, requests and budgets of all keep their types.
THEOREM IdentityKeepsTypes == MCSpec => []IdentityTypeOK
<1>1. IdentityTyped /\ [MCNext]_<<part, now, limiterVars, otpVars, sessionVars, areaVars,
                                  tokenVars, passkeyVars>> => IdentityTyped'
  BY IdentitySteps, IdentityStutters
<1>2. IdentityTyped => IdentityTypeOK
  BY DEF IdentityTyped
<1> QED BY <1>1, <1>2, IdentityStarts, PTL DEF MCSpec

================================================================================
