----------------------------- MODULE RateLimiter -----------------------------
(***************************************************************************)
(* One key of the rate limiter over time: common/rate-limit.service.ts     *)
(* when driver is "memory", common/redis-rate-limit.service.ts when it is  *)
(* "redis" (pickRateLimiterDriver reads the choice once, at boot).  Every   *)
(* limited route (common/global-rate-limit.middleware.ts,                  *)
(* common/endpoint-rate-limit.guard.ts, the feature limiters) is a caller  *)
(* of Hit; what it does with the verdict is its own business.              *)
(***************************************************************************)
EXTENDS Clock, RateLimits, FiniteSets

CONSTANTS LimitRule,    \* the rule of the key
          Idle,         \* thirty minutes: how long the sweeper lets a bucket rest
          Drivers       \* which drivers a run explores

ASSUME LimiterAssumption ==
    /\ LimitRule \in [limit : Nat \ {0}, window : Nat \ {0}, cooldown : Nat, lock : Nat]
    /\ Idle \in Nat
    /\ Drivers \subseteq {"memory", "redis"}

VARIABLES driver,       \* the limiter the stack booted with
          bucket,       \* this key's bucket in the memory of the process
          slots,        \* the shared counters, by window index
          admitted,     \* ghost: the hits admitted in the last window
          lockEnd       \* ghost: the end of the last lock a caller was told of

limiterVars == <<driver, bucket, slots, admitted, lockEnd>>

\* A hit is known by its instant and its number there; one more at t, and those
\* of the window before t.
Admit(hits, t) ==
    hits \cup {[at |-> t, nth |-> Cardinality({h \in hits : h.at = t})]}

Recent(hits, t) ==
    {h \in hits : t - h.at < LimitRule.window}

\* pickRateLimiterDriver
LimiterInit ==
    /\ driver \in Drivers
    /\ bucket = NoBucket
    /\ slots = [s \in 0..MaxClock |-> 0]
    /\ admitted = {}
    /\ lockEnd = 0

\* RateLimitService.consume on this key.
Hit ==
    LET answer == Consume(bucket, LimitRule, now) IN
    /\ driver = "memory"
    /\ bucket' = answer.bucket
    /\ admitted' = IF answer.verdict = "allowed" THEN Admit(admitted, now) ELSE admitted
    /\ lockEnd' = IF answer.verdict = "limit" THEN answer.bucket.lockedUntil ELSE lockEnd
    /\ UNCHANGED <<driver, slots, now>>

\* RedisRateLimitService.consume: INCR, and a verdict on the number it returns.
\* A denied request has been counted too.  Redis failing denies as well, before
\* it has counted or after.
SharedHit ==
    LET s == Slot(LimitRule, now) IN
    /\ driver = "redis"
    /\ slots[s] <= LimitRule.limit        \* bound: further denied hits change nothing
    /\ slots' = [slots EXCEPT ![s] = @ + 1]
    /\ \/ /\ SlotVerdict(slots[s] + 1, LimitRule) = "allowed"
          /\ admitted' = Admit(admitted, now)
       \/ UNCHANGED admitted
    /\ UNCHANGED <<driver, bucket, lockEnd, now>>

\* The sweeper that forgets a bucket by its window, whatever lock it holds.
EvictOldWindows ==
    /\ driver = "memory"
    /\ bucket.start # 0
    /\ now - bucket.start >= LimitRule.window
    /\ bucket' = NoBucket
    /\ UNCHANGED <<driver, slots, admitted, lockEnd, now>>

\* evictExpired, at one of its minutes.
Evict ==
    /\ driver = "memory"
    /\ Evictable(bucket, Idle, now)
    /\ bucket' = NoBucket
    /\ UNCHANGED <<driver, slots, admitted, lockEnd, now>>

\* globalRateLimitMiddleware: the floor every request passes but the health
\* probe's, served by the driver of the stack.
FloorHit ==
    Hit \/ SharedHit

\* EndpointRateLimitGuard: always the limiter of the process.
EndpointHit ==
    Hit

LimiterTick ==
    /\ Tick
    /\ admitted' = Recent(admitted, now')
    /\ UNCHANGED <<driver, bucket, slots, lockEnd>>

LimiterNext ==
    FloorHit \/ EndpointHit \/ Evict \/ LimiterTick

LimiterSpec ==
    LimiterInit /\ ClockInit /\ [][LimiterNext]_<<limiterVars, now>>

-----------------------------------------------------------------------------

\* Type correctness of the limiter's state.
LimiterTypeOK ==
    /\ driver \in Drivers
    /\ bucket \in Bucket(0..LimitRule.limit, 0..MaxClock)
    /\ slots \in [0..MaxClock -> 0..(LimitRule.limit + 1)]
    /\ admitted \subseteq [at : 1..MaxClock, nth : Nat]
    /\ lockEnd \in Nat

\* A fixed window is not a sliding one: the end of a window and the start of
\* the next may both be used up.  But no more than that: fewer than window
\* ticks never see more than twice the limit, with either driver, with
\* evictions in between (rate-limit.service.ts consume and evictExpired).
AtMostTwiceTheLimit ==
    Cardinality(admitted) <= 2 * LimitRule.limit

\* Once a caller has been told 'limit', nobody is admitted before the lock he
\* was told of is over: neither a new window nor the sweeper opens it early.
\* (lockedUntil is looked at before the window, and the sweeper's half hour is
\* longer than the window and the lock of every rule in use.)
LockHolds ==
    [][now' = now /\ admitted' # admitted => now >= lockEnd]_<<limiterVars, now>>
==============================================================================
