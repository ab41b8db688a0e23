----------------------------- MODULE RateLimits -----------------------------
(***************************************************************************)
(* The arithmetic of rate limiting: common/rate-limit.service.ts (a fixed  *)
(* window with a cooldown and a lock, one bucket per key, in the memory of *)
(* the process) and common/redis-rate-limit.service.ts (one counter per    *)
(* aligned window, shared by every replica).  Operators only: the state    *)
(* machine is in RateLimiter, and whoever consumes a budget (codes, area   *)
(* locks) keeps its buckets in its own state.                              *)
(*                                                                         *)
(* Time is counted in ticks and starts at 1, so that 0 stands for the      *)
(* fields the code leaves undefined.                                       *)
(***************************************************************************)
EXTENDS Naturals, Sequences

\* A rule: at most limit hits in window, spaced by cooldown (0: none), and a
\* lock once the limit is exceeded.  A rule without lockMs locks for its window.
Rule(limit, window, cooldown, lock) ==
    [limit |-> limit, window |-> window, cooldown |-> cooldown, lock |-> lock]

NoBucket ==
    [count |-> 0, start |-> 0, hit |-> 0, lockedUntil |-> 0]

Bucket(counts, times) ==
    [count : counts, start : times, hit : times, lockedUntil : Nat]

Locked(b, now) ==
    b.lockedUntil # 0 /\ now < b.lockedUntil

\* The bucket the request is counted in: a new one when the window is over.
Current(b, rule, now) ==
    IF b.start = 0 \/ now - b.start >= rule.window
    THEN [NoBucket EXCEPT !.start = now]
    ELSE b

Cooling(b, rule, now) ==
    rule.cooldown # 0 /\ b.hit # 0 /\ now - b.hit < rule.cooldown

\* The mistake of counting a hit before asking whether it is admitted.
ConsumeAll(b, rule, now) ==
    LET cur == Current(b, rule, now) IN
    [verdict |-> IF cur.count >= rule.limit THEN "limit" ELSE "allowed",
     bucket |-> [cur EXCEPT !.count = @ + 1, !.hit = now]]

\* consume(): the verdict and the bucket it leaves.  The lock is looked at
\* before the window, the cooldown before the counter.
Consume(b, rule, now) ==
    LET cur == Current(b, rule, now) IN
    CASE Locked(b, now) ->
            [verdict |-> "locked", bucket |-> b]
      [] ~Locked(b, now) /\ Cooling(cur, rule, now) ->
            [verdict |-> "cooldown", bucket |-> cur]
      [] ~Locked(b, now) /\ ~Cooling(cur, rule, now) /\ cur.count >= rule.limit ->
            [verdict |-> "limit", bucket |-> [cur EXCEPT !.lockedUntil = now + rule.lock]]
      [] OTHER ->
            [verdict |-> "allowed",
             bucket |-> [cur EXCEPT !.count = @ + 1, !.hit = now]]

\* The sweeper's test: no admitted hit (or, failing one, no new window) for
\* longer than idle.  It looks neither at the rule nor at the lock.
Evictable(b, idle, now) ==
    b.start # 0 /\ now - (IF b.hit # 0 THEN b.hit ELSE b.start) > idle

-----------------------------------------------------------------------------
(***************************************************************************)
(* The shared counter: key and window index name a counter of their own.   *)
(***************************************************************************)

Slot(rule, now) ==
    now \div rule.window

\* The mistake of reading the counter before it is incremented.
VerdictBeforeIncr(count, rule) ==
    IF count - 1 <= rule.limit THEN "allowed" ELSE "limit"

\* INCR returned count.
SlotVerdict(count, rule) ==
    IF count <= rule.limit THEN "allowed" ELSE "limit"
=============================================================================
