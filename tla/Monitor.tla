--------------------------------- MODULE Monitor ---------------------------------
(***************************************************************************)
(* How the platform watches itself: health/health.controller.ts (the       *)
(* probes), health/metrics.service.ts (the counters Prometheus scrapes),   *)
(* health/redis.ping.ts and common/metrics.middleware.ts, with the place   *)
(* of the middleware in setup.ts.                                          *)
(*                                                                         *)
(* The checks of a probe run side by side and end in any order, while the  *)
(* services come and go.  Latencies and wording are left out.  Nothing     *)
(* calls alerting.service.ts, reset() or the counters of agents and        *)
(* backups, so the alerts are empty and the disk is asked of df.           *)
(***************************************************************************)
EXTENDS FiniteSets, FiniteSetsExt, Naturals

CONSTANTS
    Routes,             \* routes other than the probes'
    Probers,            \* probes in flight
    RedisWanted,        \* REDIS_URL is set
    MaxServed,          \* bound: requests answered
    MaxTurnsOfLuck      \* bound: changes of the services

ASSUME MonitorAssumption ==
    /\ IsFiniteSet(Routes) /\ RedisWanted \in BOOLEAN
    /\ {MaxServed, MaxTurnsOfLuck} \subseteq Nat

VARIABLES services,     \* what is up
          counters,     \* the metrics
          probes,       \* [Probers -> a probe under way]
          answered      \* history: requests answered, failed, refused at the floor, and
                        \* let by as asking for the metrics

monitorVars == <<services, counters, probes, answered>>

Services == {"database", "redis", "storage", "disk"}
Checked == Services \cup {"migrations"}
ProbeKinds == {"health", "ready", "dashboard"}
AllRoutes == Routes \cup ProbeKinds

\* The checks a probe waits for: Promise.all.
ChecksOf(kind) ==
    IF kind = "ready" THEN {"database", "redis", "migrations"}
    ELSE {"database", "redis", "storage", "disk"}

NoProbe == [kind |-> "none", left |-> {}, seen |-> [s \in Checked |-> "skipped"], wasUp |-> FALSE]

MonitorInit ==
    /\ services = [s \in Services |-> TRUE]
    /\ counters = [requests |-> 0, errors |-> 0, queries |-> 0, queryFailures |-> 0,
                   redisOps |-> 0, redisFailures |-> 0,
                   endpoint |-> [r \in AllRoutes |-> [total |-> 0, errors |-> 0]]]
    /\ probes = [p \in Probers |-> NoProbe]
    /\ answered = [all |-> 0, failed |-> 0, refused |-> 0, scraped |-> 0, missed |-> 0,
                   turns |-> 0, shown |-> {}, misled |-> FALSE]

One(fact) == IF fact THEN 1 ELSE 0

\* A service goes down, or comes back.
TurnOfLuck(s) ==
    /\ answered.turns < MaxTurnsOfLuck
    /\ answered' = [answered EXCEPT !.turns = @ + 1]
    /\ services' = [services EXCEPT ![s] = ~@]
    /\ probes' = [p \in Probers |->
                    [probes[p] EXCEPT !.wasUp = @ \/ (probes[p].kind # "none" /\ services'["database"])]]
    /\ UNCHANGED counters

-----------------------------------------------------------------------------
(* The counters.                                                            *)

\* recordHttpRequest(): a status of 400 or more is an error.
RecordHttpRequest(c, route, failed) ==
    [c EXCEPT !.requests = @ + 1,
              !.errors = @ + One(failed),
              !.endpoint[route] = [total |-> @.total + 1, errors |-> @.errors + One(failed)]]

RecordDbQuery(c, failed) ==
    [c EXCEPT !.queries = @ + 1, !.queryFailures = @ + One(failed)]

RecordRedisOperation(c, failed) ==
    [c EXCEPT !.redisOps = @ + 1, !.redisFailures = @ + One(failed)]

\* getErrorRate(), in percent.
ErrorRate(c) ==
    IF c.requests = 0 THEN 0 ELSE (100 * c.errors) \div c.requests

\* getStats()
Stats(c) ==
    [requests |-> c.requests, errors |-> c.errors, errorRate |-> ErrorRate(c),
     queries |-> c.queries, queryFailures |-> c.queryFailures,
     redisOps |-> c.redisOps, redisFailures |-> c.redisFailures]

\* getPrometheusMetrics(): the lines of a scrape, which has no total of the queries;
\* an endpoint has its lines from its first request on.
Exposition(c) ==
    {<<name, Stats(c)[name]>> : name \in DOMAIN Stats(c) \ {"queries"}}
        \cup {<<"endpoint_total", r, c.endpoint[r].total>> : r \in {s \in AllRoutes : c.endpoint[s].total > 0}}
        \cup {<<"endpoint_errors", r, c.endpoint[r].errors>> : r \in {s \in AllRoutes : c.endpoint[s].total > 0}}

\* The answer goes out: res.end() as the middleware has replaced it.
ResponseEnds(route, failed, c) ==
    /\ answered.all < MaxServed
    /\ counters' = RecordHttpRequest(c, route, failed)

Replied(failed) ==
    [answered EXCEPT !.all = @ + 1, !.failed = @ + One(failed)]

\* Any other request but for the metrics, answered well or not.
ServeRoute(route, failed) ==
    /\ ResponseEnds(route, failed, counters)
    /\ answered' = Replied(failed)
    /\ UNCHANGED <<services, probes>>

\* What asks for /metrics or /api/metrics the middleware lets by uncounted: a scrape,
\* or what finds nothing there (the path without its prefix, another method).
Scraped(found) ==
    /\ answered.all < MaxServed
    /\ answered' = [Replied(~found) EXCEPT !.scraped = @ + 1, !.missed = @ + One(~found)]
    /\ UNCHANGED <<services, counters, probes>>

\* The floor's limiter stands before the middleware: its 429 is not counted.
RefusedAtTheFloor ==
    /\ answered.all < MaxServed
    /\ answered' = [answered EXCEPT !.all = @ + 1, !.failed = @ + 1, !.refused = @ + 1]
    /\ UNCHANGED <<services, counters, probes>>

-----------------------------------------------------------------------------
(* The probes.                                                              *)

ProbeArrives(p, kind) ==
    /\ probes[p] = NoProbe
    /\ probes' = [probes EXCEPT ![p] = [NoProbe EXCEPT !.kind = kind, !.left = ChecksOf(kind),
                                                       !.wasUp = services["database"]]]
    /\ UNCHANGED <<services, counters, answered>>

Saw(p, check, status) ==
    probes' = [probes EXCEPT ![p].left = @ \ {check}, ![p].seen[check] = status]

CheckDatabase(p) ==
    /\ "database" \in probes[p].left
    /\ counters' = RecordDbQuery(counters, ~services["database"])
    /\ Saw(p, "database", IF services["database"] THEN "up" ELSE "down")
    /\ UNCHANGED <<services, answered>>

\* pingRedis(): a PONG within the time it has, or nothing to ping.
CheckRedis(p) ==
    /\ "redis" \in probes[p].left
    /\ counters' = IF RedisWanted THEN RecordRedisOperation(counters, ~services["redis"]) ELSE counters
    /\ Saw(p, "redis", IF ~RedisWanted THEN "skipped" ELSE IF services["redis"] THEN "up" ELSE "down")
    /\ UNCHANGED <<services, answered>>

CheckStorage(p) ==
    /\ "storage" \in probes[p].left
    /\ Saw(p, "storage", IF services["storage"] THEN "up" ELSE "down")
    /\ UNCHANGED <<services, counters, answered>>

\* df says how much is free, or cannot be run.
CheckDisk(p) ==
    /\ "disk" \in probes[p].left
    /\ \/ Saw(p, "disk", IF services["disk"] THEN "up" ELSE "down")
       \/ Saw(p, "disk", "skipped")
    /\ UNCHANGED <<services, counters, answered>>

\* Two tables are asked for, neither the one the migrations are kept in: the
\* check is skipped, as it is when the database is gone.
CheckMigrations(p) ==
    /\ "migrations" \in probes[p].left
    /\ Saw(p, "migrations", "skipped")
    /\ UNCHANGED <<services, counters, answered>>

\* The disk has no say.
HealthStatus(seen) ==
    IF seen["database"] # "up" THEN "error"
    ELSE IF seen["redis"] = "down" \/ seen["storage"] = "down" THEN "degraded" ELSE "ok"

IsReady(seen) ==
    seen["database"] = "up" /\ seen["migrations"] # "down"

\* A probe has all its checks.  The dashboard is sent with 200 whatever its
\* health says; it shows the counters as they stand after its own checks.
ProbeAnswered(p) ==
    LET probe == probes[p]
        failed == CASE probe.kind = "health" -> HealthStatus(probe.seen) = "error"
                    [] probe.kind = "ready" -> ~IsReady(probe.seen)
                    [] OTHER -> FALSE
    IN  /\ probe # NoProbe
        /\ probe.left = {}
        /\ ResponseEnds(probe.kind, failed, counters)
        /\ answered' = [Replied(failed) EXCEPT
               !.shown = IF probe.kind = "dashboard" THEN {Stats(counters)} ELSE @,
               !.misled = @ \/ (probe.kind # "dashboard" /\ ~failed /\ ~probe.wasUp)]
        /\ probes' = [probes EXCEPT ![p] = NoProbe]
        /\ UNCHANGED services

MonitorNext ==
    \/ \E s \in Services : TurnOfLuck(s)
    \/ \E r \in Routes, failed \in BOOLEAN : ServeRoute(r, failed)
    \/ \E found \in BOOLEAN : Scraped(found)
    \/ RefusedAtTheFloor
    \/ \E p \in Probers :
           \/ \E kind \in ProbeKinds : ProbeArrives(p, kind)
           \/ CheckDatabase(p) \/ CheckRedis(p) \/ CheckStorage(p) \/ CheckDisk(p)
           \/ CheckMigrations(p)
           \/ ProbeAnswered(p)

MonitorSpec == MonitorInit /\ [][MonitorNext]_monitorVars

-----------------------------------------------------------------------------

\* The numbers of an exposition's lines of one name, added.
SumOf(name, lines) ==
    MapThenSumSet(LAMBDA l : l[3], {l \in lines : l[1] = name})

\* What is scraped adds up however requests and probes overlap: the lines of the
\* endpoints to the totals, and the totals, with what the floor refused and what asked
\* for the metrics themselves, to every request answered; and no dashboard shows more
\* failures than it counts queries, or none at all, for its own checks come first.
CountsAddUp ==
    LET lines == Exposition(counters)
    IN  /\ <<"requests", SumOf("endpoint_total", lines)>> \in lines
        /\ <<"errors", SumOf("endpoint_errors", lines)>> \in lines
        /\ counters.requests + answered.refused + answered.scraped = answered.all
        /\ counters.errors + answered.refused + answered.missed = answered.failed
        /\ \A s \in answered.shown : s.queries > 0 /\ s.queryFailures <= s.queries /\ s.errorRate <= 100

\* A probe answered as well, or as ready, found the database up at some moment
\* between its arrival and its answer.
NoFalseComfort ==
    ~answered.misled

\* What watches the platform says what there was.
MonitorHolds ==
    CountsAddUp /\ NoFalseComfort
=================================================================================
