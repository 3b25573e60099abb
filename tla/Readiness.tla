------------------------------ MODULE Readiness ------------------------------
(***************************************************************************)
(* GET /health/ready (apps/api/src/admin/health.controller.ts): a probe of *)
(* Redis through the library's metrics cache, all of it under one timeout, *)
(* and the two places of the dashboard that show its outcome -- the chip   *)
(* of the top bar (use-redis-status.ts) and that of the Health page        *)
(* (use-health-page.ts).                                                   *)
(*                                                                         *)
(* Time passes in ticks.  While Redis is reachable it answers within the   *)
(* tick; a call made or pending while it is not hangs until the outage is  *)
(* over, or is rejected by the client's retry limit.                       *)
(***************************************************************************)
EXTENDS Naturals, FiniteSets

CONSTANTS
  Cached,      \* queues the library has cached
  Probed,      \* READINESS_QUEUE
  Chips,       \* the chips that poll readiness
  CacheTtl,    \* METRICS_CACHE_TTL_MS, in ticks
  Timeout,     \* READINESS_TIMEOUT_MS, in ticks
  MaxOutages,  \* bound on the outages of Redis
  MaxCrashes   \* bound on the deaths of the API process

ASSUME ProbedAssumption == Probed \in Cached
ASSUME TimesAssumption == CacheTtl \in Nat /\ Timeout \in Nat \ {0}
ASSUME FaultsAssumption == MaxOutages \in Nat /\ MaxCrashes \in Nat

VARIABLES
  link,     \* Redis is reachable
  outage,   \* ticks since it last was
  api,      \* the API process runs
  age,      \* ticks since each queue's cached snapshot was collected
  probes,   \* the readiness request of each chip
  fetches,  \* snapshots being collected for nobody who still waits
  data,     \* chips whose query has had an answer (TanStack keeps it)
  error,    \* chips whose latest request failed
  upDuring, \* history: the longest outage in which a probe still said "up"
  outages, crashes

cache      == <<age, fetches>>
query      == <<data, error, upDuring>>
bounds     == <<outages, crashes>>
healthVars == <<link, outage, api, cache, probes, query, bounds>>

\* Ages beyond the cache's time: run out, and never collected or cleared.
Expired == CacheTtl + 1
Absent  == CacheTtl + 2

Asking(stage, qs) == [stage |-> stage, awaits |-> qs, elapsed |-> 0]
NoProbe == Asking("idle", {})

HealthTypeOK ==
  /\ link \in {"up", "down"} /\ api \in {"up", "down"}
  /\ outage \in 0 .. Expired /\ (link = "up" => outage = 0)
  /\ age \in [Cached -> 0 .. Absent]
  /\ probes \in [Chips -> [stage : {"idle", "get", "getAll"}, awaits : SUBSET Cached,
                           elapsed : 0 .. Timeout]]
  /\ \A c \in Chips : probes[c].awaits = {} => probes[c] = NoProbe
  /\ fetches \subseteq Cached
  /\ data \subseteq Chips /\ error \subseteq Chips /\ upDuring \in 0 .. Expired
  /\ outages \in 0 .. MaxOutages /\ crashes \in 0 .. MaxCrashes

HealthInit ==
  /\ link = "up" /\ outage = 0 /\ api = "up"
  /\ age = [q \in Cached |-> Absent]
  /\ probes = [c \in Chips |-> NoProbe]
  /\ fetches = {}
  /\ data = {} /\ error = {} /\ upDuring = 0
  /\ outages = 0 /\ crashes = 0

-----------------------------------------------------------------------------
(* The metrics cache *)

\* Seeded fault: an entry is served whatever its age.
FreshWhenCached(q) == age[q] # Absent

\* cacheTtlMs: an entry is served until it is older than that.
Fresh(q) == age[q] <= CacheTtl

Stale(qs) == {q \in qs : ~ Fresh(q)}

\* What a request leaves behind when its caller is gone: its fetches go on.
Abandon(c) == fetches \cup probes[c].awaits

\* A read collects what is not fresh, and is never timed out.
Collect(qs) ==
  /\ api = "up"
  /\ Stale(qs) \ fetches # {}
  /\ fetches' = fetches \cup Stale(qs)
  /\ UNCHANGED <<link, outage, api, age, probes, query, bounds>>

\* GET /admin/metrics, polled by the two pages, and GET /admin/metrics/:queue.
ReadMetrics    == Collect(Cached)
ReadOne(q)     == Collect({q})
OverviewPage   == ReadMetrics
FreshnessMeter == ReadMetrics

\* invalidateSchema: a body names a queue, or none of them for all.
Targets(body) == IF body = {} THEN Cached ELSE body

\* POST /admin/metrics/invalidate.
InvalidateMetrics(body) ==
  /\ api = "up"
  /\ \E q \in Targets(body) : Fresh(q)
  /\ age' = [q \in Cached |-> IF q \in Targets(body) THEN Absent ELSE age[q]]
  /\ UNCHANGED <<link, outage, api, fetches, probes, query, bounds>>

\* useInvalidateMetrics(), without a name, behind the button of the Health
\* page; the refetch it asks for is a read like any other.
InvalidateAll   == InvalidateMetrics({})
InvalidateCache == InvalidateAll

\* A fetch nobody waits for fills the cache; if it was the first half of an
\* abandoned probe, the probe goes on to getAll.
FetchedLate(q) ==
  /\ link = "up" /\ q \in fetches
  /\ age' = [age EXCEPT ![q] = 0]
  /\ \E more \in {{}, IF q = Probed THEN Stale(Cached \ {q}) ELSE {}} :
       fetches' = (fetches \ {q}) \cup more
  /\ UNCHANGED <<link, outage, api, probes, query, bounds>>

-----------------------------------------------------------------------------
(* The probe *)

\* The query's outcome: a success replaces the error, a failure leaves data.
Succeed(c) ==
  /\ data' = data \cup {c} /\ error' = error \ {c}
  /\ upDuring' = IF outage > upDuring THEN outage ELSE upDuring

Fail(c) == error' = error \cup {c} /\ UNCHANGED <<data, upDuring>>

\* Seeded fault: a probe in its second half is not bounded.
BudgetedGetOnly(c) == probes[c].stage = "get"

\* withTimeout() bounds the whole probe.
Budgeted(c) == probes[c].stage # "idle"

\* The request of a chip is over.
Ended(c) == probes' = [probes EXCEPT ![c] = NoProbe]

\* After get(Probed): getAll() collects what is not fresh; with nothing to
\* collect the answer is "up" at once.
GetAll(c, fresh) ==
  LET missing == {q \in Cached \ {Probed} : q \notin fresh}
  IN  IF missing = {} THEN Ended(c) /\ Succeed(c)
      ELSE /\ probes' = [probes EXCEPT ![c].stage = "getAll", ![c].awaits = missing]
           /\ UNCHANGED query

\* The query of a chip asks again: if it never had data it forgets its error
\* and is pending again, as before its first answer.
Refetching(c) == IF c \in data THEN error ELSE error \ {c}

\* refetchInterval, and no retry of its own.
Poll(c) ==
  /\ probes[c] = NoProbe
  /\ IF api = "down" THEN Fail(c) /\ UNCHANGED probes
     ELSE IF Fresh(Probed) /\ Stale(Cached) = {} THEN Succeed(c) /\ UNCHANGED probes
     ELSE /\ IF Fresh(Probed)
             THEN probes' = [probes EXCEPT ![c] = Asking("getAll", Stale(Cached))]
             ELSE probes' = [probes EXCEPT ![c] = Asking("get", {Probed})]
          /\ error' = Refetching(c)
          /\ UNCHANGED <<data, upDuring>>
  /\ UNCHANGED <<link, outage, api, cache, bounds>>

\* A snapshot the probe waits for is collected.
Fetched(c, q) ==
  /\ link = "up" /\ q \in probes[c].awaits
  /\ age' = [age EXCEPT ![q] = 0]
  /\ IF probes[c].awaits # {q}
     THEN probes' = [probes EXCEPT ![c].awaits = @ \ {q}] /\ UNCHANGED query
     ELSE IF probes[c].stage = "get" THEN GetAll(c, {p \in Cached : Fresh(p)})
     ELSE Ended(c) /\ Succeed(c)
  /\ UNCHANGED <<link, outage, api, fetches, bounds>>

\* A call is given up by the Redis client: 503.  The others go on.
Rejected(c) ==
  /\ link = "down" /\ probes[c] # NoProbe
  /\ \E q \in probes[c].awaits : fetches' = fetches \cup (probes[c].awaits \ {q})
  /\ Ended(c) /\ Fail(c)
  /\ UNCHANGED <<link, outage, api, age, bounds>>

\* The timer wins the race: 503.  What the probe awaited goes on without it.
TimedOut(c) ==
  /\ Budgeted(c) /\ probes[c].elapsed = Timeout
  /\ fetches' = Abandon(c)
  /\ Ended(c) /\ Fail(c)
  /\ UNCHANGED <<link, outage, api, age, bounds>>

-----------------------------------------------------------------------------
(* The environment *)

LoseRedis ==
  /\ link = "up" /\ outages < MaxOutages
  /\ link' = "down" /\ outages' = outages + 1
  /\ UNCHANGED <<outage, api, cache, probes, query, crashes>>

RegainRedis ==
  /\ link = "down"
  /\ link' = "up" /\ outage' = 0
  /\ UNCHANGED <<api, cache, probes, query, bounds>>

\* The process dies: cache and probes are gone, open requests fail.
ApiDies ==
  /\ api = "up" /\ crashes < MaxCrashes
  /\ api' = "down" /\ crashes' = crashes + 1
  /\ age' = [q \in Cached |-> Absent] /\ fetches' = {}
  /\ probes' = [c \in Chips |-> NoProbe]
  /\ error' = error \cup {c \in Chips : probes[c] # NoProbe}
  /\ UNCHANGED <<link, outage, data, upDuring, outages>>

Restart == api = "down" /\ api' = "up" /\ UNCHANGED <<link, outage, cache, probes, query, bounds>>

Waited(p) == [p EXCEPT !.elapsed = @ + 1]

\* Timers fire and a reachable Redis answers before the clock moves on.
TimePasses ==
  /\ \A c \in Chips : /\ ~ (Budgeted(c) /\ probes[c].elapsed = Timeout)
                      /\ link = "up" => probes[c] = NoProbe
  /\ link = "up" => fetches = {}
  /\ outage' = IF link = "up" \/ outage = Expired THEN outage ELSE outage + 1
  /\ age' = [q \in Cached |-> IF age[q] <= CacheTtl THEN age[q] + 1 ELSE age[q]]
  /\ probes' = [c \in Chips |-> IF probes[c] = NoProbe \/ probes[c].elapsed = Timeout
                                THEN probes[c] ELSE Waited(probes[c])]
  /\ UNCHANGED <<link, api, fetches, query, bounds>>

-----------------------------------------------------------------------------

HealthNext ==
  \/ \E c \in Chips : Poll(c) \/ Rejected(c) \/ TimedOut(c)
  \/ \E c \in Chips, q \in Cached : Fetched(c, q)
  \/ \E q \in Cached : FetchedLate(q) \/ ReadOne(q) \/ InvalidateMetrics({q})
  \/ InvalidateCache
  \/ OverviewPage \/ FreshnessMeter \/ LoseRedis \/ RegainRedis \/ ApiDies \/ Restart \/ TimePasses

\* The browser's interval and the event loop's timer fire, a reachable Redis
\* answers, time passes, and the process is restarted.  Nothing is assumed of
\* an unreachable Redis.
HealthFairness ==
  /\ \A c \in Chips : /\ WF_healthVars(Poll(c)) /\ WF_healthVars(TimedOut(c))
                      /\ WF_healthVars(\E q \in Cached : Fetched(c, q))
  /\ WF_healthVars(\E q \in Cached : FetchedLate(q))
  /\ WF_healthVars(TimePasses) /\ WF_healthVars(Restart)

HealthSpec     == HealthInit /\ [][HealthNext]_healthVars
HealthFairSpec == HealthSpec /\ HealthFairness

-----------------------------------------------------------------------------
(* What is shown *)

\* ProbeChip: "checking" until something is known.
ProbeChip(known, isUp) == IF ~ known THEN "checking" ELSE IF isUp THEN "up" ELSE "down"

\* The Health page: what its query once got outweighs its error.
PageStatus(c) == ProbeChip(c \in data \cup error, c \in data)

\* useRedisStatus(): the error comes first.
TopbarStatus(c) ==
  CASE c \in error -> "down" [] c \in data \ error -> "up" [] OTHER -> "checking"

\* RedisStatusChip: what the top bar says of a status.
RedisStatusChip(status) == [checking |-> "checking", up |-> "ready", down |-> "down"][status]

-----------------------------------------------------------------------------
(* Properties *)

\* "Fails closed within the budget" allows for the cache: readiness says "up"
\* only if Redis could be reached no longer than the cache's time ago, however
\* the probe's two halves, other readers and outages interleave.
FailsClosed == upDuring <= CacheTtl

\* Every probe is answered although Redis may never be back.
ProbesAreAnswered ==
  \A c \in Chips : probes[c] # NoProbe ~> probes[c] = NoProbe

\* If Redis stays unreachable, or stays reachable behind a live API, the top
\* bar ends up saying so, and does not waver.  Of the Health page only the
\* second half is true: once it was up, it shows "up" in an outage too.
TopbarSettles ==
  \A c \in Chips :
    /\ <>[](link = "down") => <>[](RedisStatusChip(TopbarStatus(c)) # "ready")
    /\ <>[](link = "up" /\ api = "up") =>
         <>[](RedisStatusChip(TopbarStatus(c)) = "ready" /\ PageStatus(c) = "up")

=============================================================================
