---------------------------- MODULE TenantWorkers ----------------------------
(***************************************************************************)
(* Dynamic per-tenant notification workers: TenantWorkersService over the  *)
(* library's WorkerRegistry (apps/api/src/workers), the notifications that *)
(* the workers consume, and the dashboard's Workers page, whose table is   *)
(* read again only when one of the page's own calls succeeds               *)
(* (apps/web/hooks/use-workers.ts, apps/web/app/workers/page.tsx): calls   *)
(* come from the page or from elsewhere (another tab, any client).         *)
(*                                                                         *)
(* register() runs in one piece; unregister() awaits the worker's close.   *)
(* Whether the registry forgets a worker when its teardown starts or when  *)
(* it ends is the library's business, which this code does not rely on in  *)
(* one way only: both are possible, one for a whole behaviour.             *)
(***************************************************************************)
EXTENDS Naturals, Sequences, FiniteSets

CONSTANTS
  Tenants,         \* tenant ids
  Tiers,           \* TenantTier
  Slots,           \* TIER_CONCURRENCY: notifications a worker of a tier runs at once
  NoTier,          \* a tenant without tier metadata (null in the projection)
  NoWorker,        \* in place of a worker where there is none
  Notes,           \* notifications somebody may send
  Removals,        \* DELETE requests somebody may send
  TrailCapacity,   \* MAX_DELIVERIES of TenantDeliveries
  MaxLives,        \* bound on successful registrations
  MaxCrashes       \* bound on process deaths

\* One registration; overlapped if a teardown of the tenant was under way.
Worker   == [tenant : Tenants, life : 1 .. MaxLives, tier : Tiers, overlapped : BOOLEAN]

ASSUME SlotsAssumption == Slots \in [Tiers -> Nat \ {0}]
ASSUME NoTierAssumption == NoTier \notin Tiers
ASSUME NoWorkerAssumption == NoWorker \notin Worker
ASSUME BoundsAssumption ==
  /\ TrailCapacity \in Nat \ {0}
  /\ MaxLives \in Nat
  /\ MaxCrashes \in Nat

View     == [tenant : Tenants, tier : Tiers \cup {NoTier}]

\* A DELETE request: how far it got, the worker it found, and whether the page
\* awaits it.
Removal   == [state : {"none", "closing", "answered", "lost"},
              worker : Worker \cup {NoWorker}, page : BOOLEAN]
Over(state, worker) == [state |-> state, worker |-> worker, page |-> FALSE]
NoRequest == Over("none", NoWorker)

VARIABLES
  forgetsEarly,  \* the registry forgets a worker when its teardown starts
  \* the API process
  workers,    \* workers that consume, closing ones included
  registry,   \* the workers WorkerRegistry.list() returns
  tiers,      \* TenantWorkersService.tiers
  removals,   \* DELETE requests
  trail,      \* TenantDeliveries: notifications recorded, oldest first
  \* Redis
  jobs,       \* state of each notification and the tenant it is for
  holder,     \* the worker that runs it
  \* the Workers page
  answers,    \* successful answers on their way to the page
  fetch,      \* the tenants query: "idle", "asked" or "answered"
  answered,   \* the answer under way
  table,      \* what the page shows
  \* history
  lives,      \* registrations so far
  crashes     \* process deaths so far

process == <<workers, registry, tiers, removals, trail>>
redis   == <<jobs, holder>>
query   == <<fetch, answered, table>>
vars    == <<forgetsEarly, process, redis, answers, query, lives, crashes>>

\* A list, and whether it is known to miss a change the page is not told of.
Shown == [loaded : BOOLEAN, views : SUBSET View, behind : BOOLEAN]
NothingShown == [loaded |-> FALSE, views |-> {}, behind |-> FALSE]
Behind(list) == [list EXCEPT !.behind = list.loaded]

TypeOK ==
  /\ forgetsEarly \in BOOLEAN
  /\ workers \subseteq Worker /\ registry \subseteq workers
  /\ tiers \in [Tenants -> Tiers \cup {NoTier}]
  /\ removals \in [Removals -> Removal]
  /\ trail \in Seq(Notes) /\ Len(trail) <= TrailCapacity
  /\ jobs \in [Notes -> [state : {"none", "wait", "active", "completed"}, tenant : Tenants]]
  /\ holder \in [Notes -> Worker \cup {NoWorker}]
  /\ answers \in Nat
  /\ fetch \in {"idle", "asked", "answered"}
  /\ answered \in Shown /\ table \in Shown /\ (answered.loaded => fetch = "answered")
  /\ lives \in 0 .. MaxLives
  /\ crashes \in 0 .. MaxCrashes

Init ==
  /\ forgetsEarly \in BOOLEAN
  /\ workers = {} /\ registry = {}
  /\ tiers = [t \in Tenants |-> NoTier]
  /\ removals = [r \in Removals |-> NoRequest]
  /\ trail = <<>>
  /\ jobs \in [Notes -> [state : {"none"}, tenant : Tenants]]
  /\ holder = [n \in Notes |-> NoWorker]
  /\ answers = 0 /\ fetch = "asked"
  /\ answered = NothingShown /\ table = NothingShown
  /\ lives = 0 /\ crashes = 0

-----------------------------------------------------------------------------
(* Calls *)

\* TenantRow: the page notifies and removes the tenants its table shows, any
\* number of times; from elsewhere any tenant can be.
CanCall(t, page) == page => \E v \in table.views : v.tenant = t

\* n successful answers to the page, which is told of no other call's success.
Told(n, elsewhere) ==
  /\ answers' = answers + n
  /\ table' = IF elsewhere THEN Behind(table) ELSE table
  /\ answered' = IF elsewhere THEN Behind(answered) ELSE answered
  /\ UNCHANGED fetch

Succeeded(page) == IF page THEN Told(1, FALSE) ELSE Told(0, TRUE)

-----------------------------------------------------------------------------
(* The service *)

Listed(t)   == \E w \in registry : w.tenant = t
Closing(w)  == \E r \in Removals : removals[r].state = "closing" /\ removals[r].worker = w
Serving(t)  == \E w \in workers : w.tenant = t /\ ~ Closing(w)

\* list(): the registry, each entry with the tier kept for its tenant.
List == {[tenant |-> w.tenant, tier |-> tiers[w.tenant]] : w \in registry}

\* register(): refused with queue.duplicate_processor while one is listed.
Install(t, tier) ==
  /\ ~ Listed(t)
  /\ lives' = lives + 1
  /\ \E w \in Worker :
       /\ w = [tenant |-> t, life |-> lives + 1, tier |-> tier,
               overlapped |-> \E v \in workers : v.tenant = t]
       /\ workers' = workers \cup {w}
       /\ registry' = registry \cup {w}
  /\ tiers' = [tiers EXCEPT ![t] = tier]

\* TenantRegisterForm, or a call from elsewhere: any tenant at any tier.
Register(t, tier, page) ==
  /\ lives < MaxLives
  /\ Install(t, tier)
  /\ Succeeded(page)
  /\ UNCHANGED <<forgetsEarly, removals, trail, redis, crashes>>

\* unregister() of a listed worker, up to the await: the worker starts to
\* close.  A second teardown joins the first if the registry still lists it.
StartClose(r, t, page) ==
  \E w \in registry :
    /\ w.tenant = t
    /\ removals' = [removals EXCEPT ![r] = [state |-> "closing", worker |-> w, page |-> page]]
    /\ registry' = IF forgetsEarly THEN registry \ {w} ELSE registry

\* Seeded fault: the tier goes before the close is awaited.
UnregisterTierFirst(r, t, page) ==
  /\ removals[r] = NoRequest /\ CanCall(t, page)
  /\ StartClose(r, t, page)
  /\ tiers' = [tiers EXCEPT ![t] = NoTier]
  /\ UNCHANGED <<forgetsEarly, workers, trail, redis, answers, query, lives, crashes>>

Unregister(r, t, page) ==
  /\ removals[r] = NoRequest /\ CanCall(t, page)
  /\ StartClose(r, t, page)
  /\ UNCHANGED <<forgetsEarly, workers, tiers, trail, redis, answers, query, lives, crashes>>

\* unregister() with nothing listed: the tier goes all the same, the answer
\* is false.
UnregisterNothing(r, t, page) ==
  /\ removals[r] = NoRequest /\ CanCall(t, page)
  /\ ~ Listed(t)
  /\ removals' = [removals EXCEPT ![r] = Over("answered", NoWorker)]
  /\ tiers' = [tiers EXCEPT ![t] = NoTier]
  /\ Succeeded(page)
  /\ UNCHANGED <<forgetsEarly, workers, registry, trail, redis, lives, crashes>>

\* Seeded fault: the close is not waited for.
ClosedAtOnce(w) == Closing(w)

\* A closing worker has nothing in hand.
Closed(w) == Closing(w) /\ \A n \in Notes : holder[n] # w

\* The close is over: the worker is gone, and every teardown that awaited it
\* drops the tenant's tier and answers true.
Unregistered(w) ==
  /\ Closed(w)
  /\ workers' = workers \ {w}
  /\ registry' = registry \ {w}
  /\ tiers' = [tiers EXCEPT ![w.tenant] = NoTier]
  /\ LET waited == {r \in Removals : removals[r].state = "closing" /\ removals[r].worker = w}
     IN  /\ removals' = [r \in Removals |->
                           IF r \in waited THEN Over("answered", w) ELSE removals[r]]
         /\ Told(Cardinality({r \in waited : removals[r].page}),
                 \E r \in waited : ~ removals[r].page)
  /\ UNCHANGED <<forgetsEarly, trail, redis, lives, crashes>>

\* notify(): enqueued whether or not the tenant has a worker.
Enqueue(n) ==
  /\ jobs[n].state = "none"
  /\ jobs' = [jobs EXCEPT ![n].state = "wait"]

Notify(n, page) ==
  /\ CanCall(jobs[n].tenant, page)
  /\ Enqueue(n)
  /\ answers' = answers + IF page THEN 1 ELSE 0
  /\ UNCHANGED <<forgetsEarly, process, holder, query, lives, crashes>>

-----------------------------------------------------------------------------
(* The workers *)

Fetch(w, n) ==
  /\ w \in workers /\ ~ Closing(w)
  /\ jobs[n].state = "wait" /\ jobs[n].tenant = w.tenant
  /\ Cardinality({m \in Notes : holder[m] = w}) < Slots[w.tier]
  /\ jobs' = [jobs EXCEPT ![n].state = "active"]
  /\ holder' = [holder EXCEPT ![n] = w]
  /\ UNCHANGED <<forgetsEarly, process, answers, query, lives, crashes>>

\* TenantDeliveries.record().
Record(n) ==
  LET grown == Append(trail, n)
  IN  trail' = IF Len(grown) > TrailCapacity THEN Tail(grown) ELSE grown

\* Seeded fault: a full trail refuses the delivery.
DeliverRefusedWhenFull(n) ==
  /\ holder[n] # NoWorker /\ Len(trail) < TrailCapacity
  /\ Record(n)
  /\ jobs' = [jobs EXCEPT ![n].state = "completed"]
  /\ holder' = [holder EXCEPT ![n] = NoWorker]
  /\ UNCHANGED <<forgetsEarly, workers, registry, tiers, removals, answers, query, lives, crashes>>

\* deliver() records the notification; the job is completed with it.
Deliver(n) ==
  /\ holder[n] # NoWorker
  /\ Record(n)
  /\ jobs' = [jobs EXCEPT ![n].state = "completed"]
  /\ holder' = [holder EXCEPT ![n] = NoWorker]
  /\ UNCHANGED <<forgetsEarly, workers, registry, tiers, removals, answers, query, lives, crashes>>

\* The process dies and is restarted: dynamic workers are not registered
\* again, a notification in hand stays active, open requests get an error, and
\* no page is told.
Crash ==
  /\ crashes < MaxCrashes
  /\ crashes' = crashes + 1
  /\ workers' = {} /\ registry' = {} /\ trail' = <<>>
  /\ tiers' = [t \in Tenants |-> NoTier]
  /\ removals' = [r \in Removals |->
                    IF removals[r].state = "closing"
                    THEN Over("lost", removals[r].worker) ELSE removals[r]]
  /\ holder' = [n \in Notes |-> NoWorker]
  /\ table' = Behind(table) /\ answered' = Behind(answered)
  /\ UNCHANGED <<forgetsEarly, jobs, answers, fetch, lives>>

\* The stalled check of a queue runs in its workers: without one an orphaned
\* notification stays where it is.
Stalled(n) ==
  /\ jobs[n].state = "active" /\ holder[n] = NoWorker
  /\ Serving(jobs[n].tenant)
  /\ jobs' = [jobs EXCEPT ![n].state = "wait"]
  /\ UNCHANGED <<forgetsEarly, process, holder, answers, query, lives, crashes>>

-----------------------------------------------------------------------------
(* The page *)

\* Seeded fault: a query under way is never dropped.
DropsReading(loaded) == FALSE

\* invalidateQueries(): a query under way is dropped and asked again, unless it
\* is the first one, which is joined.
Drops(loaded) == loaded

\* onSuccess of a register, notify or remove call.
OnSuccess ==
  /\ answers > 0
  /\ answers' = answers - 1
  /\ fetch' = IF Drops(table.loaded) \/ fetch = "idle" THEN "asked" ELSE fetch
  /\ answered' = IF Drops(table.loaded) THEN NothingShown
                 ELSE IF table.loaded THEN answered ELSE Behind(answered)
  /\ UNCHANGED <<forgetsEarly, process, redis, table, lives, crashes>>

\* GET /workers/tenants is answered, and the answer arrives.
ServeList ==
  /\ fetch = "asked"
  /\ fetch' = "answered"
  /\ answered' = [loaded |-> TRUE, views |-> List, behind |-> FALSE]
  /\ UNCHANGED <<forgetsEarly, process, redis, answers, table, lives, crashes>>

ShowList ==
  /\ fetch = "answered"
  /\ fetch' = "idle"
  /\ table' = answered
  /\ answered' = NothingShown
  /\ UNCHANGED <<forgetsEarly, process, redis, answers, lives, crashes>>

-----------------------------------------------------------------------------

Next ==
  \/ \E t \in Tenants, tier \in Tiers, page \in BOOLEAN : Register(t, tier, page)
  \/ \E r \in Removals, t \in Tenants, page \in BOOLEAN :
       Unregister(r, t, page) \/ UnregisterNothing(r, t, page)
  \/ \E w \in workers : Unregistered(w)
  \/ \E n \in Notes, page \in BOOLEAN : Notify(n, page)
  \/ \E n \in Notes : Deliver(n) \/ Stalled(n)
  \/ \E w \in workers, n \in Notes : Fetch(w, n)
  \/ Crash
  \/ OnSuccess \/ ServeList \/ ShowList

\* A live worker fetches, runs and sweeps; a started close goes on.  Nobody is
\* obliged to register, remove or notify, nor to crash.
Fairness ==
  /\ WF_vars(\E n \in Notes : Deliver(n) \/ Stalled(n) \/ \E w \in workers : Fetch(w, n))
  /\ WF_vars(\E w \in workers : Unregistered(w))

Spec     == Init /\ [][Next]_vars
FairSpec == Spec /\ Fairness

-----------------------------------------------------------------------------
(* Properties *)

\* What unregister() says it takes care of: the list does not lose the tier of
\* a worker it still shows, nor keep the tier of one it does not -- unless the
\* registry forgets a worker at once and the tenant is registered again during
\* the teardown, which then takes the new worker's tier away.
TierFollowsWorker ==
  /\ \A w \in registry : tiers[w.tenant] = w.tier \/ (w.overlapped /\ forgetsEarly)
  /\ \A t \in Tenants : tiers[t] # NoTier => \E w \in workers : w.tenant = t

\* A removal that was answered true is over: that worker holds no notification
\* and is not listed, whatever other teardowns and registrations overlapped.
RemovedMeansGone ==
  \A r \in Removals :
    removals[r].state = "answered" /\ removals[r].worker # NoWorker =>
      /\ removals[r].worker \notin workers
      /\ \A n \in Notes : holder[n] # removals[r].worker

\* Once the page's calls are answered and its query has settled, the table is
\* the registry, whatever order the answers came in -- unless something the page is
\* not told of happened since the list was given: a call from elsewhere, a
\* restart (which forgets all tenants), or a success while the page's first
\* list was already answered.
SettledTableIsTheRegistry ==
  /\ answers = 0 /\ fetch = "idle"
  /\ \A r \in Removals : removals[r].state # "closing"
  /\ table.loaded /\ ~ table.behind
  => table.views = List

\* A notification is never lost: it waits through absent workers, teardowns
\* and crashes, and is delivered if its tenant has a worker for good.
NotificationsDrain ==
  \A n \in Notes :
    <>[](jobs[n].state # "none" /\ Serving(jobs[n].tenant)) => <>(jobs[n].state = "completed")

=============================================================================
