----------------------------- MODULE Deduplication -----------------------------
(***************************************************************************)
(* Enqueues that collapse: the welcome mail made idempotent by its job id  *)
(* (OnboardingService) and the reindex job under the four deduplication    *)
(* modes (ReindexService), asked from several playground tabs at once,     *)
(* with the admin plane's clear and clean beside them; and the reports and *)
(* stall demos, whose enqueues must not collapse.                          *)
(*                                                                         *)
(* Both services look up, await, enqueue, await, and report on what the    *)
(* look-up saw.  The search queue has no consumer in this application: its *)
(* jobs stay where the enqueue put them.                                   *)
(***************************************************************************)
EXTENDS Naturals, Sequences, FiniteSets

CONSTANTS
  Tabs,         \* open playground pages
  Users,        \* user ids of the onboarding lab
  Terms,        \* search terms of the reindex lab
  MaxClicks,    \* bound on clicks
  MaxRemovals,  \* bound on keys cleared or expired and jobs cleaned
  MaxLost       \* bound on answers that do not reach their tab

ASSUME BoundsAssumption == {MaxClicks, MaxRemovals, MaxLost} \subseteq Nat
ASSUME SubjectsAssumption == Users \cap Terms = {} /\ (Users \cup Terms) \cap {"report", "stall"} = {}

\* The two labs that enqueue a job of its own at every click.
Demos == {"report", "stall"}

Subjects == Users \cup Terms \cup Demos

\* DEDUP_MODES.
Modes == {"simple", "throttle", "debounce", "keepLast"}

VARIABLES
  \* the playground
  onboarding,  \* onboarding calls open, after their look-up
  reindexing,  \* reindex calls open, after their look-up
  clearing,    \* calls of the inspector to clear a key
  requesting,  \* calls for a report or a stall demo
  watched,     \* the job a tab links to from the lab
  \* Redis
  welcomed,    \* users whose welcome job exists, finished or not
  jobs,        \* every reindex job ever made, by id
  keys,        \* the deduplication keys: job they hold, and whether they expire
  \* history, per user or term
  made,        \* jobs made
  told,        \* answers that said a job was made
  overlaps,    \* collapsing calls that began while another one for it was open
  loose,       \* jobs left behind by a key that was cleared or ran out
  cleaned,     \* welcome jobs cleaned away
  clicks, removals, lost

others  == <<clearing, requesting, watched>>
calls   == <<onboarding, reindexing, others>>
redis   == <<welcomed, jobs, keys>>
history == <<made, told, overlaps, loose, cleaned, clicks, removals, lost>>
vars    == <<calls, redis, history>>

NoJob == 0
Ids   == 1 .. Len(jobs)
Job   == [term : Terms, state : {"waiting", "delayed", "removed"}]
Key   == [job : Nat, timed : BOOLEAN]
NoKey == [job |-> NoJob, timed |-> FALSE]

Onboarding == [tab : Tabs, user : Users, found : BOOLEAN]
Reindexing == [tab : Tabs, term : Terms, mode : Modes, existing : Nat]

Clearing   == [tab : Tabs, term : Terms]
Requesting == [tab : Tabs, demo : Demos]

Live(t) == {i \in Ids : jobs[i].term = t /\ jobs[i].state # "removed"}

TypeOK ==
  /\ onboarding \subseteq Onboarding /\ reindexing \subseteq Reindexing
  /\ clearing \subseteq Clearing /\ requesting \subseteq Requesting
  /\ watched \in [Requesting -> Nat]
  /\ welcomed \subseteq Users /\ jobs \in Seq(Job) /\ keys \in [Terms -> Key]
  /\ \A c \in reindexing : c.existing \in {NoJob} \cup Ids
  /\ \A t \in Terms : keys[t] = NoKey \/ keys[t].job \in Live(t)
  /\ made \in [Subjects -> Nat] /\ told \in [Subjects -> Nat] /\ overlaps \in [Subjects -> Nat]
  /\ loose \in [Terms -> Nat] /\ cleaned \in [Users -> Nat]
  /\ clicks \in 0 .. MaxClicks /\ removals \in 0 .. MaxRemovals /\ lost \in 0 .. MaxLost

Init ==
  /\ onboarding = {} /\ reindexing = {} /\ clearing = {} /\ requesting = {}
  /\ watched = [r \in Requesting |-> NoJob]
  /\ welcomed = {} /\ jobs = <<>>
  /\ keys = [t \in Terms |-> NoKey]
  /\ made = [s \in Subjects |-> 0] /\ told = [s \in Subjects |-> 0]
  /\ overlaps = [s \in Subjects |-> 0]
  /\ loose = [t \in Terms |-> 0] /\ cleaned = [u \in Users |-> 0]
  /\ clicks = 0 /\ removals = 0 /\ lost = 0

Plus(f, s, n) == [f EXCEPT ![s] = @ + n]
One(P) == IF P THEN 1 ELSE 0

-----------------------------------------------------------------------------
(* The two ways to enqueue.  An answer that is lost leaves the tab with an  *)
(* error toast.                                                             *)

Click(open, s) ==
  /\ clicks < MaxClicks
  /\ clicks' = clicks + 1
  /\ overlaps' = Plus(overlaps, s, One(open))

Answer(s, isNew) ==
  \/ told' = Plus(told, s, One(isNew)) /\ lost' = lost
  \/ lost < MaxLost /\ lost' = lost + 1 /\ told' = told

\* The onboarding lab's button, disabled while a call of this tab is pending;
\* welcome() up to the answer of getJob.
Onboard(tab, u) ==
  /\ \A c \in onboarding : c.tab # tab
  /\ Click(\E c \in onboarding : c.user = u, u)
  /\ onboarding' = onboarding \cup {[tab |-> tab, user |-> u, found |-> u \in welcomed]}
  /\ UNCHANGED <<reindexing, others, redis, made, told, loose, cleaned, removals, lost>>

\* Seeded fault: no stable job id.
JobMadeUnkeyed(u) == 1

\* The enqueue under welcomeJobId(user): a job that exists is left alone.
JobMade(u) == One(u \notin welcomed)

\* Seeded fault: a look-up that found the job is reported as created, too.
CreatedAlways(c) == TRUE

\* created is what the look-up saw.
Created(c) == ~ c.found

Welcome(c) ==
  /\ welcomed' = welcomed \cup {c.user}
  /\ made' = Plus(made, c.user, JobMade(c.user))
  /\ Answer(c.user, Created(c))
  /\ onboarding' = onboarding \ {c}
  /\ UNCHANGED <<reindexing, others, jobs, keys, overlaps, loose, cleaned, clicks, removals>>

\* dedupId(): one key per term.
DedupId(term) == term

Holder(t) == keys[DedupId(t)].job

\* The reindex lab's button; reindex() up to the answer of
\* getDeduplicationJobId.
Reindex(tab, t, mode) ==
  /\ \A c \in reindexing : c.tab # tab
  /\ Click(\E c \in reindexing : c.term = t, t)
  /\ reindexing' = reindexing \cup
       {[tab |-> tab, term |-> t, mode |-> mode, existing |-> Holder(t)]}
  /\ UNCHANGED <<onboarding, others, redis, made, told, loose, cleaned, removals, lost>>

\* reindexOptions(): which modes have a ttl, which replace a delayed holder and
\* delay their own job.  keepLast differs from simple only while the holder is
\* active, which no job of this queue ever is.
Timed(mode)    == mode \in {"throttle", "debounce"}
Replaces(mode) == mode = "debounce"

\* Seeded fault: a replacing enqueue leaves the job it replaces.
ReplacedKept(holder) == jobs

\* A replaced job is taken out of the delayed set.
Replaced(holder) == [jobs EXCEPT ![holder].state = "removed"]

\* Seeded fault: an enqueue over any existing holder counts as deduplicated.
DeduplicatedIfHeld(existing, job) == existing # NoJob

\* The flag reindex() returns.
Deduplicated(existing, job) == existing # NoJob /\ job = existing

\* The job made by an enqueue, and the key that now holds it.
Add(c, kept) ==
  LET id == Len(jobs) + 1
  IN  /\ jobs' = Append(kept, [term |-> c.term,
                               state |-> IF Replaces(c.mode) THEN "delayed" ELSE "waiting"])
      /\ keys' = [keys EXCEPT ![DedupId(c.term)] = [job |-> id, timed |-> Timed(c.mode)]]
      /\ made' = Plus(made, c.term, 1)
      /\ Answer(c.term, ~ Deduplicated(c.existing, id))

\* The enqueue under the term's key: a new job if no key is held; in place of
\* a delayed holder if the mode replaces; else it collapses into the holder.
Replaceable(c) == Replaces(c.mode) /\ Holder(c.term) # NoJob /\ jobs[Holder(c.term)].state = "delayed"

Enqueue(c) ==
  \/ Holder(c.term) = NoJob /\ Add(c, jobs)
  \/ Replaceable(c) /\ Add(c, Replaced(Holder(c.term)))
  \/ /\ Holder(c.term) # NoJob /\ ~ Replaceable(c)
     /\ Answer(c.term, ~ Deduplicated(c.existing, Holder(c.term)))
     /\ UNCHANGED <<jobs, keys, made>>

FinishReindex(c) ==
  /\ Enqueue(c)
  /\ reindexing' = reindexing \ {c}
  /\ UNCHANGED <<onboarding, others, welcomed, overlaps, loose, cleaned, clicks, removals>>

\* The enqueue is refused, or the process dies before it: an error toast.
RefuseWelcome(c) == onboarding' = onboarding \ {c} /\ UNCHANGED <<reindexing, others, redis, history>>
RefuseReindex(c) == reindexing' = reindexing \ {c} /\ UNCHANGED <<onboarding, others, redis, history>>

-----------------------------------------------------------------------------
(* The labs whose enqueues are all new.                                     *)

\* A lab's button, disabled while a request of this tab is pending.
Request(r) ==
  /\ r \notin requesting
  /\ Click(FALSE, r.demo)
  /\ requesting' = requesting \cup {r}
  /\ UNCHANGED <<onboarding, reindexing, clearing, watched, redis, made, told, loose, cleaned,
                 removals, lost>>

ReportLab(tab) == Request([tab |-> tab, demo |-> "report"])
StallLab(tab)  == Request([tab |-> tab, demo |-> "stall"])

\* The job is enqueued under a fresh id; the lab that is answered links to it.
Requested(r) ==
  /\ r \in requesting
  /\ requesting' = requesting \ {r}
  /\ made' = Plus(made, r.demo, 1)
  /\ Answer(r.demo, TRUE)
  /\ watched' = IF told' = told THEN watched ELSE [watched EXCEPT ![r] = made'[r.demo]]
  /\ UNCHANGED <<onboarding, reindexing, clearing, redis, overlaps, loose, cleaned, clicks, removals>>

Generate(tab) == Requested([tab |-> tab, demo |-> "report"])
Stall(tab)    == Requested([tab |-> tab, demo |-> "stall"])

RefuseRequest(r) ==
  /\ requesting' = requesting \ {r}
  /\ UNCHANGED <<onboarding, reindexing, clearing, watched, redis, history>>

-----------------------------------------------------------------------------
(* The admin plane, and time.                                               *)

Removal == removals < MaxRemovals /\ removals' = removals + 1

\* A key goes, its job stays.
Release(t) ==
  /\ keys' = [keys EXCEPT ![t] = NoKey]
  /\ loose' = Plus(loose, t, One(keys[t] # NoKey))
  /\ UNCHANGED <<onboarding, reindexing, requesting, watched, welcomed, jobs, made, told, overlaps,
                 cleaned, clicks, lost>>

\* DedupKeyInspector: the second button, one call per tab ...
ClickClear(tab, t) ==
  /\ \A c \in clearing : c.tab # tab
  /\ Removal
  /\ clearing' = clearing \cup {[tab |-> tab, term |-> t]}
  /\ UNCHANGED <<onboarding, reindexing, requesting, watched, redis, made, told, overlaps, loose,
                 cleaned, clicks, lost>>

\* ... which clears the key the term has when the call gets there, if any.
ClearKey(c) == clearing' = clearing \ {c} /\ Release(c.term) /\ UNCHANGED removals

RefuseClear(c) ==
  /\ clearing' = clearing \ {c}
  /\ UNCHANGED <<onboarding, reindexing, requesting, watched, redis, history>>

\* The ttl of a throttle or debounce key runs out.
ExpireKey(t) == keys[t].timed /\ Removal /\ Release(t) /\ UNCHANGED clearing

\* AdminQueuesService.clean on the search queue: a removed job takes its key.
CleanReindex(i) ==
  /\ Removal
  /\ jobs[i].state # "removed"
  /\ jobs' = [jobs EXCEPT ![i].state = "removed"]
  /\ keys' = [t \in Terms |-> IF keys[t].job = i THEN NoKey ELSE keys[t]]
  /\ UNCHANGED <<calls, welcomed, made, told, overlaps, loose, cleaned, clicks, lost>>

\* The same on the email queue: the user can be welcomed again.
CleanWelcome(u) ==
  /\ Removal
  /\ u \in welcomed
  /\ welcomed' = welcomed \ {u}
  /\ cleaned' = Plus(cleaned, u, 1)
  /\ UNCHANGED <<calls, jobs, keys, made, told, overlaps, loose, clicks, lost>>

-----------------------------------------------------------------------------

Next ==
  \/ \E tab \in Tabs :
       \/ \E u \in Users : Onboard(tab, u)
       \/ \E t \in Terms, mode \in Modes : Reindex(tab, t, mode)
       \/ \E t \in Terms : ClickClear(tab, t)
       \/ ReportLab(tab) \/ StallLab(tab) \/ Generate(tab) \/ Stall(tab)
  \/ \E c \in onboarding : Welcome(c) \/ RefuseWelcome(c)
  \/ \E c \in reindexing : FinishReindex(c) \/ RefuseReindex(c)
  \/ \E c \in clearing : ClearKey(c) \/ RefuseClear(c)
  \/ \E r \in requesting : RefuseRequest(r)
  \/ \E t \in Terms : ExpireKey(t)
  \/ \E i \in Ids : CleanReindex(i)
  \/ \E u \in Users : CleanWelcome(u)

Spec == Init /\ [][Next]_vars

-----------------------------------------------------------------------------
(* Properties *)

\* What onboarding.service.ts:42-46 concedes, made exact, for every lab: more
\* answers say "created" (or "not deduplicated") than jobs were made only if
\* calls for that user or term overlapped, and at most once per overlap.
FalseNewsNeedsOverlap ==
  \A s \in Subjects : told[s] <= made[s] + overlaps[s]

\* The other direction: no job is made that nobody was told of, unless the
\* answer was lost or the job the look-up saw was cleaned away meanwhile.  The
\* jobs of the other labs are each followed by at most one tab.
NewJobsAreReported ==
  /\ \A u \in Users : made[u] <= told[u] + cleaned[u] + lost
  /\ \A s \in Terms \cup Demos : made[s] <= told[s] + lost
  /\ \A r, q \in Requesting : r.demo = q.demo /\ watched[r] = watched[q] /\ watched[r] # NoJob => r = q

\* The welcome mail stays idempotent whatever overlaps: a user gets another
\* job only after the earlier one was cleaned away.
OneWelcomePerLife ==
  \A u \in Users : made[u] <= 1 + cleaned[u]

\* Under any mixture of modes, a term has one job per key still held or lost:
\* only a cleared or expired key lets a second one in.
OneJobPerKey ==
  \A t \in Terms : Cardinality(Live(t)) <= loose[t] + One(keys[t] # NoKey)

=============================================================================
