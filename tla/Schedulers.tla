------------------------------ MODULE Schedulers ------------------------------
(***************************************************************************)
(* Recurring jobs: the schedulers every boot registers again               *)
(* (BootSchedulersService), the endpoints that edit them                   *)
(* (SchedulersController), the worker that records their ticks             *)
(* (HeartbeatProcessor, HeartbeatTicks), and the Schedulers page, which    *)
(* keeps one list per queue and reads it again after its own calls         *)
(* (apps/web/hooks/use-schedulers.ts, apps/web/app/schedulers/page.tsx).   *)
(*                                                                         *)
(* In Redis a registered scheduler always has one upcoming job.  When it   *)
(* is started, the next one is made; an upsert replaces it and a removal   *)
(* takes it away -- except a job that is due already, which may stay.      *)
(* Only the monitoring queue has a worker.                                 *)
(***************************************************************************)
EXTENDS Naturals, Sequences, FiniteSets

CONSTANTS
  Boots,          \* ids of the boot schedulers
  Ids,            \* every scheduler id in use
  Queues,         \* SCHEDULER_QUEUES
  QueueOf,        \* the queue of each id
  Monitoring,     \* the queue with a worker
  Slots,          \* SCHEDULER_TICK_CONCURRENCY worker slots
  TicksCapacity,  \* TICKS_CAPACITY
  MaxEdits,       \* bound on upserts and removals
  MaxFaults,      \* bound on failing upserts and list reads
  MaxLives        \* bound on boots

ASSUME IdsAssumption == Boots \subseteq Ids /\ IsFiniteSet(Ids)
ASSUME QueuesAssumption == QueueOf \in [Ids -> Queues] /\ Monitoring \in Queues
ASSUME SlotsAssumption == IsFiniteSet(Slots)
ASSUME BoundsAssumption ==
  /\ TicksCapacity \in Nat \ {0}
  /\ {MaxEdits, MaxFaults, MaxLives} \subseteq Nat

VARIABLES
  \* Redis
  scheduler,  \* what each id is registered with: a boot schedule or "edited"
  loose,      \* jobs due or orphaned that are not a scheduler's upcoming one
  \* the API process
  app,        \* "down", "booting" or "serving"
  awaited,    \* boot upserts without an answer
  running,    \* what each worker slot runs
  ticks,      \* HeartbeatTicks: ids recorded, oldest first
  \* the Schedulers page
  shown,      \* the selected queue
  calls,      \* its upserts and removals without an answer
  fetch,      \* list query of each queue: "idle", "asked" or "answered"
  answered,   \* the list under way
  table,      \* the list the query holds
  dirty,      \* the query is invalidated
  \* history
  touched,    \* ids edited since the boot began
  edits, faults, lives

redis   == <<scheduler, loose>>
process == <<app, awaited, running, ticks>>
lists   == <<fetch, answered, table, dirty>>
page    == <<shown, calls, lists>>
history == <<touched, edits, faults, lives>>
vars    == <<redis, process, page, history>>

Schedules == Boots \cup {"none", "edited"}
Nothing   == [loaded |-> FALSE, rows |-> {}, behind |-> FALSE]
Call      == [op : {"save", "delete"}, id : Ids, state : {"sent", "applied"}]
Idle      == "idle"

IdsOf(q)      == {i \in Ids : QueueOf[i] = q}
Registered(q) == {i \in IdsOf(q) : scheduler[i] # "none"}
Rows(q)       == {<<i, scheduler[i]>> : i \in Registered(q)}

\* Lists of these queues, marked as missing a write the page is not told of.
Behind(qs, list) ==
  [q \in Queues |-> [list[q] EXCEPT !.behind = @ \/ (q \in qs /\ list[q].loaded)]]

TypeOK ==
  /\ scheduler \in [Ids -> Schedules]
  /\ loose \in [Ids -> Nat]
  /\ app \in {"down", "booting", "serving"} /\ awaited \subseteq Boots
  /\ running \in [Slots -> Ids \cup {Idle}]
  /\ ticks \in Seq(Ids) /\ Len(ticks) <= TicksCapacity
  /\ shown \in Queues /\ calls \subseteq Call
  /\ fetch \in [Queues -> {"idle", "asked", "answered"}]
  /\ {answered, table} \subseteq
       [Queues -> [loaded : BOOLEAN, rows : SUBSET (Ids \X Schedules), behind : BOOLEAN]]
  /\ dirty \in [Queues -> BOOLEAN]
  /\ touched \subseteq Ids
  /\ edits \in 0 .. MaxEdits /\ faults \in 0 .. MaxFaults /\ lives \in 0 .. MaxLives

Init ==
  /\ scheduler = [i \in Ids |-> "none"]
  /\ loose = [i \in Ids |-> 0]
  /\ app = "down" /\ awaited = {}
  /\ running = [s \in Slots |-> Idle] /\ ticks = <<>>
  /\ shown \in Queues /\ calls = {}
  /\ fetch = [q \in Queues |-> IF q = shown THEN "asked" ELSE "idle"]
  /\ answered = [q \in Queues |-> Nothing] /\ table = [q \in Queues |-> Nothing]
  /\ dirty = [q \in Queues |-> FALSE]
  /\ touched = {}
  /\ edits = 0 /\ faults = 0 /\ lives = 0

-----------------------------------------------------------------------------
(* The library's two writes *)

\* The upcoming job goes; it is left to run if it was due.
Loosen(i) ==
  \E left \in {0, 1} :
    /\ left = 1 => scheduler[i] # "none" /\ QueueOf[i] = Monitoring
    /\ loose' = [loose EXCEPT ![i] = @ + left]

\* A write to q the page is not told of.
WrittenElsewhere(q) == table' = Behind({q}, table) /\ answered' = Behind({q}, answered)

\* upsertJobScheduler(): in place, by id.
Upsert(i, schedule) ==
  /\ scheduler' = [scheduler EXCEPT ![i] = schedule]
  /\ Loosen(i)

\* removeJobScheduler().
Remove(i) ==
  /\ scheduler' = [scheduler EXCEPT ![i] = "none"]
  /\ Loosen(i)

-----------------------------------------------------------------------------
(* Boot *)

\* The process starts: onApplicationBootstrap sends all its upserts at once.
Boot ==
  /\ app = "down" /\ lives < MaxLives
  /\ app' = "booting" /\ awaited' = Boots
  /\ touched' = {} /\ lives' = lives + 1
  /\ UNCHANGED <<redis, running, ticks, page, edits, faults>>

\* The stable id of a boot scheduler.
BootId(b) == b

RegisterBoot(b) ==
  /\ app = "booting" /\ b \in awaited
  /\ Upsert(BootId(b), b)
  /\ awaited' = awaited \ {b}
  /\ WrittenElsewhere(QueueOf[b])
  /\ UNCHANGED <<app, running, ticks, shown, calls, fetch, dirty, history>>

\* What a dead process leaves: its jobs wait in Redis, the page's calls fail,
\* whether or not they were applied.
Die ==
  /\ app' = "down" /\ awaited' = {} /\ ticks' = <<>>
  /\ loose' = [i \in Ids |-> loose[i] + Cardinality({s \in Slots : running[s] = i})]
  /\ running' = [s \in Slots |-> Idle]
  /\ calls' = {}
  /\ table' = Behind(Queues, table) /\ answered' = Behind(Queues, answered)

\* Seeded fault: a failed registration is passed over.
FailBootTolerated(b) ==
  /\ app = "booting" /\ b \in awaited /\ faults < MaxFaults
  /\ faults' = faults + 1 /\ awaited' = awaited \ {b}
  /\ UNCHANGED <<redis, app, running, ticks, page, touched, edits, lives>>

\* One upsert fails: the bootstrap rejects and the process exits, with the
\* others applied or not.
FailBoot(b) ==
  /\ app = "booting" /\ b \in awaited /\ faults < MaxFaults
  /\ faults' = faults + 1
  /\ Die
  /\ UNCHANGED <<scheduler, shown, fetch, dirty, touched, edits, lives>>

\* The API listens once the hook has resolved.
Serve == app = "booting" /\ awaited = {} /\ app' = "serving"
         /\ UNCHANGED <<redis, awaited, running, ticks, page, history>>

Crash ==
  /\ app # "down" /\ lives < MaxLives
  /\ Die
  /\ UNCHANGED <<scheduler, shown, fetch, dirty, history>>

-----------------------------------------------------------------------------
(* The worker of the monitoring queue *)

\* A slot takes a job that is due: a scheduler's, whose next one is made with
\* it, or a loose one.
Start(i) ==
  /\ app # "down" /\ QueueOf[i] = Monitoring
  /\ \E s \in Slots : running[s] = Idle /\ running' = [running EXCEPT ![s] = i]
  /\ \/ scheduler[i] # "none" /\ loose' = loose
     \/ loose[i] > 0 /\ loose' = [loose EXCEPT ![i] = @ - 1]
  /\ UNCHANGED <<scheduler, app, awaited, ticks, page, history>>

\* Seeded fault: a handler for the boot schedulers' jobs only.
RecordedBootOnly(i) == IF scheduler[i] \in Boots THEN <<i>> ELSE <<>>

\* tick(): the catch-all handler records every job.
Recorded(i) == <<i>>

\* HeartbeatTicks: the oldest entry is overwritten.
Kept(grown) == IF Len(grown) > TicksCapacity THEN Tail(grown) ELSE grown

Tick(s) ==
  /\ running[s] # Idle
  /\ ticks' = Kept(ticks \o Recorded(running[s]))
  /\ running' = [running EXCEPT ![s] = Idle]
  /\ UNCHANGED <<redis, app, awaited, page, history>>

-----------------------------------------------------------------------------
(* The endpoints, called from the page and by others *)

Edit(i) ==
  /\ app = "serving"
  /\ touched' = touched \cup {i}

\* The page sends a call about an id of the selected queue.
Send(op, i) ==
  /\ edits < MaxEdits /\ QueueOf[i] = shown
  /\ edits' = edits + 1
  /\ calls' = calls \cup {[op |-> op, id |-> i, state |-> "sent"]}
  /\ UNCHANGED <<redis, process, shown, lists, touched, faults, lives>>

\* The form's Save, disabled while one is pending.
ClickSave(i) == (\A c \in calls : c.op # "save") /\ Send("save", i)

\* A row's Delete, which is not.
ClickDelete(i) == (\E row \in table[shown].rows : row[1] = i) /\ Send("delete", i)

Applied(c) == (calls \ {c}) \cup {[c EXCEPT !.state = "applied"]}

\* SchedulersController.upsert and remove.
Apply(c) ==
  /\ c.state = "sent"
  /\ Edit(c.id)
  /\ IF c.op = "save" THEN Upsert(c.id, "edited") ELSE Remove(c.id)
  /\ calls' = Applied(c)
  /\ UNCHANGED <<process, shown, lists, edits, faults, lives>>

\* The call is refused, at the boundary or by the library as an invalid
\* schedule: an inline error.
Refuse(c) ==
  /\ app = "serving" /\ c.op = "save" /\ c.state = "sent"
  /\ calls' = calls \ {c}
  /\ UNCHANGED <<redis, process, shown, lists, history>>

\* Another operator's call.
EditElsewhere(i) ==
  /\ edits < MaxEdits
  /\ Edit(i)
  /\ Upsert(i, "edited") \/ Remove(i)
  /\ edits' = edits + 1
  /\ WrittenElsewhere(QueueOf[i])
  /\ UNCHANGED <<process, shown, calls, fetch, dirty, faults, lives>>

-----------------------------------------------------------------------------
(* The page *)

\* Seeded fault: the list on screen is invalidated, not the call's.
InvalidatedShown(c) == shown

\* The list a successful call invalidates.
Invalidated(c) == QueueOf[c.id]

\* onSuccess.  The list on screen is read again; a read under way is dropped,
\* but not the first one, nor that of a queue that is not on screen.
OnSuccess(c) ==
  LET q == Invalidated(c)
      again == q = shown /\ table[q].loaded
  IN  /\ c.state = "applied"
      /\ calls' = calls \ {c}
      /\ dirty' = [dirty EXCEPT ![q] = TRUE]
      /\ fetch' = [fetch EXCEPT ![q] = IF again \/ (q = shown /\ @ = "idle") THEN "asked" ELSE @]
      /\ answered' = [answered EXCEPT ![q] =
                        IF again THEN Nothing
                        ELSE IF fetch[q] = "answered" THEN [@ EXCEPT !.behind = TRUE] ELSE @]
      /\ UNCHANGED <<redis, process, shown, table, history>>

\* GET /schedulers is answered, fails for good, or arrives.
ServeList(q) ==
  /\ app = "serving" /\ fetch[q] = "asked"
  /\ fetch' = [fetch EXCEPT ![q] = "answered"]
  /\ answered' = [answered EXCEPT ![q] =
                    [loaded |-> TRUE, rows |-> Rows(q), behind |-> FALSE]]
  /\ UNCHANGED <<redis, process, shown, calls, table, dirty, history>>

FailList(q) ==
  /\ fetch[q] = "asked" /\ faults < MaxFaults
  /\ faults' = faults + 1
  /\ fetch' = [fetch EXCEPT ![q] = "idle"]
  /\ table' = Behind({q}, table)
  /\ UNCHANGED <<redis, process, shown, calls, answered, dirty, touched, edits, lives>>

ShowList(q) ==
  /\ fetch[q] = "answered"
  /\ fetch' = [fetch EXCEPT ![q] = "idle"]
  /\ table' = [table EXCEPT ![q] = answered[q]]
  /\ answered' = [answered EXCEPT ![q] = Nothing]
  /\ dirty' = [dirty EXCEPT ![q] = FALSE]
  /\ UNCHANGED <<redis, process, shown, calls, history>>

\* A list read within the stale time, and not invalidated since, is not read
\* again; how long ago it was read is left open.
MayReuse(q) == table[q].loaded /\ ~ dirty[q]

\* A queue's tab is selected; a read under way is joined.
SelectQueue(q) ==
  /\ q # shown /\ shown' = q
  /\ \E f \in {"asked", "idle"} :
       /\ f = "idle" => MayReuse(q)
       /\ fetch' = [fetch EXCEPT ![q] = IF @ = "idle" THEN f ELSE @]
  /\ UNCHANGED <<redis, process, calls, answered, table, dirty, history>>

-----------------------------------------------------------------------------

Next ==
  \/ Boot \/ Serve \/ Crash
  \/ \E b \in Boots : RegisterBoot(b) \/ FailBoot(b)
  \/ \E i \in Ids : Start(i) \/ EditElsewhere(i) \/ ClickSave(i) \/ ClickDelete(i)
  \/ \E s \in Slots : Tick(s)
  \/ \E c \in calls : Apply(c) \/ Refuse(c) \/ OnSuccess(c)
  \/ \E q \in Queues : ServeList(q) \/ FailList(q) \/ ShowList(q) \/ SelectQueue(q)

\* Time passes and the worker of a live process works; its queue is first in,
\* first out, so a due job is not passed over for ever.
Fairness ==
  /\ \A i \in Ids : SF_vars(Start(i))
  /\ \A s \in Slots : WF_vars(Tick(s))

Spec     == Init /\ [][Next]_vars
FairSpec == Spec /\ Fairness

-----------------------------------------------------------------------------
(* Properties *)

\* Requests are only served over a complete registration: every boot schedule
\* is in force, edits made before the boot undone, half-done boots completed,
\* except where somebody has edited it since.
ServingMeansScheduled ==
  app = "serving" => \A b \in Boots \ touched : scheduler[b] = b

\* A job of i is recorded.
Fires(i) ==
  \E s \in Slots : /\ running[s] = i /\ running'[s] = Idle
                   /\ ticks' # <<>> /\ ticks'[Len(ticks')] = i

\* The clock does not stop: whatever edits, removals, failed boots and deaths
\* between two of its jobs there were, a scheduler that stays registered keeps
\* ticking, under an id of its own or of the boot.
ClockNeverStops ==
  \A i \in IdsOf(Monitoring) :
    <>[](app = "serving" /\ scheduler[i] # "none") => []<><<Fires(i)>>_vars

\* A list on screen that has settled is what is registered on its queue, as
\* far as the page can know: unless somebody else wrote or the process died
\* since it was read, a call of the page succeeded over a read already
\* answered that is not dropped, or the next read failed.
SettledListIsTheRegistry ==
  LET list == table[shown]
  IN  /\ list.loaded /\ fetch[shown] = "idle"
      /\ \A c \in calls : QueueOf[c.id] # shown
      /\ ~ list.behind
      => list.rows = Rows(shown)

=============================================================================
