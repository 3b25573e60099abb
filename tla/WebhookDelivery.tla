-------------------------- MODULE WebhookDelivery --------------------------
(***************************************************************************)
(* The consumer of the `webhooks` queue                                    *)
(* (apps/api/src/processors/webhook.processor.ts): a handler that throws   *)
(* while the job has been attempted fewer than WEBHOOK_FAILURES times and  *)
(* then records its delivery, under the module's retry budget and under    *)
(* redelivery after a crash.                                               *)
(*                                                                         *)
(* The job's own attemptsMade, kept in Redis, drives the injection; it     *)
(* counts outcomes that were written back, not handler runs.  The rate     *)
(* limiter only delays fetches and is left out with the delays.            *)
(*                                                                         *)
(* Beside it, the admin plane (apps/api/src/admin): an operator pauses,    *)
(* resumes and cleans the queue from its page, whose rows lead to the job  *)
(* pages; the one that is open polls until its job looks final.            *)
(***************************************************************************)
EXTENDS Naturals, Sequences, FiniteSets

CONSTANTS
  Webhooks,          \* order-created jobs
  MaxFailures,       \* bound on WEBHOOK_FAILURES
  Attempts,          \* DEFAULT_JOB_ATTEMPTS
  Concurrency,       \* WEBHOOK_CONCURRENCY
  LogCapacity,       \* WEBHOOK_LOG_CAPACITY
  MaxStalledCount,   \* stalls a job survives before BullMQ fails it
  NoJob,             \* in place of a job where there is none
  MaxPauses,         \* bound on pauses
  MaxCleans,         \* bound on cleans
  MaxCrashes         \* bound on process deaths

ASSUME NoJobAssumption == NoJob \notin Webhooks

ASSUME BoundsAssumption ==
  /\ MaxFailures \in Nat
  /\ Attempts \in Nat \ {0}
  /\ Concurrency \in Nat \ {0}
  /\ LogCapacity \in Nat \ {0}
  /\ MaxStalledCount \in Nat
  /\ {MaxPauses, MaxCleans, MaxCrashes} \subseteq Nat

VARIABLES
  failures,   \* WEBHOOK_FAILURES, read from the environment once
  \* Redis
  state,      \* job state
  made,       \* attemptsMade
  stalls,     \* how often the job was found stalled
  returned,   \* the attempts a completed job returned, 0 for none
  paused,     \* the queue is paused
  \* the API process
  hand,       \* what the worker has done with the job: "fetched", "ok", "error"
  log,        \* WebhookLog: deliveries recorded, oldest first
  \* the job pages
  watched,    \* the job whose page is open
  views,      \* what the query of a job last got
  \* history
  recorded,   \* deliveries of the job recorded, evicted and lost ones too
  pauses, cleans, crashes

job     == <<state, made, stalls, returned>>
worker  == <<hand, log, recorded, crashes>>
pages   == <<watched, views>>
admin   == <<paused, pages, pauses, cleans>>
vars    == <<failures, job, worker, admin>>

Delivery == [job : Webhooks, attempts : Nat]
Ended    == {"completed", "failed"}

\* JobView: finishedOn, attemptsMade and returnValue of a job.
View   == [finished : BOOLEAN, attempts : Nat, returned : Nat]
NoView == [finished |-> FALSE, attempts |-> 0, returned |-> 0]

TypeOK ==
  /\ failures \in 0 .. MaxFailures
  /\ state \in [Webhooks -> Ended \cup {"none", "wait", "active", "delayed", "gone"}]
  /\ made \in [Webhooks -> 0 .. Attempts]
  /\ stalls \in [Webhooks -> 0 .. MaxStalledCount + 1]
  /\ returned \in [Webhooks -> Nat]
  /\ hand \in [Webhooks -> {"none", "fetched", "ok", "error"}]
  /\ log \in Seq(Delivery) /\ Len(log) <= LogCapacity
  /\ recorded \in [Webhooks -> Nat]
  /\ paused \in BOOLEAN
  /\ watched \in Webhooks \cup {NoJob} /\ views \in [Webhooks -> View]
  /\ pauses \in 0 .. MaxPauses /\ cleans \in 0 .. MaxCleans
  /\ crashes \in 0 .. MaxCrashes

Init ==
  /\ failures \in 0 .. MaxFailures
  /\ state = [j \in Webhooks |-> "none"]
  /\ made = [j \in Webhooks |-> 0]
  /\ stalls = [j \in Webhooks |-> 0]
  /\ returned = [j \in Webhooks |-> 0]
  /\ hand = [j \in Webhooks |-> "none"]
  /\ log = <<>>
  /\ recorded = [j \in Webhooks |-> 0]
  /\ paused = FALSE
  /\ watched = NoJob /\ views = [j \in Webhooks |-> NoView]
  /\ pauses = 0 /\ cleans = 0 /\ crashes = 0

-----------------------------------------------------------------------------

\* place() enqueues the webhook of an order.
Enqueue(j) ==
  /\ state[j] = "none"
  /\ state' = [state EXCEPT ![j] = "wait"]
  /\ UNCHANGED <<failures, made, stalls, returned, worker, admin>>

\* A slot of the worker is free and the queue is not paused.
Fetch(j) ==
  /\ state[j] = "wait" /\ ~ paused
  /\ Cardinality({k \in Webhooks : hand[k] # "none"}) < Concurrency
  /\ state' = [state EXCEPT ![j] = "active"]
  /\ hand' = [hand EXCEPT ![j] = "fetched"]
  /\ UNCHANGED <<failures, made, stalls, returned, log, recorded, crashes, admin>>

\* Seeded faults: attemptsMade is taken to count the present attempt; the
\* delivery is recorded before the injected failure.
InjectsOneShort(j) == made[j] + 1 < failures
DeliverRecordsFirst(j) ==
  /\ hand[j] = "fetched"
  /\ log' = Append(log, [job |-> j, attempts |-> made[j] + 1])
  /\ recorded' = [recorded EXCEPT ![j] = @ + 1]
  /\ hand' = [hand EXCEPT ![j] = IF made[j] < failures THEN "error" ELSE "ok"]
  /\ UNCHANGED <<failures, job, crashes, admin>>

\* WebhookLog.record(): the oldest entry goes when the log is over-full.
Record(d) ==
  LET grown == Append(log, d)
  IN  log' = IF Len(grown) > LogCapacity THEN Tail(grown) ELSE grown

\* The injected failure is due.
Injects(j) == made[j] < failures

\* deliver(): throw, or record the delivery and return.
Deliver(j) ==
  /\ hand[j] = "fetched"
  /\ \/ /\ Injects(j)
        /\ hand' = [hand EXCEPT ![j] = "error"]
        /\ UNCHANGED <<log, recorded>>
     \/ /\ ~ Injects(j)
        /\ Record([job |-> j, attempts |-> made[j] + 1])
        /\ recorded' = [recorded EXCEPT ![j] = @ + 1]
        /\ hand' = [hand EXCEPT ![j] = "ok"]
  /\ UNCHANGED <<failures, job, crashes, admin>>

\* The outcome is written back; attemptsMade counts it.
Complete(j) ==
  /\ hand[j] = "ok"
  /\ state' = [state EXCEPT ![j] = "completed"]
  /\ made' = [made EXCEPT ![j] = @ + 1]
  /\ returned' = [returned EXCEPT ![j] = made[j] + 1]
  /\ hand' = [hand EXCEPT ![j] = "none"]
  /\ UNCHANGED <<failures, stalls, log, recorded, crashes, admin>>

\* Seeded fault: the retry budget loses one attempt.
FailOffByOne(j) ==
  /\ hand[j] = "error"
  /\ made' = [made EXCEPT ![j] = @ + 1]
  /\ state' = [state EXCEPT ![j] = IF made[j] + 2 < Attempts THEN "delayed" ELSE "failed"]
  /\ hand' = [hand EXCEPT ![j] = "none"]
  /\ UNCHANGED <<failures, stalls, returned, log, recorded, crashes, admin>>

\* A failed attempt is delayed for its backoff, or was the last one.
Fail(j) ==
  /\ hand[j] = "error"
  /\ made' = [made EXCEPT ![j] = @ + 1]
  /\ state' = [state EXCEPT ![j] = IF made[j] + 1 < Attempts THEN "delayed" ELSE "failed"]
  /\ hand' = [hand EXCEPT ![j] = "none"]
  /\ UNCHANGED <<failures, stalls, returned, log, recorded, crashes, admin>>

Promote(j) ==
  /\ state[j] = "delayed"
  /\ state' = [state EXCEPT ![j] = "wait"]
  /\ UNCHANGED <<failures, made, stalls, returned, worker, admin>>

\* The process dies and is restarted: the log and every delivery are lost.
Crash ==
  /\ crashes < MaxCrashes
  /\ crashes' = crashes + 1
  /\ hand' = [j \in Webhooks |-> "none"]
  /\ log' = <<>>
  /\ UNCHANGED <<failures, job, recorded, admin>>

\* An active job nobody holds is delivered again, or fails for good; its
\* attempts are not touched.
Stalled(j) ==
  /\ state[j] = "active"
  /\ hand[j] = "none"
  /\ stalls' = [stalls EXCEPT ![j] = @ + 1]
  /\ state' = [state EXCEPT ![j] = IF stalls[j] < MaxStalledCount THEN "wait" ELSE "failed"]
  /\ UNCHANGED <<failures, made, returned, worker, admin>>

-----------------------------------------------------------------------------
(* The admin plane *)

\* AdminQueuesService.pause and resume.
PauseQueue  == paused' = TRUE
ResumeQueue == paused' = FALSE

\* QueueActionsBar: either button, at any time.
Pause ==
  /\ pauses < MaxPauses
  /\ pauses' = pauses + 1
  /\ PauseQueue
  /\ UNCHANGED <<failures, job, worker, pages, cleans>>

Resume ==
  /\ ResumeQueue
  /\ UNCHANGED <<failures, job, worker, pages, pauses, cleans>>

\* CLEAN_STATUSES.
CleanStatuses == {"completed", "failed", "delayed", "wait", "active", "paused"}

\* The status a job counts under: a waiting job of a paused queue is "paused".
Status(j) == IF state[j] = "wait" /\ paused THEN "paused" ELSE state[j]

\* BullMQ leaves a job alone that a worker has locked.
Removable(j) == hand[j] = "none"

\* AdminQueuesService.clean.
Cleaned(status) == {j \in Webhooks : Status(j) = status /\ Removable(j)}

\* The endpoint, under the defaults of its body: no grace, no limit.
CleanQueue(status) ==
  state' = [j \in Webhooks |-> IF j \in Cleaned(status) THEN "gone" ELSE state[j]]

\* CleanDialog, confirmed with something to remove.
Clean(status) ==
  /\ cleans < MaxCleans /\ Cleaned(status) # {}
  /\ CleanQueue(status)
  /\ cleans' = cleans + 1
  /\ UNCHANGED <<failures, made, stalls, returned, worker, paused, pages, pauses>>

\* A job has a row under the tab of its status, and still has one for a poll
\* after it is gone.
Listed(j) == state[j] # "none"

\* The jobs panel: every status has its tab, every page of a tab its rows, and
\* a row opens the job's page.
OpenJob(j) ==
  /\ Listed(j) /\ watched # j
  /\ watched' = j
  /\ UNCHANGED <<failures, job, worker, paused, views, pauses, cleans>>

\* Seeded fault: a job looks final once it was attempted.
LooksFinalAttempted(v) == v.attempts > 0

\* looksFinal(): finishedOn is set.
LooksFinal(v) == v.finished

\* findJob(): a job that does not exist is a 404.
Found(j) == state[j] \notin {"none", "gone"}

\* toJobView().
JobView(j) == [finished |-> state[j] \in Ended, attempts |-> made[j], returned |-> returned[j]]

\* The mark beside the title of a job page, and what the page shows below it.
Refreshing(j)  == ~ LooksFinal(views[j])
Timeline(j)    == views[j].attempts
ReturnValue(j) == views[j].returned

\* The open job page polls until what it has looks final; at a 404 it keeps
\* what it has, and polls on.
PollJob ==
  /\ watched # NoJob
  /\ Refreshing(watched) /\ Found(watched)
  /\ views' = [views EXCEPT ![watched] = JobView(watched)]
  /\ UNCHANGED <<failures, job, worker, paused, watched, pauses, cleans>>

-----------------------------------------------------------------------------

Next ==
  \/ \E j \in Webhooks : Enqueue(j)
  \/ \E j \in Webhooks : Fetch(j)
  \/ \E j \in Webhooks : Deliver(j)
  \/ \E j \in Webhooks : Complete(j)
  \/ \E j \in Webhooks : Fail(j)
  \/ \E j \in Webhooks : Promote(j)
  \/ \E j \in Webhooks : Stalled(j)
  \/ Crash
  \/ Pause \/ Resume \/ PollJob
  \/ \E j \in Webhooks : OpenJob(j)
  \/ \E status \in CleanStatuses : Clean(status)

\* Slots, backoff timers and the stalled check keep going; nobody is obliged to
\* place orders, to resume the queue or to crash.
Fairness ==
  /\ \A j \in Webhooks :
       /\ WF_vars(Fetch(j))
       /\ WF_vars(Deliver(j)) /\ WF_vars(Complete(j)) /\ WF_vars(Fail(j))
       /\ WF_vars(Promote(j)) /\ WF_vars(Stalled(j))

Spec     == Init /\ [][Next]_vars
FairSpec == Spec /\ Fairness

-----------------------------------------------------------------------------
(* Properties *)

\* What the retry theatre shows is exact, whatever crashes in between: a
\* completed webhook made and says failures + 1 attempts, and so does every
\* delivery in the log, repeated ones included -- a redelivery is no attempt;
\* one that failed without having spent its budget stalled once too often.
AttemptsAreExact ==
  /\ \A j \in Webhooks :
       /\ state[j] = "completed" => returned[j] = failures + 1 /\ made[j] = failures + 1
       /\ state[j] = "failed" =>
            /\ made[j] <= failures
            /\ made[j] = Attempts \/ stalls[j] > MaxStalledCount
  /\ \A i \in DOMAIN log : log[i].attempts = failures + 1

\* A delivery is recorded more than once only if the process died between the
\* record and the write-back, and never for a job the budget makes fail.
RecordedOncePerLife ==
  \A j \in Webhooks :
    /\ recorded[j] <= 1 + crashes
    /\ recorded[j] > 0 => made[j] >= failures

\* A webhook ends completed exactly when the budget covers the failures, as
\* long as crashes stay within the stalls it survives -- through pauses, if
\* the queue is not left paused, and unless an operator cleans it away.
BudgetDecides ==
  \A j \in Webhooks :
    <>[](state[j] # "none" /\ ~ paused) =>
      <>[](state[j] \in {IF failures < Attempts THEN "completed" ELSE "failed", "gone"})

\* A job page stops polling on the truth only: between a failed attempt and
\* its retry, or while a stalled job waits, it goes on -- whichever pages were
\* opened in between, whatever was cleaned.
StoppedPageIsRight ==
  \A j \in Webhooks : ~ Refreshing(j) =>
    /\ state[j] \in Ended \cup {"gone"}
    /\ Timeline(j) = made[j] /\ ReturnValue(j) = returned[j]

=============================================================================
