------------------------- MODULE WebhookDeliveryProofs -------------------------
(***************************************************************************)
(* The webhook consumer for any number of jobs, failures, attempts, slots, *)
(* log entries, stalls and crashes: the types, the numbers the retry       *)
(* theatre shows, the deliveries recorded, and what a job page that has    *)
(* stopped polling shows.                                                  *)
(*                                                                         *)
(* The three properties share one invariant: what a job may still do (Way) *)
(* decides how far its attempts, its stalls and its records have come.     *)
(***************************************************************************)
EXTENDS WebhookDelivery, SequenceTheorems, TLAPS

USE NoJobAssumption, BoundsAssumption

\* The job will not be handled again.
Closed(j) == state[j] \in Ended \cup {"gone"}

\* A slot holds active jobs only; a handler threw because the injected failure
\* was due, and returned because it was not.
Way(j) ==
  /\ hand[j] # "none" => state[j] = "active"
  /\ hand[j] = "error" => made[j] < failures
  /\ hand[j] = "ok" => made[j] = failures

\* The attempts and stalls of an open job are within their budgets.
Budget(j) ==
  /\ ~ Closed(j) => made[j] < Attempts /\ stalls[j] <= MaxStalledCount
  /\ state[j] \notin {"completed", "gone"} => made[j] <= failures
  /\ state[j] = "completed" => returned[j] = failures + 1 /\ made[j] = failures + 1
  /\ state[j] = "failed" => made[j] = Attempts \/ stalls[j] > MaxStalledCount

\* An open job that is not just back from its handler was recorded at most
\* once in every earlier life of the process.
Recorded(j) ==
  /\ recorded[j] <= 1 + crashes
  /\ ~ Closed(j) /\ hand[j] # "ok" => recorded[j] <= crashes
  /\ recorded[j] > 0 => made[j] >= failures

\* A view that looks final was taken of a closed job, and nothing has changed.
Page(j) ==
  views[j].finished =>
    Closed(j) /\ views[j].attempts = made[j] /\ views[j].returned = returned[j]

JobInv(j) == Way(j) /\ Budget(j) /\ Recorded(j) /\ Page(j)
LogInv    == \A i \in DOMAIN log : log[i].attempts = failures + 1
Inv       == TypeOK /\ LogInv /\ \A j \in Webhooks : JobInv(j)

-----------------------------------------------------------------------------
(* Steps *)

\* The numbers of a job.
LEMMA Numbers ==
  ASSUME TypeOK, NEW j \in Webhooks
  PROVE  /\ made[j] \in Nat /\ stalls[j] \in Nat /\ returned[j] \in Nat /\ recorded[j] \in Nat
         /\ failures \in Nat /\ crashes \in Nat /\ made[j] <= Attempts
         /\ stalls[j] <= MaxStalledCount + 1
BY DEF TypeOK

\* The log takes a delivery and loses its oldest entry when it is over-full.
LEMMA RecordKeeps ==
  ASSUME TypeOK, LogInv, NEW d \in Delivery, d.attempts = failures + 1, Record(d)
  PROVE  /\ log' \in Seq(Delivery) /\ Len(log') <= LogCapacity
         /\ \A i \in DOMAIN log' : log'[i].attempts = failures + 1
<1> DEFINE n     == Len(log)
           grown == Append(log, d)
<1>1. log \in Seq(Delivery) /\ n \in Nat /\ n <= LogCapacity /\ LogCapacity \in Nat \ {0}
      /\ DOMAIN log = 1 .. n
  BY LenProperties DEF TypeOK
<1>2. /\ grown \in Seq(Delivery) /\ grown # <<>> /\ Len(grown) = n + 1
      /\ \A i \in 1 .. n : grown[i] = log[i]
      /\ grown[n + 1] = d
  BY <1>1, AppendProperties
<1>3. \A i \in 1 .. n + 1 : grown[i].attempts = failures + 1
  <2> HIDE DEF grown, n
  <2> QED
    BY <1>1, <1>2 DEF LogInv
<1>4. CASE ~ (Len(grown) > LogCapacity)
  <2>1. log' = grown
    BY <1>4 DEF Record
  <2>2. DOMAIN grown = 1 .. n + 1
    BY <1>2, LenProperties
  <2> HIDE DEF grown, n
  <2> QED
    BY <1>1, <1>2, <1>3, <1>4, <2>1, <2>2
<1>5. CASE Len(grown) > LogCapacity
  <2>1. log' = Tail(grown)
    BY <1>5 DEF Record
  <2>2. /\ Tail(grown) \in Seq(Delivery) /\ Len(Tail(grown)) = Len(grown) - 1
        /\ \A i \in 1 .. Len(Tail(grown)) : Tail(grown)[i] = grown[i + 1]
    BY <1>2, HeadTailProperties
  <2>3. DOMAIN Tail(grown) = 1 .. Len(Tail(grown))
    BY <2>2, LenProperties
  <2> HIDE DEF grown, n
  <2>4. Len(Tail(grown)) = n
    BY <1>1, <1>2, <2>2
  <2>5. \A i \in 1 .. n : i + 1 \in 1 .. n + 1 /\ Tail(grown)[i] = grown[i + 1]
    BY <1>1, <2>2, <2>4
  <2>6. \A i \in 1 .. n : Tail(grown)[i].attempts = failures + 1
    BY <1>3, <2>5
  <2> QED
    BY <1>1, <2>1, <2>2, <2>3, <2>4, <2>6
<1> QED
  BY <1>4, <1>5

\* What a step leaves alone: a job whose own record, slot and view stand.
Untouched(j) ==
  /\ state'[j] = state[j] /\ made'[j] = made[j] /\ stalls'[j] = stalls[j]
  /\ returned'[j] = returned[j] /\ hand'[j] = hand[j] /\ recorded'[j] = recorded[j]
  /\ views'[j] = views[j]

LEMMA UntouchedKeeps ==
  ASSUME NEW j \in Webhooks, JobInv(j), Untouched(j), failures' = failures, crashes' = crashes
  PROVE  JobInv(j)'
BY DEF JobInv, Way, Budget, Recorded, Page, Closed, Untouched

\* The variables no step but its own changes.
LEMMA StepFrame ==
  ASSUME TypeOK, NEW j \in Webhooks, NEW k \in Webhooks, k # j,
         \/ Enqueue(j) \/ Fetch(j) \/ Deliver(j) \/ Complete(j) \/ Fail(j)
         \/ Promote(j) \/ Stalled(j)
  PROVE  Untouched(k) /\ failures' = failures /\ crashes' = crashes
<1>1. CASE Enqueue(j)
  BY <1>1 DEF Enqueue, Untouched, worker, admin, pages, TypeOK
<1>2. CASE Fetch(j)
  BY <1>2 DEF Fetch, Untouched, admin, pages, TypeOK
<1>3. CASE Deliver(j)
  BY <1>3 DEF Deliver, Untouched, job, admin, pages, TypeOK
<1>4. CASE Complete(j)
  BY <1>4 DEF Complete, Untouched, admin, pages, TypeOK
<1>5. CASE Fail(j)
  BY <1>5 DEF Fail, Untouched, admin, pages, TypeOK
<1>6. CASE Promote(j)
  BY <1>6 DEF Promote, Untouched, worker, admin, pages, TypeOK
<1>7. CASE Stalled(j)
  BY <1>7 DEF Stalled, Untouched, worker, admin, pages, TypeOK
<1> QED
  BY <1>1, <1>2, <1>3, <1>4, <1>5, <1>6, <1>7

\* Of one job's steps: its own record afterwards, and the types.
OwnStep(j) == TypeOK' /\ LogInv' /\ JobInv(j)'

LEMMA EnqueueKeeps == ASSUME Inv, NEW j \in Webhooks, Enqueue(j) PROVE OwnStep(j)
<1>1. TypeOK /\ LogInv /\ JobInv(j)
  BY DEF Inv
<1>2. /\ state[j] = "none" /\ state' = [state EXCEPT ![j] = "wait"]
      /\ failures' = failures /\ made' = made /\ stalls' = stalls /\ returned' = returned
      /\ hand' = hand /\ log' = log /\ recorded' = recorded /\ crashes' = crashes
      /\ paused' = paused /\ watched' = watched /\ views' = views /\ pauses' = pauses
      /\ cleans' = cleans
  BY DEF Enqueue, worker, admin, pages
<1>3. state' \in [Webhooks -> Ended \cup {"none", "wait", "active", "delayed", "gone"}]
      /\ state'[j] = "wait"
  BY <1>1, <1>2 DEF TypeOK
<1>4. TypeOK' /\ LogInv'
  BY <1>1, <1>2, <1>3 DEF TypeOK, LogInv
<1>5. JobInv(j)'
  BY <1>1, <1>2, <1>3 DEF JobInv, Way, Budget, Recorded, Page, Closed, Ended
<1> QED
  BY <1>4, <1>5 DEF OwnStep

LEMMA FetchKeeps == ASSUME Inv, NEW j \in Webhooks, Fetch(j) PROVE OwnStep(j)
<1>1. TypeOK /\ LogInv /\ JobInv(j)
  BY DEF Inv
<1>2. /\ state[j] = "wait" /\ state' = [state EXCEPT ![j] = "active"]
      /\ hand' = [hand EXCEPT ![j] = "fetched"]
      /\ failures' = failures /\ made' = made /\ stalls' = stalls /\ returned' = returned
      /\ log' = log /\ recorded' = recorded /\ crashes' = crashes
      /\ paused' = paused /\ watched' = watched /\ views' = views /\ pauses' = pauses
      /\ cleans' = cleans
  BY DEF Fetch, admin, pages
<1>3. /\ state' \in [Webhooks -> Ended \cup {"none", "wait", "active", "delayed", "gone"}]
      /\ hand' \in [Webhooks -> {"none", "fetched", "ok", "error"}]
      /\ state'[j] = "active" /\ hand'[j] = "fetched"
  BY <1>1, <1>2 DEF TypeOK
<1>4. TypeOK' /\ LogInv'
  BY <1>1, <1>2, <1>3 DEF TypeOK, LogInv
<1>5. hand[j] = "none"
  BY <1>1, <1>2 DEF JobInv, Way, TypeOK
<1>6. JobInv(j)'
  BY <1>1, <1>2, <1>3, <1>5 DEF JobInv, Way, Budget, Recorded, Page, Closed, Ended
<1> QED
  BY <1>4, <1>6 DEF OwnStep

\* The handler throws while the failure is due, else it records the delivery.
LEMMA DeliverKeeps == ASSUME Inv, NEW j \in Webhooks, Deliver(j) PROVE OwnStep(j)
<1>1. TypeOK /\ LogInv /\ JobInv(j)
  BY DEF Inv
<1>2. /\ hand[j] = "fetched"
      /\ failures' = failures /\ state' = state /\ made' = made /\ stalls' = stalls
      /\ returned' = returned /\ crashes' = crashes
      /\ paused' = paused /\ watched' = watched /\ views' = views /\ pauses' = pauses
      /\ cleans' = cleans
  BY DEF Deliver, job, admin, pages
<1>3. state[j] = "active" /\ ~ Closed(j) /\ made[j] <= failures
  BY <1>1, <1>2 DEF JobInv, Way, Budget, Closed, Ended
<1>4. CASE made[j] < failures /\ hand' = [hand EXCEPT ![j] = "error"] /\ UNCHANGED <<log, recorded>>
  <2>1. hand' \in [Webhooks -> {"none", "fetched", "ok", "error"}] /\ hand'[j] = "error"
    BY <1>1, <1>4 DEF TypeOK
  <2>2. TypeOK' /\ LogInv'
    BY <1>1, <1>2, <1>4, <2>1 DEF TypeOK, LogInv
  <2>3. JobInv(j)'
    BY <1>1, <1>2, <1>3, <1>4, <2>1 DEF JobInv, Way, Budget, Recorded, Page, Closed, Ended
  <2> QED
    BY <2>2, <2>3 DEF OwnStep
<1>5. CASE /\ ~ (made[j] < failures)
           /\ Record([job |-> j, attempts |-> made[j] + 1])
           /\ recorded' = [recorded EXCEPT ![j] = @ + 1]
           /\ hand' = [hand EXCEPT ![j] = "ok"]
  <2>1. made[j] = failures /\ recorded[j] \in Nat /\ crashes \in Nat /\ failures \in Nat
    BY <1>1, <1>3, <1>5, Numbers
  <2>2. /\ hand' \in [Webhooks -> {"none", "fetched", "ok", "error"}] /\ hand'[j] = "ok"
        /\ recorded' \in [Webhooks -> Nat] /\ recorded'[j] = recorded[j] + 1
    <3>1. /\ hand \in [Webhooks -> {"none", "fetched", "ok", "error"}]
          /\ recorded \in [Webhooks -> Nat]
      BY <1>1 DEF TypeOK
    <3> QED
      BY <1>5, <3>1
  <2>3. /\ log' \in Seq(Delivery) /\ Len(log') <= LogCapacity
        /\ \A i \in DOMAIN log' : log'[i].attempts = failures + 1
    <3>1. [job |-> j, attempts |-> made[j] + 1] \in Delivery
      BY <1>1, Numbers DEF Delivery
    <3> QED
      BY <1>1, <1>5, <2>1, <3>1, RecordKeeps
  <2>4. TypeOK' /\ LogInv'
    BY <1>1, <1>2, <2>2, <2>3 DEF TypeOK, LogInv
  <2>5. recorded[j] <= crashes
    BY <1>1, <1>2, <1>3 DEF JobInv, Recorded
  <2>6. Way(j)' /\ Budget(j)' /\ Page(j)'
    BY <1>1, <1>2, <1>3, <2>1, <2>2 DEF JobInv, Way, Budget, Page, Closed, Ended
  <2>7. Recorded(j)'
    BY <1>2, <2>1, <2>2, <2>5 DEF Recorded
  <2> QED
    BY <2>4, <2>6, <2>7 DEF OwnStep, JobInv
<1> QED
  BY <1>4, <1>5 DEF Deliver, Injects

\* The attempt that did not throw is the one the failures leave.
LEMMA CompleteKeeps == ASSUME Inv, NEW j \in Webhooks, Complete(j) PROVE OwnStep(j)
<1>1. TypeOK /\ LogInv /\ JobInv(j)
  BY DEF Inv
<1>2. /\ hand[j] = "ok" /\ state' = [state EXCEPT ![j] = "completed"]
      /\ made' = [made EXCEPT ![j] = @ + 1] /\ returned' = [returned EXCEPT ![j] = made[j] + 1]
      /\ hand' = [hand EXCEPT ![j] = "none"]
      /\ failures' = failures /\ stalls' = stalls
      /\ log' = log /\ recorded' = recorded /\ crashes' = crashes
      /\ paused' = paused /\ watched' = watched /\ views' = views /\ pauses' = pauses
      /\ cleans' = cleans
  BY DEF Complete, admin, pages
<1>3. state[j] = "active" /\ ~ Closed(j) /\ made[j] = failures /\ made[j] < Attempts
  BY <1>1, <1>2 DEF JobInv, Way, Budget, Closed, Ended
<1>4. made[j] \in Nat /\ recorded[j] \in Nat /\ failures \in Nat /\ crashes \in Nat
  BY <1>1, Numbers
<1>5. /\ state' \in [Webhooks -> Ended \cup {"none", "wait", "active", "delayed", "gone"}]
      /\ state'[j] = "completed"
  BY <1>1, <1>2 DEF TypeOK, Ended
<1>6. /\ made' \in [Webhooks -> 0 .. Attempts] /\ made'[j] = made[j] + 1
      /\ returned' \in [Webhooks -> Nat] /\ returned'[j] = made[j] + 1
      /\ hand' \in [Webhooks -> {"none", "fetched", "ok", "error"}] /\ hand'[j] = "none"
  <2>1. /\ made \in [Webhooks -> 0 .. Attempts] /\ returned \in [Webhooks -> Nat]
        /\ hand \in [Webhooks -> {"none", "fetched", "ok", "error"}]
    BY <1>1 DEF TypeOK
  <2>2. made[j] + 1 \in 0 .. Attempts /\ made[j] + 1 \in Nat
    BY <1>3, <1>4
  <2> QED
    BY <1>2, <2>1, <2>2
<1>7. TypeOK' /\ LogInv'
  BY <1>1, <1>2, <1>5, <1>6 DEF TypeOK, LogInv
<1>8. ~ views[j].finished
  BY <1>1, <1>3 DEF JobInv, Page
<1>9. JobInv(j)'
  BY <1>1, <1>2, <1>3, <1>4, <1>5, <1>6, <1>8
  DEF JobInv, Way, Budget, Recorded, Page, Closed, Ended
<1> QED
  BY <1>7, <1>9 DEF OwnStep

\* An attempt that threw is one of the failures.
LEMMA FailKeeps == ASSUME Inv, NEW j \in Webhooks, Fail(j) PROVE OwnStep(j)
<1>1. TypeOK /\ LogInv /\ JobInv(j)
  BY DEF Inv
<1>2. /\ hand[j] = "error" /\ made' = [made EXCEPT ![j] = @ + 1]
      /\ state' = [state EXCEPT ![j] = IF made[j] + 1 < Attempts THEN "delayed" ELSE "failed"]
      /\ hand' = [hand EXCEPT ![j] = "none"]
      /\ failures' = failures /\ stalls' = stalls /\ returned' = returned
      /\ log' = log /\ recorded' = recorded /\ crashes' = crashes
      /\ paused' = paused /\ watched' = watched /\ views' = views /\ pauses' = pauses
      /\ cleans' = cleans
  BY DEF Fail, admin, pages
<1>3. state[j] = "active" /\ ~ Closed(j) /\ made[j] < failures /\ made[j] < Attempts
  BY <1>1, <1>2 DEF JobInv, Way, Budget, Closed, Ended
<1>4. made[j] \in Nat /\ recorded[j] \in Nat /\ failures \in Nat /\ crashes \in Nat
  BY <1>1, Numbers
<1>5. /\ state' \in [Webhooks -> Ended \cup {"none", "wait", "active", "delayed", "gone"}]
      /\ state'[j] = IF made[j] + 1 < Attempts THEN "delayed" ELSE "failed"
  BY <1>1, <1>2 DEF TypeOK, Ended
<1>6. /\ made' \in [Webhooks -> 0 .. Attempts] /\ made'[j] = made[j] + 1
      /\ hand' \in [Webhooks -> {"none", "fetched", "ok", "error"}] /\ hand'[j] = "none"
  <2>1. made \in [Webhooks -> 0 .. Attempts] /\ hand \in [Webhooks -> {"none", "fetched", "ok", "error"}]
    BY <1>1 DEF TypeOK
  <2>2. made[j] + 1 \in 0 .. Attempts
    BY <1>3, <1>4
  <2> QED
    BY <1>2, <2>1, <2>2
<1>7. TypeOK' /\ LogInv'
  BY <1>1, <1>2, <1>5, <1>6 DEF TypeOK, LogInv
<1>8. ~ views[j].finished /\ recorded[j] <= crashes
  BY <1>1, <1>2, <1>3 DEF JobInv, Page, Recorded
<1>9. Way(j)' /\ Page(j)'
  BY <1>2, <1>6, <1>8 DEF Way, Page
<1>10. Budget(j)'
  BY <1>1, <1>2, <1>3, <1>4, <1>5, <1>6 DEF JobInv, Budget, Closed, Ended
<1>11. Recorded(j)'
  BY <1>1, <1>2, <1>4, <1>6, <1>8 DEF JobInv, Recorded
<1> QED
  BY <1>7, <1>9, <1>10, <1>11 DEF OwnStep, JobInv

LEMMA PromoteKeeps == ASSUME Inv, NEW j \in Webhooks, Promote(j) PROVE OwnStep(j)
<1>1. TypeOK /\ LogInv /\ JobInv(j)
  BY DEF Inv
<1>2. /\ state[j] = "delayed" /\ state' = [state EXCEPT ![j] = "wait"]
      /\ failures' = failures /\ made' = made /\ stalls' = stalls /\ returned' = returned
      /\ hand' = hand /\ log' = log /\ recorded' = recorded /\ crashes' = crashes
      /\ paused' = paused /\ watched' = watched /\ views' = views /\ pauses' = pauses
      /\ cleans' = cleans
  BY DEF Promote, worker, admin, pages
<1>3. state' \in [Webhooks -> Ended \cup {"none", "wait", "active", "delayed", "gone"}]
      /\ state'[j] = "wait"
  BY <1>1, <1>2 DEF TypeOK
<1>4. TypeOK' /\ LogInv'
  BY <1>1, <1>2, <1>3 DEF TypeOK, LogInv
<1>5. JobInv(j)'
  BY <1>1, <1>2, <1>3 DEF JobInv, Way, Budget, Recorded, Page, Closed, Ended
<1> QED
  BY <1>4, <1>5 DEF OwnStep

\* A stall costs no attempt.
LEMMA StalledKeeps == ASSUME Inv, NEW j \in Webhooks, Stalled(j) PROVE OwnStep(j)
<1>1. TypeOK /\ LogInv /\ JobInv(j)
  BY DEF Inv
<1>2. /\ state[j] = "active" /\ hand[j] = "none" /\ stalls' = [stalls EXCEPT ![j] = @ + 1]
      /\ state' = [state EXCEPT ![j] = IF stalls[j] < MaxStalledCount THEN "wait" ELSE "failed"]
      /\ failures' = failures /\ made' = made /\ returned' = returned
      /\ hand' = hand /\ log' = log /\ recorded' = recorded /\ crashes' = crashes
      /\ paused' = paused /\ watched' = watched /\ views' = views /\ pauses' = pauses
      /\ cleans' = cleans
  BY DEF Stalled, worker, admin, pages
<1>3. ~ Closed(j) /\ stalls[j] <= MaxStalledCount
  BY <1>1, <1>2 DEF JobInv, Budget, Closed, Ended
<1>4. stalls[j] \in Nat /\ made[j] \in Nat /\ recorded[j] \in Nat /\ crashes \in Nat /\ failures \in Nat
  BY <1>1, Numbers
<1>5. /\ state' \in [Webhooks -> Ended \cup {"none", "wait", "active", "delayed", "gone"}]
      /\ state'[j] = IF stalls[j] < MaxStalledCount THEN "wait" ELSE "failed"
      /\ stalls' \in [Webhooks -> 0 .. MaxStalledCount + 1] /\ stalls'[j] = stalls[j] + 1
  <2>1. /\ state \in [Webhooks -> Ended \cup {"none", "wait", "active", "delayed", "gone"}]
        /\ stalls \in [Webhooks -> 0 .. MaxStalledCount + 1]
    BY <1>1 DEF TypeOK
  <2>2. stalls[j] + 1 \in 0 .. MaxStalledCount + 1
    BY <1>3, <1>4
  <2> QED
    BY <1>2, <2>1, <2>2 DEF Ended
<1>6. TypeOK' /\ LogInv'
  BY <1>1, <1>2, <1>5 DEF TypeOK, LogInv
<1>7. JobInv(j)'
  BY <1>1, <1>2, <1>3, <1>4, <1>5 DEF JobInv, Way, Budget, Recorded, Page, Closed, Ended
<1> QED
  BY <1>6, <1>7 DEF OwnStep

\* The process dies: what was under way may be recorded once more.
LEMMA CrashKeeps == ASSUME Inv, Crash PROVE Inv'
<1>1. TypeOK /\ \A j \in Webhooks : JobInv(j)
  BY DEF Inv
<1>2. /\ crashes < MaxCrashes /\ crashes' = crashes + 1 /\ log' = <<>>
      /\ hand' = [j \in Webhooks |-> "none"]
      /\ failures' = failures /\ state' = state /\ made' = made /\ stalls' = stalls
      /\ returned' = returned /\ recorded' = recorded
      /\ paused' = paused /\ watched' = watched /\ views' = views /\ pauses' = pauses
      /\ cleans' = cleans
  BY DEF Crash, job, admin, pages
<1>3. crashes \in Nat /\ crashes' \in 0 .. MaxCrashes
  BY <1>1, <1>2 DEF TypeOK
<1>4. hand' \in [Webhooks -> {"none", "fetched", "ok", "error"}]
  BY <1>2
<1>5. log' \in Seq(Delivery) /\ Len(log') = 0 /\ DOMAIN log' = {}
  BY <1>2, EmptySeq, LenProperties
<1>6. TypeOK'
  <2>1. LogCapacity \in Nat /\ Len(log') <= LogCapacity
    BY <1>5
  <2>2. /\ failures' \in 0 .. MaxFailures
        /\ state' \in [Webhooks -> Ended \cup {"none", "wait", "active", "delayed", "gone"}]
        /\ made' \in [Webhooks -> 0 .. Attempts] /\ stalls' \in [Webhooks -> 0 .. MaxStalledCount + 1]
        /\ returned' \in [Webhooks -> Nat] /\ recorded' \in [Webhooks -> Nat]
        /\ paused' \in BOOLEAN /\ watched' \in Webhooks \cup {NoJob}
        /\ views' \in [Webhooks -> View]
        /\ pauses' \in 0 .. MaxPauses /\ cleans' \in 0 .. MaxCleans
    BY <1>1, <1>2 DEF TypeOK
  <2> QED
    BY <1>3, <1>4, <1>5, <2>1, <2>2 DEF TypeOK
<1>7. LogInv'
  BY <1>5 DEF LogInv
<1>8. ASSUME NEW j \in Webhooks PROVE JobInv(j)'
  <2>1. recorded[j] \in Nat
    BY <1>1, Numbers
  <2>2. JobInv(j) /\ hand'[j] = "none"
    BY <1>1, <1>2
  <2> QED
    BY <1>2, <1>3, <2>1, <2>2 DEF JobInv, Way, Budget, Recorded, Page, Closed
<1> QED
  BY <1>6, <1>7, <1>8 DEF Inv

\* An operator removes jobs no slot holds, whatever state they are in.
LEMMA CleanKeeps == ASSUME Inv, NEW status \in CleanStatuses, Clean(status) PROVE Inv'
<1>1. TypeOK /\ LogInv /\ \A j \in Webhooks : JobInv(j)
  BY DEF Inv
<1>2. /\ state' = [j \in Webhooks |-> IF j \in Cleaned(status) THEN "gone" ELSE state[j]]
      /\ cleans < MaxCleans /\ cleans' = cleans + 1
      /\ failures' = failures /\ made' = made /\ stalls' = stalls /\ returned' = returned
      /\ hand' = hand /\ log' = log /\ recorded' = recorded /\ crashes' = crashes
      /\ paused' = paused /\ watched' = watched /\ views' = views /\ pauses' = pauses
  BY DEF Clean, CleanQueue, worker, pages
<1>3. state' \in [Webhooks -> Ended \cup {"none", "wait", "active", "delayed", "gone"}]
  BY <1>1, <1>2 DEF TypeOK
<1>4. TypeOK' /\ LogInv'
  <2>1. cleans' \in 0 .. MaxCleans
    BY <1>1, <1>2 DEF TypeOK
  <2>2. /\ failures' \in 0 .. MaxFailures
        /\ made' \in [Webhooks -> 0 .. Attempts] /\ stalls' \in [Webhooks -> 0 .. MaxStalledCount + 1]
        /\ returned' \in [Webhooks -> Nat] /\ recorded' \in [Webhooks -> Nat]
        /\ hand' \in [Webhooks -> {"none", "fetched", "ok", "error"}]
        /\ log' \in Seq(Delivery) /\ Len(log') <= LogCapacity
        /\ paused' \in BOOLEAN /\ watched' \in Webhooks \cup {NoJob}
        /\ views' \in [Webhooks -> View]
        /\ pauses' \in 0 .. MaxPauses /\ crashes' \in 0 .. MaxCrashes
    BY <1>1, <1>2 DEF TypeOK
  <2>3. LogInv'
    BY <1>1, <1>2 DEF LogInv
  <2> QED
    BY <1>3, <2>1, <2>2, <2>3 DEF TypeOK
<1>5. ASSUME NEW j \in Webhooks PROVE JobInv(j)'
  <2>1. JobInv(j)
    BY <1>1
  <2>2. state'[j] = state[j] \/ (state'[j] = "gone" /\ hand[j] = "none")
    BY <1>2 DEF Cleaned, Removable
  <2> QED
    BY <1>2, <2>1, <2>2 DEF JobInv, Way, Budget, Recorded, Page, Closed, Ended
<1> QED
  BY <1>4, <1>5 DEF Inv

\* The open page takes a view of its job.
LEMMA PollKeeps == ASSUME Inv, PollJob PROVE Inv'
<1>1. TypeOK /\ LogInv /\ \A j \in Webhooks : JobInv(j)
  BY DEF Inv
<1>2. /\ watched \in Webhooks /\ views' = [views EXCEPT ![watched] = JobView(watched)]
      /\ failures' = failures /\ state' = state /\ made' = made /\ stalls' = stalls
      /\ returned' = returned
      /\ hand' = hand /\ log' = log /\ recorded' = recorded /\ crashes' = crashes
      /\ paused' = paused /\ watched' = watched /\ pauses' = pauses /\ cleans' = cleans
  BY <1>1 DEF PollJob, job, worker, TypeOK
<1>3. JobView(watched) \in View
  BY <1>1, <1>2, Numbers DEF JobView, View
<1>4. TypeOK' /\ LogInv'
  BY <1>1, <1>2, <1>3 DEF TypeOK, LogInv
<1>5. ASSUME NEW j \in Webhooks PROVE JobInv(j)'
  <2>1. JobInv(j)
    BY <1>1
  <2>2. views'[j] = views[j] \/ views'[j] = JobView(j)
    BY <1>1, <1>2 DEF TypeOK
  <2>3. Page(j)'
    <3>1. CASE views'[j] = views[j]
      BY <1>2, <2>1, <3>1 DEF JobInv, Page, Closed
    <3>2. CASE views'[j] = JobView(j)
      <4>1. views'[j].attempts = made[j] /\ views'[j].returned = returned[j]
        BY <3>2 DEF JobView
      <4>2. CASE state[j] \in Ended
        BY <1>2, <4>1, <4>2 DEF Page, Closed
      <4>3. CASE state[j] \notin Ended
        <5>1. (state[j] \in Ended) = FALSE
          BY <4>3
        <5>2. JobView(j) = [finished |-> FALSE, attempts |-> made[j], returned |-> returned[j]]
          BY <5>1, Zenon DEF JobView
        <5>3. ~ views'[j].finished
          BY <3>2, <5>2
        <5> QED
          BY <5>3 DEF Page
      <4> QED
        BY <4>2, <4>3
    <3> QED
      BY <2>2, <3>1, <3>2
  <2> QED
    BY <1>2, <2>1, <2>3 DEF JobInv, Way, Budget, Recorded, Closed
<1> QED
  BY <1>4, <1>5 DEF Inv

\* The rest of the admin plane, and stuttering, touch no job.
LEMMA AdminKeeps ==
  ASSUME Inv, Pause \/ Resume \/ (\E j \in Webhooks : OpenJob(j)) \/ UNCHANGED vars
  PROVE  Inv'
<1>1. TypeOK /\ LogInv /\ \A j \in Webhooks : JobInv(j)
  BY DEF Inv
<1>2. /\ failures' = failures /\ state' = state /\ made' = made /\ stalls' = stalls
      /\ returned' = returned /\ views' = views
      /\ hand' = hand /\ log' = log /\ recorded' = recorded /\ crashes' = crashes
  BY DEF Pause, Resume, OpenJob, vars, job, worker, admin, pages
<1>3. /\ paused' \in BOOLEAN /\ watched' \in Webhooks \cup {NoJob}
      /\ pauses' \in 0 .. MaxPauses /\ cleans' \in 0 .. MaxCleans
  <2>1. CASE Pause
    BY <1>1, <2>1 DEF Pause, PauseQueue, pages, TypeOK
  <2>2. CASE Resume
    BY <1>1, <2>2 DEF Resume, ResumeQueue, pages, TypeOK
  <2>3. CASE \E j \in Webhooks : OpenJob(j)
    BY <1>1, <2>3 DEF OpenJob, TypeOK
  <2>4. CASE UNCHANGED vars
    BY <1>1, <2>4 DEF vars, admin, pages, TypeOK
  <2> QED
    BY <2>1, <2>2, <2>3, <2>4
<1>4. TypeOK' /\ LogInv'
  BY <1>1, <1>2, <1>3 DEF TypeOK, LogInv
<1>5. ASSUME NEW j \in Webhooks PROVE JobInv(j)'
  <2>1. Untouched(j)
    BY <1>2 DEF Untouched
  <2> QED
    BY <1>1, <1>2, <2>1, UntouchedKeeps
<1> QED
  BY <1>4, <1>5 DEF Inv

-----------------------------------------------------------------------------
(* The invariant *)

LEMMA InitInv == Init => Inv
<1> SUFFICES ASSUME Init PROVE Inv
  OBVIOUS
<1>1. log = <<>> /\ log \in Seq(Delivery) /\ Len(log) = 0 /\ DOMAIN log = {}
  BY EmptySeq, LenProperties DEF Init
<1>2. TypeOK
  <2>1. /\ state \in [Webhooks -> Ended \cup {"none", "wait", "active", "delayed", "gone"}]
        /\ made \in [Webhooks -> 0 .. Attempts] /\ stalls \in [Webhooks -> 0 .. MaxStalledCount + 1]
        /\ returned \in [Webhooks -> Nat] /\ recorded \in [Webhooks -> Nat]
        /\ hand \in [Webhooks -> {"none", "fetched", "ok", "error"}]
    BY DEF Init
  <2>2. views \in [Webhooks -> View] /\ watched \in Webhooks \cup {NoJob} /\ paused \in BOOLEAN
    BY DEF Init, View, NoView
  <2>3. /\ failures \in 0 .. MaxFailures /\ pauses \in 0 .. MaxPauses /\ cleans \in 0 .. MaxCleans
        /\ crashes \in 0 .. MaxCrashes
    BY DEF Init
  <2> QED
    BY <1>1, <2>1, <2>2, <2>3 DEF TypeOK
<1>3. LogInv
  BY <1>1 DEF LogInv
<1>4. ASSUME NEW j \in Webhooks PROVE JobInv(j)
  <2>1. /\ state[j] = "none" /\ made[j] = 0 /\ stalls[j] = 0 /\ returned[j] = 0
        /\ hand[j] = "none" /\ recorded[j] = 0 /\ views[j] = NoView /\ crashes = 0
        /\ failures \in Nat
    BY DEF Init
  <2> QED
    BY <2>1 DEF JobInv, Way, Budget, Recorded, Page, Closed, Ended, NoView
<1> QED
  BY <1>2, <1>3, <1>4 DEF Inv

LEMMA NextInv == Inv /\ [Next]_vars => Inv'
<1> SUFFICES ASSUME Inv, [Next]_vars PROVE Inv'
  OBVIOUS
<1>1. ASSUME NEW j \in Webhooks,
             \/ Enqueue(j) \/ Fetch(j) \/ Deliver(j) \/ Complete(j) \/ Fail(j)
             \/ Promote(j) \/ Stalled(j)
      PROVE  Inv'
  <2>1. OwnStep(j)
    BY <1>1, EnqueueKeeps, FetchKeeps, DeliverKeeps, CompleteKeeps, FailKeeps, PromoteKeeps,
       StalledKeeps
  <2>2. ASSUME NEW k \in Webhooks, k # j PROVE JobInv(k)'
    <3>1. Untouched(k) /\ failures' = failures /\ crashes' = crashes
      BY <1>1, <2>2, StepFrame DEF Inv
    <3> QED
      BY <3>1, UntouchedKeeps DEF Inv
  <2> QED
    BY <2>1, <2>2 DEF OwnStep, Inv
<1>2. ASSUME Crash PROVE Inv'
  BY <1>2, CrashKeeps
<1>3. ASSUME NEW status \in CleanStatuses, Clean(status) PROVE Inv'
  BY <1>3, CleanKeeps
<1>4. ASSUME PollJob PROVE Inv'
  BY <1>4, PollKeeps
<1>5. ASSUME Pause \/ Resume \/ (\E j \in Webhooks : OpenJob(j)) \/ UNCHANGED vars PROVE Inv'
  BY <1>5, AdminKeeps
<1> QED
  BY <1>1, <1>2, <1>3, <1>4, <1>5 DEF Next

-----------------------------------------------------------------------------
(* Theorems *)

\* Every variable keeps its type, whatever the sizes of the environment.
THEOREM TypeCorrect == Spec => []TypeOK
<1>1. Inv => TypeOK
  BY DEF Inv
<1> QED
  BY <1>1, InitInv, NextInv, PTL DEF Spec

\* The numbers the retry theatre shows are the true ones.
THEOREM AttemptsExact == Spec => []AttemptsAreExact
<1>1. Inv => AttemptsAreExact
  BY DEF Inv, LogInv, JobInv, Budget, AttemptsAreExact
<1> QED
  BY <1>1, InitInv, NextInv, PTL DEF Spec

\* A second record of a delivery costs the life of a process.
THEOREM RecordedOnce == Spec => []RecordedOncePerLife
<1>1. Inv => RecordedOncePerLife
  BY DEF Inv, JobInv, Recorded, RecordedOncePerLife
<1> QED
  BY <1>1, InitInv, NextInv, PTL DEF Spec

\* A job page stops on the truth.
THEOREM StoppedPageTrue == Spec => []StoppedPageIsRight
<1>1. Inv => StoppedPageIsRight
  BY DEF Inv, JobInv, Page, Closed, StoppedPageIsRight, Refreshing, LooksFinal, Timeline, ReturnValue
<1> QED
  BY <1>1, InitInv, NextInv, PTL DEF Spec

=============================================================================
