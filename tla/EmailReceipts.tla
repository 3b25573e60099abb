--------------------------- MODULE EmailReceipts ---------------------------
(***************************************************************************)
(* The consumer of the `email` queue and the at-least-once deliveries it   *)
(* is exposed to (apps/api/src/processors/email.processor.ts).             *)
(*                                                                         *)
(* One API process runs a worker with a few slots (EMAIL_CONCURRENCY).  A  *)
(* slot fetches a waiting job, taking its lock in Redis; the handler runs  *)
(* synchronously; the outcome is then written back to Redis.  The process  *)
(* may die, or lose a lock, between any two of those steps: the job is     *)
(* then found stalled and delivered again.  The receipt handler defends    *)
(* itself with a marker per job id, kept in a bounded in-memory map.       *)
(*                                                                         *)
(* The queue itself (states, locks, stalled check) is BullMQ and is        *)
(* modelled from how this code relies on it.  Which waiting job is fetched *)
(* first (priorities) is left open.                                        *)
(***************************************************************************)
EXTENDS Naturals, Sequences, FiniteSets

CONSTANTS
  Receipts,          \* `send-receipt` jobs, by job id
  Welcomes,          \* `send-welcome` jobs
  Others,            \* jobs of any other name
  Slots,             \* the worker's concurrency slots, also its lock tokens
  NoJob, NoLock,
  MarkerCapacity,    \* IDEMPOTENCY_MARKER_CAPACITY
  MaxStalledCount,   \* stalls a job survives before BullMQ fails it
  MaxRestarts        \* bound on process deaths

Jobs == Receipts \cup Welcomes \cup Others

ASSUME KindsAssumption ==
  /\ Receipts \cap Welcomes = {}
  /\ Receipts \cap Others = {}
  /\ Welcomes \cap Others = {}
ASSUME NoneAssumption == NoJob \notin Jobs /\ NoLock \notin Slots
ASSUME SlotsAssumption == IsFiniteSet(Slots)
ASSUME BoundsAssumption ==
  /\ MarkerCapacity \in Nat \ {0}
  /\ MaxStalledCount \in Nat
  /\ MaxRestarts \in Nat

VARIABLES
  \* Redis
  state,      \* job state
  lock,       \* slot whose token locks the job, or NoLock
  stalls,     \* how often the job was found stalled
  returned,   \* returnvalue of a completed job, 0 for none
  \* the API process
  proc,       \* "up", "draining" (shutting down) or "down"
  slot,       \* what each slot is doing
  markers,    \* processedReceipts, a Map in insertion order
  \* history
  effects,    \* mails sent for the job (audit lines, for an unknown job)
  evictions,  \* markers of the job dropped because the map was full
  restarts    \* process deaths so far

redis   == <<state, lock, stalls, returned>>
history == <<effects, evictions, restarts>>
vars    == <<redis, proc, slot, markers, history>>

Marker == [job : Receipts, result : Nat]
Idle   == [phase |-> "idle", job |-> NoJob, result |-> 0]

Slot == {Idle} \cup [phase : {"fetched", "handled"}, job : Jobs, result : Nat]

TypeOK ==
  /\ state \in [Jobs -> {"none", "wait", "active", "completed", "failed"}]
  /\ lock \in [Jobs -> Slots \cup {NoLock}]
  /\ stalls \in [Jobs -> 0 .. MaxStalledCount + 1]
  /\ returned \in [Jobs -> Nat]
  /\ proc \in {"up", "draining", "down"}
  /\ slot \in [Slots -> Slot]
  /\ markers \in Seq(Marker)
  /\ Len(markers) <= MarkerCapacity
  /\ effects \in [Jobs -> Nat]
  /\ evictions \in [Jobs -> Nat]
  /\ restarts \in 0 .. MaxRestarts

Init ==
  /\ state = [j \in Jobs |-> "none"]
  /\ lock = [j \in Jobs |-> NoLock]
  /\ stalls = [j \in Jobs |-> 0]
  /\ returned = [j \in Jobs |-> 0]
  /\ proc = "up"
  /\ slot = [s \in Slots |-> Idle]
  /\ markers = <<>>
  /\ effects = [j \in Jobs |-> 0]
  /\ evictions = [j \in Jobs |-> 0]
  /\ restarts = 0

-----------------------------------------------------------------------------
(* The queue, up to the delivery *)

\* Producers (orders, campaigns, onboarding) add the job.
Enqueue(j) ==
  /\ state[j] = "none"
  /\ state' = [state EXCEPT ![j] = "wait"]
  /\ UNCHANGED <<lock, stalls, returned, proc, slot, markers, history>>

\* A free slot of a worker that is not closing takes a waiting job and locks it.
Fetch(s, j) ==
  /\ proc = "up"
  /\ slot[s] = Idle
  /\ state[j] = "wait"
  /\ state' = [state EXCEPT ![j] = "active"]
  /\ lock' = [lock EXCEPT ![j] = s]
  /\ slot' = [slot EXCEPT ![s] = [phase |-> "fetched", job |-> j, result |-> 0]]
  /\ UNCHANGED <<stalls, returned, proc, markers, history>>

-----------------------------------------------------------------------------
(* The handlers *)

Marked(j)   == \E i \in DOMAIN markers : markers[i].job = j
MarkerOf(j) == markers[CHOOSE i \in DOMAIN markers : markers[i].job = j]

\* evictOldestMarkerWhenFull(): drop the oldest key once the map is over-full.
Trimmed(seq) == IF Len(seq) > MarkerCapacity THEN Tail(seq) ELSE seq

\* rememberReceipt(), followed by the eviction; the history counts the victim.
Remember(j, result) ==
  LET grown == Append(markers, [job |-> j, result |-> result])
  IN  /\ markers' = Trimmed(grown)
      /\ evictions' = IF Len(Trimmed(grown)) < Len(grown)
                      THEN [evictions EXCEPT ![Head(grown).job] = @ + 1]
                      ELSE evictions

\* The handler has returned; the slot still has to write the outcome back.
Return(s, result) ==
  slot' = [slot EXCEPT ![s] = [phase |-> "handled", job |-> @.job, result |-> result]]

\* The effect leaves the process: the n-th mail for j gets message id n.
Perform(j) == effects' = [effects EXCEPT ![j] = @ + 1]

\* Seeded faults of sendReceipt.
SendReceiptUnguarded(s, j) ==        \* no marker lookup
  /\ Perform(j)
  /\ Remember(j, effects[j] + 1)
  /\ Return(s, effects[j] + 1)
SendReceiptAgain(s, j) ==            \* a redelivery sends, keeping the old marker
  /\ Perform(j)
  /\ IF Marked(j) THEN UNCHANGED <<markers, evictions>> ELSE Remember(j, effects[j] + 1)
  /\ Return(s, effects[j] + 1)
SendReceiptTwice(s, j) ==            \* one delivery sends twice
  /\ effects' = [effects EXCEPT ![j] = @ + 2]
  /\ Remember(j, effects[j] + 2)
  /\ Return(s, effects[j] + 2)

\* sendReceipt(): the memoized result, or send and remember.
SendReceipt(s, j) ==
  \/ /\ Marked(j)
     /\ Return(s, MarkerOf(j).result)
     /\ UNCHANGED <<effects, markers, evictions>>
  \/ /\ ~ Marked(j)
     /\ Perform(j)
     /\ Remember(j, effects[j] + 1)
     /\ Return(s, effects[j] + 1)

\* sendWelcome(): no marker, every delivery sends.
SendWelcome(s, j) ==
  /\ Perform(j)
  /\ Return(s, effects[j] + 1)
  /\ UNCHANGED <<markers, evictions>>

\* handleUnknown(): the catch-all leaves an audit line and returns nothing.
HandleUnknown(s, j) ==
  /\ Perform(j)
  /\ Return(s, 0)
  /\ UNCHANGED <<markers, evictions>>

\* Dispatch by job name, the unnamed handler last.
Handle(s) ==
  /\ slot[s].phase = "fetched"
  /\ LET j == slot[s].job
     IN  \/ j \in Receipts /\ SendReceipt(s, j)
         \/ j \in Welcomes /\ SendWelcome(s, j)
         \/ j \in Others /\ HandleUnknown(s, j)
  /\ UNCHANGED <<redis, proc, restarts>>

-----------------------------------------------------------------------------
(* The queue, after the delivery *)

\* Seeded fault: Redis takes an outcome whoever writes it.
HoldsAnyway(s, j) == slot[s].job = j

Holds(s, j) == state[j] = "active" /\ lock[j] = s

\* Seeded faults: the outcome is written before the handler ran; a slot that
\* lost its lock is never freed.
FinishEarly(s) ==
  /\ slot[s].phase # "idle"
  /\ LET j == slot[s].job
     IN  IF Holds(s, j)
         THEN /\ state' = [state EXCEPT ![j] = "completed"]
              /\ lock' = [lock EXCEPT ![j] = NoLock]
              /\ returned' = [returned EXCEPT ![j] = slot[s].result]
         ELSE UNCHANGED <<state, lock, returned>>
  /\ slot' = [slot EXCEPT ![s] = Idle]
  /\ UNCHANGED <<stalls, proc, markers, history>>
FinishLeaksSlot(s) ==
  /\ slot[s].phase = "handled"
  /\ Holds(s, slot[s].job)
  /\ LET j == slot[s].job
     IN  /\ state' = [state EXCEPT ![j] = "completed"]
         /\ lock' = [lock EXCEPT ![j] = NoLock]
         /\ returned' = [returned EXCEPT ![j] = slot[s].result]
  /\ slot' = [slot EXCEPT ![s] = Idle]
  /\ UNCHANGED <<stalls, proc, markers, history>>

\* Write the outcome back.  Without the lock Redis refuses it and only the
\* slot is freed: the job belongs to a later delivery.
Finish(s) ==
  /\ slot[s].phase = "handled"
  /\ LET j == slot[s].job
     IN  \/ /\ Holds(s, j)
            /\ state' = [state EXCEPT ![j] = "completed"]
            /\ lock' = [lock EXCEPT ![j] = NoLock]
            /\ returned' = [returned EXCEPT ![j] = slot[s].result]
         \/ /\ ~ Holds(s, j)
            /\ UNCHANGED <<state, lock, returned>>
  /\ slot' = [slot EXCEPT ![s] = Idle]
  /\ UNCHANGED <<stalls, proc, markers, history>>

\* The lock of an active job runs out: its holder is gone, or is alive but
\* too busy to renew it.
HeldAlive(j) == \E s \in Slots : lock[j] = s /\ slot[s].job = j
ExpireLock(j) ==
  /\ state[j] = "active"
  /\ lock[j] # NoLock
  /\ lock' = [lock EXCEPT ![j] = NoLock]
  /\ UNCHANGED <<state, stalls, returned, proc, slot, markers, history>>
ExpireOrphanedLock(j) == ~ HeldAlive(j) /\ ExpireLock(j)
ExpireHeldLock(j)     == HeldAlive(j) /\ ExpireLock(j)

\* The worker's periodic check: an active job without a lock goes back to
\* wait, or fails once it stalled more often than allowed.
StalledCheck(j) ==
  /\ proc = "up"
  /\ state[j] = "active"
  /\ lock[j] = NoLock
  /\ stalls' = [stalls EXCEPT ![j] = @ + 1]
  /\ state' = [state EXCEPT ![j] =
                 IF stalls[j] + 1 > MaxStalledCount THEN "failed" ELSE "wait"]
  /\ UNCHANGED <<lock, returned, proc, slot, markers, history>>

-----------------------------------------------------------------------------
(* The process *)

\* SIGTERM: the worker stops fetching and waits for its slots.
Shutdown ==
  /\ proc = "up"
  /\ restarts < MaxRestarts
  /\ proc' = "draining"
  /\ UNCHANGED <<redis, slot, markers, history>>

\* Everything in memory goes with the process; Redis stays as it is.
Die ==
  /\ restarts < MaxRestarts
  /\ proc' = "down"
  /\ slot' = [s \in Slots |-> Idle]
  /\ markers' = <<>>
  /\ restarts' = restarts + 1
  /\ UNCHANGED <<redis, effects, evictions>>

\* The drain found every slot free, in time.
DrainedExit == proc = "draining" /\ (\A s \in Slots : slot[s] = Idle) /\ Die

\* A crash, or the force-close after the drain timeout.
Crash == proc # "down" /\ Die

Boot ==
  /\ proc = "down"
  /\ proc' = "up"
  /\ UNCHANGED <<redis, slot, markers, history>>

-----------------------------------------------------------------------------

Next ==
  \/ \E j \in Jobs : Enqueue(j)
  \/ \E s \in Slots, j \in Jobs : Fetch(s, j)
  \/ \E s \in Slots : Handle(s)
  \/ \E s \in Slots : Finish(s)
  \/ \E j \in Jobs : ExpireOrphanedLock(j)
  \/ \E j \in Jobs : ExpireHeldLock(j)
  \/ \E j \in Jobs : StalledCheck(j)
  \/ Shutdown
  \/ DrainedExit
  \/ Crash
  \/ Boot

\* The worker loop, its timers and the process supervisor keep going; nothing
\* obliges producers to enqueue, locks to expire under a live holder, or the
\* process to be stopped.
Fairness ==
  /\ \A j \in Jobs : WF_vars(\E s \in Slots : Fetch(s, j))
  /\ \A s \in Slots : WF_vars(Handle(s)) /\ WF_vars(Finish(s))
  /\ \A j \in Jobs : WF_vars(ExpireOrphanedLock(j)) /\ WF_vars(StalledCheck(j))
  /\ WF_vars(DrainedExit)
  /\ WF_vars(Boot)

Spec     == Init /\ [][Next]_vars
FairSpec == Spec /\ Fairness

-----------------------------------------------------------------------------
(* Properties *)

\* The idempotency the marker buys, exactly: beyond the first, every mail for
\* a receipt costs a process death (the map is in memory) or an eviction of
\* that receipt's marker (the map is bounded).  A lock lost by a live process,
\* overlapping deliveries and late write-backs cost none.
OneSendPerMarkerLife ==
  \A r \in Receipts : effects[r] <= 1 + restarts + evictions[r]

\* However often the process dies and whatever the handler is, a job has its
\* effect at most once per delivery, and the stall limit bounds deliveries.
\* For send-welcome, which has no marker, this is all there is.
OneEffectPerDelivery == \A j \in Jobs : effects[j] <= MaxStalledCount + 1

\* No receipt is reported delivered that was never sent: a completed job
\* returns the id of a mail that went out, also when a later delivery or a
\* memoized result completed it.
CompletedReceiptWasSent ==
  \A r \in Receipts : state[r] = "completed" => returned[r] \in 1 .. effects[r]

\* A redelivery that finds a marker returns the result of the latest send.
MarkersRecordLatestSend ==
  \A i \in DOMAIN markers : markers[i].result = effects[markers[i].job]

\* Whatever its slots, locks and markers do, the processor is a mailer that
\* repeats itself only when it has forgotten, by a process death or an eviction,
\* and whose report of a receipt is final.
Ledger == INSTANCE MailLedger WITH
  mailed    <- [r \in Receipts |-> effects[r]],
  forgotten <- [r \in Receipts |-> restarts + evictions[r]],
  reported  <- [r \in Receipts |-> returned[r]]
KeepsLedger == Ledger!Spec

\* Every enqueued mail job ends, completed or failed, through any bounded
\* number of crashes and lost locks.
EveryJobEnds ==
  \A j \in Jobs : state[j] # "none" ~> state[j] \in {"completed", "failed"}

=============================================================================
