---------------------------- MODULE Fulfillment ----------------------------
(***************************************************************************)
(* One fulfillment flow: the job tree built by FulfillmentService, the     *)
(* node processors that run it and write the FlowTrace, and the dashboard  *)
(* that polls the projected tree until it looks final (apps/api/src/flows, *)
(* apps/web/hooks/use-flows.ts).                                           *)
(*                                                                         *)
(* Flows share nothing but the trace and the worker slots, so one flow is  *)
(* modelled; a bulk launch creates several.  How a parent waits for its    *)
(* children, and what a child's failure does to it, is BullMQ and is       *)
(* modelled from how this code relies on it: a failed child with no flag   *)
(* keeps its parent waiting for ever, one with failParentOnFailure wakes   *)
(* the parent only to fail it, one with ignoreDependencyOnFailure counts   *)
(* as done.                                                                *)
(***************************************************************************)
EXTENDS Naturals, Sequences

CONSTANTS
  DefaultAttempts,   \* DEFAULT_JOB_ATTEMPTS, the module default
  TraceCapacity,     \* TRACE_CAPACITY; 0 leaves the trace out of an instance
  MaxStalledCount,   \* stalls a job survives before BullMQ fails it
  MaxCrashes,        \* bound on process deaths
  Watched            \* whether somebody opens the flow's page

ASSUME BoundsAssumption ==
  /\ DefaultAttempts \in Nat \ {0}
  /\ TraceCapacity \in Nat
  /\ MaxStalledCount \in Nat
  /\ MaxCrashes \in Nat
  /\ Watched \in BOOLEAN

Root  == "ship-order"
Nodes == {Root, "reserve-stock", "charge-payment", "render-invoice",
          "fetch-lines", "fetch-customer"}

\* Seeded fault: the data fetches hang off the root.
FlatChildren(n) == IF n = Root THEN Nodes \ {Root} ELSE {}

\* The tree of buildFulfillmentFlow().
Children(n) ==
  CASE n = Root             -> {"reserve-stock", "charge-payment", "render-invoice"}
    [] n = "render-invoice" -> {"fetch-lines", "fetch-customer"}
    [] OTHER                -> {}
ParentOf(n) == CHOOSE p \in Nodes : n \in Children(p)

Variants == {"default", "stuck", "failParent", "ignoreDependency"}

\* Seeded fault: failParent carries the other flag.
SwappedChildOpts(v) ==
  [attempts |-> IF v = "default" THEN DefaultAttempts ELSE 1,
   failParent |-> FALSE, ignore |-> v \in {"failParent", "ignoreDependency"}]

\* Seeded fault: a failing payment fails its parent unless it is optional.
EagerChildOpts(v) ==
  [attempts |-> IF v = "default" THEN DefaultAttempts ELSE 1,
   failParent |-> v # "ignoreDependency", ignore |-> v = "ignoreDependency"]

\* paymentChildOpts(): DEMO_FAILURE_ATTEMPTS is 1.
PaymentChildOpts(v) ==
  [attempts |-> IF v = "default" THEN DefaultAttempts ELSE 1,
   failParent |-> v = "failParent",
   ignore |-> v = "ignoreDependency"]

Terminal == {"completed", "failed"}
Statuses == Terminal \cup {"waiting-children", "waiting", "active", "delayed"}
NoPlan   == [variant |-> "none", declined |-> FALSE]
Plans    == [variant : Variants, declined : BOOLEAN]

VARIABLES
  \* the launch request: the variant, and whether the order id starts with fail-
  plan,
  \* Redis
  status,   \* job state of each node
  deps,     \* children a node still waits for
  doomed,   \* a child with failParentOnFailure failed: fail instead of running
  made,     \* attemptsMade
  stalls,   \* how often the job was found stalled
  \* the API process
  hand,     \* what the worker holding the node has done with it
  trace,    \* FlowTrace, oldest first
  crashes,  \* process deaths so far (history)
  \* the tree request in flight and the page that polls it
  view,     \* statuses projected so far
  page      \* "off", "reading" or "final" (polling stopped)

redis == <<plan, status, deps, doomed, made, stalls>>
web   == <<view, page>>
vars  == <<redis, hand, trace, crashes, web>>

\* Seeded fault: the payment's options are given to every node.
SharedOpts(n) == PaymentChildOpts(plan.variant)

Opts(n) == IF n = "charge-payment"
           THEN PaymentChildOpts(plan.variant)
           ELSE [attempts |-> DefaultAttempts, failParent |-> FALSE, ignore |-> FALSE]

TypeOK ==
  /\ plan \in Plans \cup {NoPlan}
  /\ status \in [Nodes -> Statuses \cup {"none"}]
  /\ deps \in [Nodes -> SUBSET Nodes]
  /\ doomed \in [Nodes -> BOOLEAN]
  /\ made \in [Nodes -> 0 .. DefaultAttempts]
  /\ stalls \in [Nodes -> 0 .. MaxStalledCount + 1]
  /\ hand \in [Nodes -> {"none", "fetched", "ok", "error"}]
  /\ trace \in Seq(Nodes)
  /\ Len(trace) <= TraceCapacity
  /\ crashes \in 0 .. MaxCrashes
  /\ view \in [Nodes -> Statuses \cup {"unread"}]
  /\ page \in {"off", "reading", "final"}

Unread == [n \in Nodes |-> "unread"]

Init ==
  /\ plan = NoPlan
  /\ status = [n \in Nodes |-> "none"]
  /\ deps = [n \in Nodes |-> {}]
  /\ doomed = [n \in Nodes |-> FALSE]
  /\ made = [n \in Nodes |-> 0]
  /\ stalls = [n \in Nodes |-> 0]
  /\ hand = [n \in Nodes |-> "none"]
  /\ trace = <<>>
  /\ crashes = 0
  /\ view = Unread
  /\ page = "off"

-----------------------------------------------------------------------------
(* Launch *)

\* run(): the whole tree is added in one step, its leaves ready to run.
Added ==
  /\ status' = [n \in Nodes |->
                  IF Children(n) = {} THEN "waiting" ELSE "waiting-children"]
  /\ deps' = [n \in Nodes |-> Children(n)]

\* The endpoints; each flow of a bulk is such a tree.
Launch(p) ==
  /\ plan = NoPlan
  /\ plan' = p
  /\ Added
  /\ UNCHANGED <<doomed, made, stalls, hand, trace, crashes, web>>

\* The form, whose variant and order id are free.
LaunchFlow == \E p \in Plans : Launch(p)

\* The bulk button: the orders are numbered under the form's order id, so the
\* variant and the prefix are the form's; the first flow is the one followed.
LaunchBulk == \E p \in Plans : Launch(p)

-----------------------------------------------------------------------------
(* The node processors *)

Fetch(n) ==
  /\ status[n] = "waiting"
  /\ status' = [status EXCEPT ![n] = "active"]
  /\ hand' = [hand EXCEPT ![n] = "fetched"]
  /\ UNCHANGED <<plan, deps, doomed, made, stalls, trace, crashes, web>>

\* FlowTrace.record(): the oldest entry goes once the buffer is full.
Record(n) ==
  LET grown == Append(trace, n)
  IN  trace' = IF Len(grown) > TraceCapacity THEN Tail(grown) ELSE grown

Returns(n) == Record(n) /\ hand' = [hand EXCEPT ![n] = "ok"]

\* The handlers record their node and return ...
Fulfill(n)   == n \in {Root, "render-invoice"} /\ Returns(n)
Reserve(n)   == n = "reserve-stock" /\ Returns(n)
FetchData(n) == n \in {"fetch-lines", "fetch-customer"} /\ Returns(n)

\* ... but charge() throws after it, for a declined order.
Charge(n) ==
  /\ n = "charge-payment"
  /\ Record(n)
  /\ hand' = [hand EXCEPT ![n] = IF plan.declined THEN "error" ELSE "ok"]

Run(n) ==
  /\ hand[n] = "fetched" /\ ~ doomed[n]
  /\ Fulfill(n) \/ Reserve(n) \/ Charge(n) \/ FetchData(n)
  /\ UNCHANGED <<redis, crashes, web>>

\* A doomed parent is failed by its worker without reaching the handler.
Refuse(n) ==
  /\ hand[n] = "fetched"
  /\ doomed[n]
  /\ hand' = [hand EXCEPT ![n] = "error"]
  /\ UNCHANGED <<redis, trace, crashes, web>>

-----------------------------------------------------------------------------
(* The queue: outcomes, and what they do to the parent *)

\* n ends as `final`; the same atomic step updates its parent.
Settle(n, final) ==
  IF n = Root
  THEN /\ status' = [status EXCEPT ![n] = final]
       /\ UNCHANGED <<deps, doomed>>
  ELSE LET p       == ParentOf(n)
           release == final = "completed" \/ Opts(n).ignore
           doom    == final = "failed" /\ Opts(n).failParent
           left    == IF release THEN deps[p] \ {n} ELSE deps[p]
           wake    == status[p] = "waiting-children" /\ (left = {} \/ doom)
       IN  /\ deps' = [deps EXCEPT ![p] = left]
           /\ doomed' = [doomed EXCEPT ![p] = @ \/ doom]
           /\ status' = [status EXCEPT ![n] = final,
                                       ![p] = IF wake THEN "waiting" ELSE @]

Complete(n) ==
  /\ hand[n] = "ok"
  /\ Settle(n, "completed")
  /\ hand' = [hand EXCEPT ![n] = "none"]
  /\ UNCHANGED <<plan, made, stalls, trace, crashes, web>>

\* A failed attempt is delayed for its backoff, or was the last one.
FailAttempt(n) ==
  /\ hand[n] = "error"
  /\ made' = [made EXCEPT ![n] = @ + 1]
  /\ \/ /\ made[n] + 1 < Opts(n).attempts
        /\ ~ doomed[n]
        /\ status' = [status EXCEPT ![n] = "delayed"]
        /\ UNCHANGED <<deps, doomed>>
     \/ /\ made[n] + 1 >= Opts(n).attempts \/ doomed[n]
        /\ Settle(n, "failed")
  /\ hand' = [hand EXCEPT ![n] = "none"]
  /\ UNCHANGED <<plan, stalls, trace, crashes, web>>

Promote(n) ==
  /\ status[n] = "delayed"
  /\ status' = [status EXCEPT ![n] = "waiting"]
  /\ UNCHANGED <<plan, deps, doomed, made, stalls, hand, trace, crashes, web>>

\* The process dies and is restarted: the trace and every delivery are lost.
Crash ==
  /\ crashes < MaxCrashes
  /\ crashes' = crashes + 1
  /\ hand' = [n \in Nodes |-> "none"]
  /\ trace' = <<>>
  /\ UNCHANGED <<redis, web>>

\* An active node nobody holds is delivered again, or fails for good.
Stalled(n) ==
  /\ status[n] = "active"
  /\ hand[n] = "none"
  /\ stalls' = [stalls EXCEPT ![n] = @ + 1]
  /\ \/ /\ stalls[n] < MaxStalledCount
        /\ status' = [status EXCEPT ![n] = "waiting"]
        /\ UNCHANGED <<deps, doomed>>
     \/ /\ stalls[n] >= MaxStalledCount
        /\ Settle(n, "failed")
  /\ UNCHANGED <<plan, made, hand, trace, crashes, web>>

-----------------------------------------------------------------------------
(* The live tree *)

\* Seeded fault: children are resolved before their parent.
ReadLeavesFirst(n) ==
  /\ page = "reading"
  /\ view[n] = "unread"
  /\ \A c \in Children(n) : view[c] # "unread"
  /\ view' = [view EXCEPT ![n] = status[n]]
  /\ UNCHANGED <<redis, hand, trace, crashes, page>>

\* projectNode(): a node's state is awaited, then its children in parallel.
ReadNode(n) ==
  /\ page = "reading"
  /\ view[n] = "unread"
  /\ n # Root => view[ParentOf(n)] # "unread"
  /\ view' = [view EXCEPT ![n] = status[n]]
  /\ UNCHANGED <<redis, hand, trace, crashes, page>>

\* Seeded faults: only the root is looked at; a failed node is not final.
RootFinal         == view[Root] \in Terminal
AllNodesCompleted == \A n \in Nodes : view[n] = "completed"

\* isTreeFinal() on the answer.
TreeFinal == \A n \in Nodes : view[n] \in Terminal

\* GET /flows/trace, as the execution trace card shows it on demand.
ExecutionTrace == trace

\* The dashboard selects the launched flow.
OpenPage ==
  /\ Watched
  /\ plan # NoPlan
  /\ page = "off"
  /\ page' = "reading"
  /\ UNCHANGED <<redis, hand, trace, crashes, view>>

\* The tree arrives: polling stops if it is final, else it is read again.
Answer ==
  /\ page = "reading"
  /\ \A n \in Nodes : view[n] # "unread"
  /\ \/ TreeFinal /\ page' = "final" /\ UNCHANGED view
     \/ ~ TreeFinal /\ view' = Unread /\ UNCHANGED page
  /\ UNCHANGED <<redis, hand, trace, crashes>>

-----------------------------------------------------------------------------

Next ==
  \/ LaunchFlow \/ LaunchBulk
  \/ \E n \in Nodes : Fetch(n)
  \/ \E n \in Nodes : Run(n)
  \/ \E n \in Nodes : Refuse(n)
  \/ \E n \in Nodes : Complete(n)
  \/ \E n \in Nodes : FailAttempt(n)
  \/ \E n \in Nodes : Promote(n)
  \/ \E n \in Nodes : Stalled(n)
  \/ Crash
  \/ \E n \in Nodes : ReadNode(n)
  \/ OpenPage
  \/ Answer

\* What goes on by itself while a job is not ended.
Work ==
  \E n \in Nodes : \/ Fetch(n) \/ Run(n) \/ Refuse(n) \/ Complete(n)
                  \/ FailAttempt(n) \/ Promote(n) \/ Stalled(n)

\* Workers, delayed-job timers and the stalled check keep going while there is
\* anything to do, and so does an open page's polling; nobody is obliged to
\* launch, to open the page or to crash.
Fairness ==
  /\ WF_vars(Work)
  /\ WF_vars(Answer \/ \E n \in Nodes : ReadNode(n))

Spec     == Init /\ [][Next]_vars
FairSpec == Spec /\ Fairness

-----------------------------------------------------------------------------
(* Properties *)

\* Whatever crashes, retries and redeliveries happen, an order is shipped
\* unpaid only where the launch asked for the payment to be optional.
ShipsOnlyWhenPaid ==
  "ship-order" \in {trace[i] : i \in DOMAIN trace} =>
    status["charge-payment"] = "completed" \/ plan.variant = "ignoreDependency"

\* What reading the trace back shows: within one process life no node is
\* recorded after the nodes it was to precede -- nothing but a redelivery of
\* the root after the root, no data fetch after the invoice.
TraceOrdersNodes ==
  \A i, k \in DOMAIN ExecutionTrace : i < k =>
    /\ ExecutionTrace[i] = "ship-order" => ExecutionTrace[k] = "ship-order"
    /\ ExecutionTrace[i] = "render-invoice" =>
         ExecutionTrace[k] \notin {"fetch-lines", "fetch-customer"}

\* The projected tree is read node by node while the flow runs, yet it never
\* shows a parent done or running over a child that is not: a parent is read
\* before its children, and an ended child stays ended.  (A root that is woken
\* to be failed runs over unfinished children.)
TreeIsCausal ==
  \A p \in Nodes : \A c \in Children(p) :
    /\ view[p] = "completed" \/ (view[p] = "active" /\ plan.variant # "failParent")
    => view[c] \in Terminal \cup {"unread"}

\* The page stops polling on a tree assembled from reads at different times;
\* it is still the flow's true and last state.
FinalTreeIsTheTruth == page = "final" => view = status

\* The flow is a tree of dependent jobs in which only the payment may be
\* optional or fatal, as the variant says.
Phase(n) ==
  CASE status[n] = "none"             -> "absent"
    [] status[n] = "waiting-children" -> "waits"
    [] status[n] \in Terminal         -> status[n]
    [] OTHER                          -> "ready"

Payment(v) == IF plan.variant = v THEN {"charge-payment"} ELSE {}

Dependencies == INSTANCE DependencyTree WITH
  Jobs     <- Nodes,
  Kids     <- [n \in Nodes |-> Children(n)],
  phase    <- [n \in Nodes |-> Phase(n)],
  optional <- Payment("ignoreDependency"),
  fatal    <- Payment("failParent")

\* Through any retries, stalls and crashes a node ends once, is woken by its
\* children at the step that settles the last of them or fails a fatal one,
\* never earlier and never later, and completes only over settled children.
KeepsDependencies == Dependencies!Spec

\* How the root of a launch must end if no node stalls once too often.
Outcome(p) ==
  CASE ~ p.declined \/ p.variant = "ignoreDependency" -> "completed"
    [] p.declined /\ p.variant = "failParent"         -> "failed"
    [] OTHER                                          -> "waiting-children"

\* Whatever retries, stalls and crashes come before, a node fails only with its
\* payment declined and every attempt of the variant spent, or by the flag of
\* such a payment, or by one stall too many; and a root that has ended has done
\* so as the launch asked -- in particular a declined order that is neither
\* optional nor to be failed never ends -- unless a stall decided.
EndsAsLaunched ==
  /\ \A n \in Nodes : status[n] = "failed" =>
       \/ stalls[n] > MaxStalledCount
       \/ n = "charge-payment" /\ plan.declined /\ made[n] = Opts(n).attempts
       \/ n = Root /\ plan.variant = "failParent" /\ status["charge-payment"] = "failed"
  /\ status[Root] \in Terminal =>
       \/ status[Root] = Outcome(plan)
       \/ \E n \in Nodes : stalls[n] > MaxStalledCount

\* Each variant's posture is what happens in the end unless a job stalls more
\* often than it survives: the root ships, is failed, or is left waiting for
\* ever.
VariantDecidesOutcome ==
  <>[](\/ plan = NoPlan
       \/ status[Root] = Outcome(plan)
       \/ \E n \in Nodes : stalls[n] > MaxStalledCount)

\* An open page stops polling for every flow whose root ends -- also for a
\* failed one, whose other branches are still running when the root fails --
\* unless a node was lost to one stall too many, which can leave others waiting.
PollingStops ==
  page = "reading" /\ Outcome(plan) \in Terminal
    ~> page = "final" \/ \E n \in Nodes : stalls[n] > MaxStalledCount

=============================================================================
