--------------------------- MODULE FulfillmentProofs ---------------------------
(***************************************************************************)
(* The fulfillment flow for any retry budget, stall limit, trace capacity  *)
(* and number of crashes: the types, when an order ships, the order of the *)
(* trace, what the page assembles from reads of a running tree, why a node *)
(* fails, and the tree of dependent jobs that the flow implements.         *)
(*                                                                         *)
(* One fact carries all of them (Ran): a node that has left its children   *)
(* behind, and was not woken to be failed, has no child that can still     *)
(* change -- and a job that has ended never changes again (Stable).        *)
(***************************************************************************)
EXTENDS Fulfillment, SequenceTheorems, TLAPS

USE BoundsAssumption

-----------------------------------------------------------------------------
(* The tree and its options *)

\* Each node but the root has one parent.
LEMMA Tree ==
  /\ \A p \in Nodes : \A n \in Children(p) : n \in Nodes /\ n # Root /\ n # p
  /\ \A p, q \in Nodes, n \in Nodes : n \in Children(p) /\ n \in Children(q) => p = q
  /\ \A n \in Nodes \ {Root} : \E p \in Nodes : n \in Children(p)
  /\ Root \in Nodes /\ "charge-payment" \in Children(Root)
  /\ \A n \in Nodes \ {Root} : n \in Children(Root) \/ n \in Children("render-invoice")
  /\ "render-invoice" \in Children(Root) /\ "render-invoice" \in Nodes
  /\ Children("render-invoice") = {"fetch-lines", "fetch-customer"}
BY DEF Nodes, Root, Children

LEMMA Parent ==
  ASSUME NEW n \in Nodes, n # Root
  PROVE  ParentOf(n) \in Nodes /\ n \in Children(ParentOf(n)) /\ ParentOf(n) # n
<1>1. \E p \in Nodes : n \in Children(p)
  BY Tree
<1>2. ParentOf(n) \in Nodes /\ n \in Children(ParentOf(n))
  BY <1>1 DEF ParentOf
<1> QED
  BY <1>2, Tree

LEMMA PaymentFlags ==
  ASSUME NEW v
  PROVE  /\ PaymentChildOpts(v).attempts \in 1 .. DefaultAttempts
         /\ PaymentChildOpts(v).ignore => v = "ignoreDependency"
         /\ PaymentChildOpts(v).failParent => v = "failParent"
<1>1. PaymentChildOpts(v).attempts = IF v = "default" THEN DefaultAttempts ELSE 1
  BY DEF PaymentChildOpts
<1>2. PaymentChildOpts(v).ignore => v = "ignoreDependency"
  BY Zenon DEF PaymentChildOpts
<1>3. PaymentChildOpts(v).failParent => v = "failParent"
  BY Zenon DEF PaymentChildOpts
<1> QED
  BY <1>1, <1>2, <1>3

\* Only the payment carries a flag, the one of its variant.
LEMMA Options ==
  ASSUME NEW n \in Nodes
  PROVE  /\ Opts(n).attempts \in 1 .. DefaultAttempts
         /\ Opts(n).ignore => n = "charge-payment" /\ plan.variant = "ignoreDependency"
         /\ Opts(n).failParent => n = "charge-payment" /\ plan.variant = "failParent"
<1>1. CASE n = "charge-payment"
  <2>1. Opts(n) = PaymentChildOpts(plan.variant)
    BY <1>1 DEF Opts
  <2> QED
    BY <1>1, <2>1, PaymentFlags
<1>2. CASE n # "charge-payment"
  BY <1>2 DEF Opts
<1> QED
  BY <1>1, <1>2

-----------------------------------------------------------------------------
(* The invariant *)

Ended(n)   == status[n] \in Terminal
Launched   == plan # NoPlan
Optional   == plan.variant = "ignoreDependency"
Waits(n)   == status[n] \in {"none", "waiting-children"}

\* A slot holds active nodes only; attempts and stalls stay within bounds.
Held(n) ==
  /\ hand[n] # "none" => status[n] = "active"
  /\ ~ Ended(n) => made[n] < Opts(n).attempts
  /\ status[n] # "failed" => stalls[n] <= MaxStalledCount
  /\ IF Launched THEN status[n] # "none" ELSE status[n] = "none"

\* A node that runs waits for nobody, unless it was woken to be failed.
Woken(n) ==
  /\ Waits(n) \/ doomed[n] \/ deps[n] = {}
  /\ doomed[n] => /\ n = Root /\ plan.variant = "failParent"
                  /\ status["charge-payment"] = "failed"
  /\ doomed[n] => hand[n] # "ok" /\ status[n] # "completed"

\* A child is waited for no more once it completed, or ended as an optional
\* payment.
Released(n) ==
  Launched => \A c \in Children(n) \ deps[n] :
    \/ status[c] = "completed"
    \/ c = "charge-payment" /\ Optional /\ Ended(c)

NodeInv(n) == Held(n) /\ Woken(n) /\ Released(n)

\* A view of an ended node is its last state, and a parent is read first.
ViewInv ==
  /\ page = "off" => \A n \in Nodes : view[n] = "unread"
  /\ page # "off" => Launched
  /\ page = "final" => \A n \in Nodes : view[n] \in Terminal
  /\ \A n \in Nodes : view[n] \in Terminal => status[n] = view[n]
  /\ \A p \in Nodes : \A c \in Children(p) :
       /\ view[p] = "unread" => view[c] = "unread"
       /\ view[p] = "completed" \/ (view[p] = "active" /\ plan.variant # "failParent")
          => Ended(c) /\ view[c] \in Terminal \cup {"unread"}

\* What the trace shows has run, and so has all it waited for.
InTrace(n) == \E i \in DOMAIN trace : trace[i] = n

TraceInv ==
  /\ InTrace(Root) =>
       /\ status["charge-payment"] = "completed" \/ Optional
       /\ \A n \in Nodes \ {Root} : Ended(n)
  /\ InTrace("render-invoice") => Ended("fetch-lines") /\ Ended("fetch-customer")
  /\ TraceOrdersNodes

Inv == TypeOK /\ (\A n \in Nodes : NodeInv(n)) /\ ViewInv /\ TraceInv

\* A node that runs without being doomed has only ended children.
LEMMA Ran ==
  ASSUME Inv, Launched, NEW n \in Nodes, ~ Waits(n), ~ doomed[n]
  PROVE  \A c \in Children(n) :
           /\ Ended(c)
           /\ status[c] = "completed" \/ (c = "charge-payment" /\ Optional)
<1>1. deps[n] = {} /\ Released(n)
  BY DEF Inv, NodeInv, Woken
<1> QED
  BY <1>1 DEF Released, Ended, Terminal

\* With the root, everything has ended.
LEMMA RootRan ==
  ASSUME Inv, Launched, ~ Waits(Root), ~ doomed[Root]
  PROVE  /\ \A n \in Nodes \ {Root} : Ended(n)
         /\ status["charge-payment"] = "completed" \/ Optional
<1>1. \A c \in Children(Root) : Ended(c) /\ (status[c] = "completed" \/ (c = "charge-payment" /\ Optional))
  BY Ran, Tree
<1>2. status["render-invoice"] = "completed"
  BY <1>1, Tree
<1>3. ~ Waits("render-invoice") /\ ~ doomed["render-invoice"]
  <2>1. Woken("render-invoice")
    BY Tree DEF Inv, NodeInv
  <2> QED
    BY <1>2, <2>1 DEF Waits, Woken, Root
<1>4. \A c \in Children("render-invoice") : Ended(c)
  BY <1>3, Ran, Tree
<1> QED
  BY <1>1, <1>4, Tree

-----------------------------------------------------------------------------
(* What a step leaves alone *)

\* No job that has ended changes.
Stable == \A n \in Nodes : Ended(n) => status'[n] = status[n]

LEMMA KeepsView ==
  ASSUME Inv, Stable, UNCHANGED <<plan, view, page>>
  PROVE  ViewInv'
<1>1. \A n \in Nodes : view'[n] = view[n]
  OBVIOUS
<1>2. \A n \in Nodes : view[n] \in Terminal => status'[n] = view[n]
  BY DEF Inv, ViewInv, Stable, Ended
<1>3. \A n \in Nodes : Ended(n) => Ended(n)'
  BY DEF Stable, Ended
<1>4. Launched => Launched'
  BY DEF Launched
<1>5. /\ page = "off" => \A n \in Nodes : view[n] = "unread"
      /\ page # "off" => Launched
      /\ page = "final" => \A n \in Nodes : view[n] \in Terminal
  BY DEF Inv, ViewInv
<1>6. ASSUME NEW p \in Nodes, NEW c \in Children(p)
      PROVE  /\ view[p] = "unread" => view[c] = "unread"
             /\ view[p] = "completed" \/ (view[p] = "active" /\ plan.variant # "failParent")
                => Ended(c)' /\ view[c] \in Terminal \cup {"unread"}
  BY <1>3, Tree DEF Inv, ViewInv
<1>7. \A p \in Nodes : \A c \in Children(p) :
        /\ view'[p] = "unread" => view'[c] = "unread"
        /\ view'[p] = "completed" \/ (view'[p] = "active" /\ plan'.variant # "failParent")
           => Ended(c)' /\ view'[c] \in Terminal \cup {"unread"}
  BY <1>6
<1>8. \A p : Children(p)' = Children(p)
  BY DEF Children
<1> QED
  BY <1>1, <1>2, <1>4, <1>5, <1>7, <1>8 DEF ViewInv

LEMMA KeepsTrace ==
  ASSUME Inv, Stable, UNCHANGED <<plan, trace>>
  PROVE  TraceInv'
<1>1. \A n \in Nodes : Ended(n) => Ended(n)'
  BY DEF Stable, Ended
<1>2. status["charge-payment"] = "completed" => status'["charge-payment"] = "completed"
  BY Tree DEF Stable, Ended, Terminal, Nodes
<1>3. \A n \in Nodes : InTrace(n)' => InTrace(n)
  BY DEF InTrace
<1>4. TraceOrdersNodes'
  BY DEF Inv, TraceInv, TraceOrdersNodes, ExecutionTrace
<1>5. Optional => Optional'
  BY DEF Optional
<1>6. InTrace(Root)' =>
        /\ status'["charge-payment"] = "completed" \/ Optional'
        /\ \A n \in Nodes \ {Root} : Ended(n)'
  BY <1>1, <1>2, <1>3, <1>5, Tree DEF Inv, TraceInv
<1>7. InTrace("render-invoice")' => Ended("fetch-lines")' /\ Ended("fetch-customer")'
  BY <1>1, <1>3 DEF Inv, TraceInv, Nodes
<1> QED
  BY <1>4, <1>6, <1>7 DEF TraceInv

\* The rest of a node's state, for every node but n.
Others(n) ==
  /\ plan' = plan
  /\ \A m \in Nodes \ {n} :
       hand'[m] = hand[m] /\ made'[m] = made[m] /\ stalls'[m] = stalls[m]

LEMMA IsLaunched ==
  ASSUME Inv, NEW n \in Nodes, status[n] # "none"
  PROVE  Launched
BY DEF Inv, NodeInv, Held

LEMMA SameOptions ==
  ASSUME plan' = plan
  PROVE  \A n : Opts(n)' = Opts(n)
BY DEF Opts

\* A node goes on without ending.
Goes(n) ==
  /\ ~ Waits(n) /\ ~ Ended(n)
  /\ UNCHANGED <<deps, doomed>>
  /\ \A m \in Nodes \ {n} : status'[m] = status[m]
  /\ status'[n] \in {"waiting", "active", "delayed"}
  /\ hand'[n] # "none" => status'[n] = "active"
  /\ hand'[n] = "ok" => ~ doomed[n]
  /\ made'[n] < Opts(n).attempts
  /\ stalls'[n] <= MaxStalledCount

LEMMA GoesStable ==
  ASSUME NEW n \in Nodes, Goes(n)
  PROVE  Stable
BY DEF Stable, Goes

LEMMA GoesKeeps ==
  ASSUME Inv, NEW n \in Nodes, Others(n), Goes(n)
  PROVE  \A m \in Nodes : NodeInv(m)'
<1>1. Launched /\ Launched'
  <2>1. status[n] # "none"
    BY DEF Goes, Waits
  <2>2. Launched
    BY <2>1, IsLaunched
  <2> QED
    BY <2>2 DEF Launched, Others
<1>2. \A m \in Nodes : Ended(m) => Ended(m)' /\ status'[m] = status[m]
  BY GoesStable DEF Stable, Ended
<1>3. \A m : Children(m)' = Children(m)
  BY DEF Children
<1>4. ASSUME NEW m \in Nodes
      PROVE  Held(m)'
  <2>1. Held(m)
    BY DEF Inv, NodeInv
  <2>2. Opts(m)' = Opts(m)
    BY SameOptions DEF Others
  <2>3. CASE m = n
    <3>1. /\ hand'[n] # "none" => status'[n] = "active"
          /\ made'[n] < Opts(n)'.attempts
          /\ stalls'[n] <= MaxStalledCount
          /\ status'[n] # "none"
      BY <2>2, <2>3 DEF Goes
    <3> QED
      BY <1>1, <2>3, <3>1 DEF Held
  <2>4. CASE m # n
    <3>1. status'[m] = status[m] /\ hand'[m] = hand[m] /\ made'[m] = made[m] /\ stalls'[m] = stalls[m]
      BY <2>4 DEF Goes, Others
    <3> QED
      BY <1>1, <2>1, <2>2, <3>1 DEF Held, Ended
  <2> QED
    BY <2>3, <2>4
<1>5. ASSUME NEW m \in Nodes
      PROVE  Woken(m)'
  <2>1. Woken(m) /\ Woken(n)
    BY DEF Inv, NodeInv
  <2>2. deps'[m] = deps[m] /\ doomed'[m] = doomed[m] /\ plan' = plan
    BY DEF Goes, Others
  <2>3. doomed[m] => status'["charge-payment"] = "failed"
    BY <1>2, <2>1 DEF Woken, Ended, Terminal, Nodes
  <2>4. CASE m = n
    BY <2>1, <2>2, <2>3, <2>4 DEF Goes, Woken
  <2>5. CASE m # n
    <3>1. status'[m] = status[m] /\ hand'[m] = hand[m]
      BY <2>5 DEF Goes, Others
    <3> QED
      BY <2>1, <2>2, <2>3, <3>1 DEF Woken, Waits
  <2> QED
    BY <2>4, <2>5
<1>6. ASSUME NEW m \in Nodes
      PROVE  Released(m)'
  <2>1. \A c \in Children(m) \ deps[m] : status[c] = "completed" \/ (c = "charge-payment" /\ Optional /\ Ended(c))
    BY <1>1 DEF Inv, NodeInv, Released
  <2>2. \A c \in Children(m) \ deps[m] : status'[c] = "completed" \/ (c = "charge-payment" /\ Optional /\ Ended(c)')
    BY <1>2, <2>1, Tree DEF Ended, Terminal
  <2>3. deps' = deps /\ plan' = plan
    BY DEF Goes, Others
  <2> QED
    BY <1>3, <2>2, <2>3 DEF Released, Optional
<1> QED
  BY <1>4, <1>5, <1>6 DEF NodeInv

-----------------------------------------------------------------------------
(* A job ends *)

\* What ending n does to the tree: only the parent can be woken, released or
\* doomed by it.
Ends(n, final) ==
  /\ status'[n] = final
  /\ \A m \in Nodes \ {n} :
       \/ status'[m] = status[m]
       \/ /\ status[m] = "waiting-children" /\ status'[m] = "waiting"
          /\ deps'[m] = {} \/ doomed'[m]
  /\ \A m \in Nodes :
       \/ deps'[m] = deps[m]
       \/ deps'[m] = deps[m] \ {n} /\ (final = "completed" \/ Opts(n).ignore)
  /\ \A m \in Nodes :
       \/ doomed'[m] = doomed[m]
       \/ /\ doomed'[m] = TRUE
          /\ n \in Children(m) /\ final = "failed" /\ Opts(n).failParent

Typed ==
  /\ status' \in [Nodes -> Statuses \cup {"none"}]
  /\ deps' \in [Nodes -> SUBSET Nodes]
  /\ doomed' \in [Nodes -> BOOLEAN]

LEMMA SettleEnds ==
  ASSUME TypeOK, NEW n \in Nodes, NEW final \in Terminal, Settle(n, final)
  PROVE  Ends(n, final) /\ Typed
<1>1. /\ status \in [Nodes -> Statuses \cup {"none"}]
      /\ deps \in [Nodes -> SUBSET Nodes]
      /\ doomed \in [Nodes -> BOOLEAN]
      /\ final \in Statuses
  BY DEF TypeOK, Statuses
<1>2. CASE n = Root
  <2>1. status' = [status EXCEPT ![n] = final] /\ deps' = deps /\ doomed' = doomed
    BY <1>2 DEF Settle
  <2>2. status'[n] = final /\ \A m \in Nodes \ {n} : status'[m] = status[m]
    BY <1>1, <2>1
  <2>3. Ends(n, final)
    BY <2>1, <2>2 DEF Ends
  <2>4. status' \in [Nodes -> Statuses \cup {"none"}]
    BY <1>1, <2>1
  <2> QED
    BY <1>1, <2>1, <2>3, <2>4 DEF Typed
<1>3. CASE n # Root
  <2> DEFINE p       == ParentOf(n)
             release == final = "completed" \/ Opts(n).ignore
             doom    == final = "failed" /\ Opts(n).failParent
             left    == IF release THEN deps[p] \ {n} ELSE deps[p]
             wake    == status[p] = "waiting-children" /\ (left = {} \/ doom)
  <2>1. /\ deps' = [deps EXCEPT ![p] = left]
        /\ doomed' = [doomed EXCEPT ![p] = @ \/ doom]
        /\ status' = [status EXCEPT ![n] = final, ![p] = IF wake THEN "waiting" ELSE @]
    BY <1>3 DEF Settle
  <2>2. p \in Nodes /\ n \in Children(p) /\ p # n
    BY <1>3, Parent
  <2>3. /\ status'[n] = final
        /\ status'[p] = IF wake THEN "waiting" ELSE status[p]
        /\ \A m \in Nodes \ {n, p} : status'[m] = status[m]
        /\ status' \in [Nodes -> Statuses \cup {"none"}]
    <3> HIDE DEF p, wake
    <3> QED
      BY <1>1, <2>1, <2>2 DEF Statuses
  <2>4. /\ deps'[p] = left
        /\ \A m \in Nodes \ {p} : deps'[m] = deps[m]
        /\ deps' \in [Nodes -> SUBSET Nodes]
    <3>1. left \in SUBSET Nodes
      BY <1>1, <2>2
    <3> HIDE DEF p, left
    <3> QED
      BY <1>1, <2>1, <2>2, <3>1
  <2>5. /\ doomed'[p] = (doomed[p] \/ doom)
        /\ \A m \in Nodes \ {p} : doomed'[m] = doomed[m]
        /\ doomed' \in [Nodes -> BOOLEAN]
    <3>1. doomed[p] \in BOOLEAN /\ (doomed[p] \/ doom) \in BOOLEAN
      BY <1>1, <2>2
    <3> HIDE DEF p, doom
    <3>2. doomed' = [doomed EXCEPT ![p] = doomed[p] \/ doom]
      BY <2>1
    <3> DEFINE b == doomed[p] \/ doom
    <3>3. doomed' = [doomed EXCEPT ![p] = b] /\ b \in BOOLEAN
      BY <3>1, <3>2
    <3> HIDE DEF b
    <3>4. doomed'[p] = b /\ (\A m \in Nodes \ {p} : doomed'[m] = doomed[m]) /\ doomed' \in [Nodes -> BOOLEAN]
      BY <1>1, <2>2, <3>3
    <3> QED
      BY <3>4 DEF b
  <2>6. \A m \in Nodes \ {n} :
          \/ status'[m] = status[m]
          \/ /\ status[m] = "waiting-children" /\ status'[m] = "waiting"
             /\ deps'[m] = {} \/ doomed'[m]
    <3>1. wake => status[p] = "waiting-children" /\ (deps'[p] = {} \/ doomed'[p])
      BY <2>4, <2>5
    <3> HIDE DEF p, wake
    <3> QED
      BY <2>3, <3>1
  <2>7. \A m \in Nodes :
          \/ deps'[m] = deps[m]
          \/ deps'[m] = deps[m] \ {n} /\ (final = "completed" \/ Opts(n).ignore)
    BY <2>4
  <2>8. \A m \in Nodes :
          \/ doomed'[m] = doomed[m]
          \/ /\ doomed'[m] = TRUE
             /\ n \in Children(m) /\ final = "failed" /\ Opts(n).failParent
    <3>1. CASE doom
      <4>1. doomed'[p] = TRUE
        BY <2>5, <3>1
      <4> QED
        BY <2>2, <2>5, <3>1, <4>1
    <3>2. CASE ~ doom
      <4>1. doomed[p] \in BOOLEAN
        BY <1>1, <2>2
      <4>2. doomed'[p] = doomed[p]
        BY <2>5, <3>2, <4>1
      <4> QED
        BY <2>5, <4>2
    <3> QED
      BY <3>1, <3>2
  <2> QED
    BY <2>3, <2>4, <2>5, <2>6, <2>7, <2>8 DEF Ends, Typed
<1> QED
  BY <1>2, <1>3

LEMMA EndsStable ==
  ASSUME NEW n \in Nodes, NEW final \in Terminal, status[n] = "active", Ends(n, final)
  PROVE  Stable
BY DEF Stable, Ends, Ended, Terminal

\* The worker that ends a job holds it, or nobody does.
Leaves(n, final) ==
  /\ status[n] = "active"
  /\ hand'[n] = "none"
  /\ final = "completed" => ~ doomed[n] /\ stalls'[n] <= MaxStalledCount

LEMMA EndsKeeps ==
  ASSUME Inv, NEW n \in Nodes, NEW final \in Terminal,
         Ends(n, final), Others(n), Leaves(n, final)
  PROVE  \A m \in Nodes : NodeInv(m)'
<1>1. status[n] = "active" /\ ~ Waits(n) /\ ~ Ended(n)
  BY DEF Leaves, Waits, Ended, Terminal
<1>2. Launched /\ Launched'
  <2>1. Launched
    BY <1>1, IsLaunched
  <2> QED
    BY <2>1 DEF Launched, Others
<1>3. \A m \in Nodes : Ended(m) => Ended(m)' /\ status'[m] = status[m]
  BY <1>1, EndsStable DEF Stable, Ended
<1>4. \A m : Children(m)' = Children(m)
  BY DEF Children
<1>5. ASSUME NEW m \in Nodes
      PROVE  Held(m)'
  <2>1. Held(m)
    BY DEF Inv, NodeInv
  <2>2. Opts(m)' = Opts(m)
    BY SameOptions DEF Others
  <2>3. CASE m = n
    <3>1. hand'[n] = "none" /\ Ended(n)' /\ status'[n] # "none"
      BY DEF Leaves, Ends, Ended, Terminal
    <3>2. status'[n] # "failed" => stalls'[n] <= MaxStalledCount
      BY DEF Leaves, Ends, Terminal
    <3> QED
      BY <1>2, <2>3, <3>1, <3>2 DEF Held
  <2>4. CASE m # n
    <3>1. hand'[m] = hand[m] /\ made'[m] = made[m] /\ stalls'[m] = stalls[m]
      BY <2>4 DEF Others
    <3>2. status'[m] = status[m] \/ (status[m] = "waiting-children" /\ status'[m] = "waiting")
      BY <2>4 DEF Ends
    <3>3. hand[m] # "none" => status'[m] = "active"
      BY <2>1, <3>2 DEF Held
    <3>4. ~ Ended(m)' => ~ Ended(m)
      BY <1>3
    <3>5. status'[m] # "none" /\ (status'[m] # "failed" => status[m] # "failed")
      BY <1>2, <2>1, <3>2 DEF Held
    <3> QED
      BY <1>2, <2>1, <2>2, <3>1, <3>3, <3>4, <3>5 DEF Held
  <2> QED
    BY <2>3, <2>4
<1>6. ASSUME NEW m \in Nodes
      PROVE  Woken(m)'
  <2>1. Woken(m)
    BY DEF Inv, NodeInv
  <2>2. Waits(m)' \/ doomed'[m] \/ deps'[m] = {}
    <3>1. CASE doomed[m]
      BY <3>1 DEF Ends
    <3>2. CASE deps[m] = {}
      BY <3>2 DEF Ends
    <3>3. CASE ~ doomed[m] /\ deps[m] # {}
      <4>1. Waits(m) /\ m # n
        BY <1>1, <2>1, <3>3 DEF Woken
      <4> QED
        BY <4>1 DEF Ends, Waits
    <3> QED
      BY <3>1, <3>2, <3>3
  <2>3. CASE doomed[m]
    <3>1. /\ m = Root /\ plan.variant = "failParent" /\ status["charge-payment"] = "failed"
          /\ hand[m] # "ok" /\ status[m] # "completed"
      BY <2>1, <2>3 DEF Woken
    <3>2. status'["charge-payment"] = "failed"
      BY <1>3, <3>1 DEF Ended, Terminal, Nodes
    <3>3. hand'[m] # "ok" /\ status'[m] # "completed"
      <4>1. CASE m = n
        BY <2>3, <4>1 DEF Leaves, Ends, Terminal
      <4>2. CASE m # n
        BY <3>1, <4>2 DEF Others, Ends
      <4> QED
        BY <4>1, <4>2
    <3> QED
      BY <2>2, <3>1, <3>2, <3>3 DEF Woken, Others
  <2>4. CASE ~ doomed[m] /\ doomed'[m]
    <3>1. n \in Children(m) /\ final = "failed" /\ Opts(n).failParent
      BY <2>4 DEF Ends
    <3>2. n = "charge-payment" /\ plan.variant = "failParent" /\ status'[n] = "failed"
      BY <3>1, Options DEF Ends
    <3>3. m = Root
      BY <3>1, <3>2, Tree
    <3>4. Waits(m)
      <4>1. ~ Waits(m) => Ended(n)
        BY <1>2, <2>4, <3>1, Ran
      <4> QED
        BY <1>1, <4>1
    <3>5. m # n
      BY <1>1, <3>4
    <3>6. hand'[m] # "ok" /\ status'[m] # "completed"
      <4>1. hand[m] = "none"
        BY <3>4 DEF Inv, NodeInv, Held, Waits
      <4> QED
        BY <3>4, <3>5, <4>1 DEF Others, Ends, Waits
    <3> QED
      BY <2>2, <3>2, <3>3, <3>6 DEF Woken, Others
  <2>5. CASE ~ doomed'[m]
    BY <2>2, <2>5 DEF Woken
  <2> QED
    BY <2>3, <2>4, <2>5
<1>7. ASSUME NEW m \in Nodes
      PROVE  Released(m)'
  <2>1. \A c \in Children(m) \ deps[m] : status[c] = "completed" \/ (c = "charge-payment" /\ Optional /\ Ended(c))
    BY <1>2 DEF Inv, NodeInv, Released
  <2>2. ASSUME NEW c \in Children(m), c \notin deps'[m]
        PROVE  status'[c] = "completed" \/ (c = "charge-payment" /\ Optional /\ Ended(c)')
    <3>1. c \in Nodes
      BY Tree
    <3>2. CASE c \notin deps[m]
      BY <1>3, <2>1, <3>1, <3>2 DEF Ended, Terminal
    <3>3. CASE c \in deps[m]
      <4>1. c = n /\ (final = "completed" \/ Opts(n).ignore)
        BY <2>2, <3>3 DEF Ends
      <4>2. Opts(n).ignore => n = "charge-payment" /\ Optional
        BY Options DEF Optional
      <4>3. status'[n] = final /\ Ended(n)'
        BY DEF Ends, Ended
      <4> QED
        BY <4>1, <4>2, <4>3
    <3> QED
      BY <3>2, <3>3
  <2>3. Optional' = Optional
    BY DEF Optional, Others
  <2> QED
    BY <1>4, <2>2, <2>3 DEF Released
<1> QED
  BY <1>5, <1>6, <1>7 DEF NodeInv

-----------------------------------------------------------------------------
(* The actions *)

LEMMA InvAfter ==
  ASSUME Inv, TypeOK', \A m \in Nodes : NodeInv(m)', Stable,
         UNCHANGED <<plan, view, page, trace>>
  PROVE  Inv'
<1>1. \A m \in Nodes' : NodeInv(m)'
  BY DEF Nodes, Root
<1> QED
  BY <1>1, KeepsView, KeepsTrace DEF Inv

LEMMA NodeFacts ==
  ASSUME Inv, NEW n \in Nodes
  PROVE  /\ TypeOK /\ Held(n)
         /\ status[n] \in Statuses \cup {"none"} /\ made[n] \in 0 .. DefaultAttempts
         /\ stalls[n] \in 0 .. MaxStalledCount + 1
         /\ status[n] = "active" => made[n] < Opts(n).attempts /\ stalls[n] <= MaxStalledCount
         /\ Opts(n).attempts \in 1 .. DefaultAttempts
         /\ hand[n] # "none" => status[n] = "active"
<1>1. TypeOK /\ Held(n)
  BY DEF Inv, NodeInv
<1>2. status[n] = "active" => ~ Ended(n)
  BY DEF Ended, Terminal
<1> QED
  BY <1>1, <1>2, Options DEF Held, TypeOK

LEMMA FetchInv ==
  ASSUME Inv, NEW n \in Nodes, Fetch(n)
  PROVE  Inv'
<1>1. TypeOK
  BY NodeFacts
<1>2. /\ status[n] = "waiting" /\ made[n] < Opts(n).attempts /\ stalls[n] <= MaxStalledCount
      /\ ~ Waits(n) /\ ~ Ended(n)
  <2>1. Held(n) /\ status[n] = "waiting"
    BY NodeFacts DEF Fetch
  <2> QED
    BY <2>1 DEF Held, Ended, Terminal, Waits
<1>3. /\ status' = [status EXCEPT ![n] = "active"] /\ hand' = [hand EXCEPT ![n] = "fetched"]
      /\ plan' = plan /\ deps' = deps /\ doomed' = doomed /\ made' = made /\ stalls' = stalls
      /\ trace' = trace /\ crashes' = crashes /\ view' = view /\ page' = page
  BY DEF Fetch, web
<1>4. /\ status'[n] = "active" /\ \A m \in Nodes \ {n} : status'[m] = status[m]
      /\ hand'[n] = "fetched" /\ \A m \in Nodes \ {n} : hand'[m] = hand[m]
      /\ status' \in [Nodes -> Statuses \cup {"none"}]
      /\ hand' \in [Nodes -> {"none", "fetched", "ok", "error"}]
  BY <1>1, <1>3 DEF TypeOK, Statuses
<1>5. Goes(n) /\ Others(n)
  BY <1>2, <1>3, <1>4 DEF Goes, Others
<1>6. TypeOK'
  BY <1>1, <1>3, <1>4 DEF TypeOK
<1> QED
  BY <1>3, <1>5, <1>6, GoesKeeps, GoesStable, InvAfter

LEMMA PromoteInv ==
  ASSUME Inv, NEW n \in Nodes, Promote(n)
  PROVE  Inv'
<1>1. TypeOK
  BY NodeFacts
<1>2. /\ status[n] = "delayed" /\ made[n] < Opts(n).attempts /\ stalls[n] <= MaxStalledCount
      /\ ~ Waits(n) /\ ~ Ended(n) /\ hand[n] = "none"
  <2>1. Held(n) /\ status[n] = "delayed"
    BY NodeFacts DEF Promote
  <2> QED
    BY <2>1 DEF Held, Ended, Terminal, Waits
<1>3. /\ status' = [status EXCEPT ![n] = "waiting"] /\ hand' = hand
      /\ plan' = plan /\ deps' = deps /\ doomed' = doomed /\ made' = made /\ stalls' = stalls
      /\ trace' = trace /\ crashes' = crashes /\ view' = view /\ page' = page
  BY DEF Promote, web
<1>4. /\ status'[n] = "waiting" /\ \A m \in Nodes \ {n} : status'[m] = status[m]
      /\ status' \in [Nodes -> Statuses \cup {"none"}]
  BY <1>1, <1>3 DEF TypeOK, Statuses
<1>5. Goes(n) /\ Others(n)
  BY <1>2, <1>3, <1>4 DEF Goes, Others
<1>6. TypeOK'
  BY <1>1, <1>3, <1>4 DEF TypeOK
<1> QED
  BY <1>3, <1>5, <1>6, GoesKeeps, GoesStable, InvAfter

LEMMA RefuseInv ==
  ASSUME Inv, NEW n \in Nodes, Refuse(n)
  PROVE  Inv'
<1>1. TypeOK
  BY NodeFacts
<1>2. /\ status[n] = "active" /\ made[n] < Opts(n).attempts /\ stalls[n] <= MaxStalledCount
      /\ ~ Waits(n) /\ ~ Ended(n)
  <2>1. status[n] = "active"
    BY NodeFacts DEF Refuse
  <2> QED
    BY <2>1, NodeFacts DEF Ended, Terminal, Waits
<1>3. /\ hand' = [hand EXCEPT ![n] = "error"] /\ status' = status
      /\ plan' = plan /\ deps' = deps /\ doomed' = doomed /\ made' = made /\ stalls' = stalls
      /\ trace' = trace /\ crashes' = crashes /\ view' = view /\ page' = page
  BY DEF Refuse, web, redis
<1>4. /\ hand'[n] = "error" /\ \A m \in Nodes \ {n} : hand'[m] = hand[m]
      /\ hand' \in [Nodes -> {"none", "fetched", "ok", "error"}]
  BY <1>1, <1>3 DEF TypeOK
<1>5. Goes(n) /\ Others(n)
  BY <1>2, <1>3, <1>4 DEF Goes, Others
<1>6. TypeOK'
  BY <1>1, <1>3, <1>4 DEF TypeOK
<1> QED
  BY <1>3, <1>5, <1>6, GoesKeeps, GoesStable, InvAfter

LEMMA CompleteInv ==
  ASSUME Inv, NEW n \in Nodes, Complete(n)
  PROVE  Inv'
<1>1. TypeOK
  BY NodeFacts
<1>2. status[n] = "active" /\ stalls[n] <= MaxStalledCount /\ ~ doomed[n]
  <2>1. hand[n] = "ok"
    BY DEF Complete
  <2>2. Woken(n)
    BY DEF Inv, NodeInv
  <2> QED
    BY <2>1, <2>2, NodeFacts DEF Woken
<1>3. /\ Settle(n, "completed") /\ hand' = [hand EXCEPT ![n] = "none"]
      /\ plan' = plan /\ made' = made /\ stalls' = stalls
      /\ trace' = trace /\ crashes' = crashes /\ view' = view /\ page' = page
  BY DEF Complete, web
<1>4. /\ hand'[n] = "none" /\ \A m \in Nodes \ {n} : hand'[m] = hand[m]
      /\ hand' \in [Nodes -> {"none", "fetched", "ok", "error"}]
  BY <1>1, <1>3 DEF TypeOK
<1>5. "completed" \in Terminal /\ Ends(n, "completed") /\ Typed
  BY <1>1, <1>3, SettleEnds DEF Terminal
<1>6. Others(n) /\ Leaves(n, "completed")
  BY <1>2, <1>3, <1>4 DEF Leaves, Others
<1>7. TypeOK'
  BY <1>1, <1>3, <1>4, <1>5 DEF TypeOK, Typed
<1>8. (\A m \in Nodes : NodeInv(m)') /\ Stable
  BY <1>2, <1>5, <1>6, EndsKeeps, EndsStable
<1> QED
  BY <1>3, <1>7, <1>8, InvAfter

LEMMA FailAttemptInv ==
  ASSUME Inv, NEW n \in Nodes, FailAttempt(n)
  PROVE  Inv'
<1>1. TypeOK
  BY NodeFacts
<1>2. /\ status[n] = "active" /\ stalls[n] <= MaxStalledCount /\ made[n] < Opts(n).attempts
      /\ ~ Waits(n) /\ ~ Ended(n)
      /\ Opts(n).attempts \in 1 .. DefaultAttempts /\ made[n] \in 0 .. DefaultAttempts
  <2>1. status[n] = "active"
    BY NodeFacts DEF FailAttempt
  <2> QED
    BY <2>1, NodeFacts DEF Ended, Terminal, Waits
<1>3. /\ hand' = [hand EXCEPT ![n] = "none"] /\ made' = [made EXCEPT ![n] = @ + 1]
      /\ plan' = plan /\ stalls' = stalls
      /\ trace' = trace /\ crashes' = crashes /\ view' = view /\ page' = page
  BY DEF FailAttempt, web
<1>4. /\ hand'[n] = "none" /\ \A m \in Nodes \ {n} : hand'[m] = hand[m]
      /\ hand' \in [Nodes -> {"none", "fetched", "ok", "error"}]
  BY <1>1, <1>3 DEF TypeOK
<1>5. /\ made'[n] = made[n] + 1 /\ \A m \in Nodes \ {n} : made'[m] = made[m]
      /\ made' \in [Nodes -> 0 .. DefaultAttempts]
  BY <1>1, <1>2, <1>3 DEF TypeOK
<1>6. Others(n)
  BY <1>3, <1>4, <1>5 DEF Others
<1>7. CASE made[n] + 1 < Opts(n).attempts /\ status' = [status EXCEPT ![n] = "delayed"]
           /\ deps' = deps /\ doomed' = doomed
  <2>1. /\ status'[n] = "delayed" /\ \A m \in Nodes \ {n} : status'[m] = status[m]
        /\ status' \in [Nodes -> Statuses \cup {"none"}]
    BY <1>1, <1>7 DEF TypeOK, Statuses
  <2>2. stalls'[n] <= MaxStalledCount
    BY <1>2, <1>3
  <2>3. Goes(n)
    BY <1>2, <1>4, <1>5, <1>7, <2>1, <2>2 DEF Goes
  <2>4. TypeOK'
    BY <1>1, <1>3, <1>4, <1>5, <1>7, <2>1 DEF TypeOK
  <2> QED
    BY <1>3, <1>6, <2>3, <2>4, GoesKeeps, GoesStable, InvAfter
<1>8. CASE Settle(n, "failed")
  <2>1. "failed" \in Terminal /\ Ends(n, "failed") /\ Typed
    BY <1>1, <1>8, SettleEnds DEF Terminal
  <2>2. Leaves(n, "failed")
    BY <1>2, <1>4 DEF Leaves
  <2>3. TypeOK'
    BY <1>1, <1>3, <1>4, <1>5, <2>1 DEF TypeOK, Typed
  <2>4. (\A m \in Nodes : NodeInv(m)') /\ Stable
    BY <1>2, <1>6, <2>1, <2>2, EndsKeeps, EndsStable
  <2> QED
    BY <1>3, <2>3, <2>4, InvAfter
<1> QED
  BY <1>7, <1>8 DEF FailAttempt

LEMMA StalledInv ==
  ASSUME Inv, NEW n \in Nodes, Stalled(n)
  PROVE  Inv'
<1>1. TypeOK
  BY NodeFacts
<1>2. /\ status[n] = "active" /\ stalls[n] <= MaxStalledCount /\ made[n] < Opts(n).attempts
      /\ ~ Waits(n) /\ ~ Ended(n) /\ hand[n] = "none"
      /\ stalls[n] \in 0 .. MaxStalledCount + 1
  <2>1. status[n] = "active" /\ hand[n] = "none"
    BY DEF Stalled
  <2> QED
    BY <2>1, NodeFacts DEF Ended, Terminal, Waits
<1>3. /\ stalls' = [stalls EXCEPT ![n] = @ + 1]
      /\ plan' = plan /\ made' = made /\ hand' = hand
      /\ trace' = trace /\ crashes' = crashes /\ view' = view /\ page' = page
  BY DEF Stalled, web
<1>4. /\ stalls'[n] = stalls[n] + 1 /\ \A m \in Nodes \ {n} : stalls'[m] = stalls[m]
      /\ stalls' \in [Nodes -> 0 .. MaxStalledCount + 1]
  BY <1>1, <1>2, <1>3 DEF TypeOK
<1>5. Others(n)
  BY <1>3, <1>4 DEF Others
<1>6. CASE stalls[n] < MaxStalledCount /\ status' = [status EXCEPT ![n] = "waiting"]
           /\ deps' = deps /\ doomed' = doomed
  <2>1. /\ status'[n] = "waiting" /\ \A m \in Nodes \ {n} : status'[m] = status[m]
        /\ status' \in [Nodes -> Statuses \cup {"none"}]
    BY <1>1, <1>6 DEF TypeOK, Statuses
  <2>2. stalls'[n] <= MaxStalledCount
    BY <1>2, <1>4, <1>6
  <2>3. Goes(n)
    BY <1>2, <1>3, <1>6, <2>1, <2>2 DEF Goes
  <2>4. TypeOK'
    BY <1>1, <1>3, <1>4, <1>6, <2>1 DEF TypeOK
  <2> QED
    BY <1>3, <1>5, <2>3, <2>4, GoesKeeps, GoesStable, InvAfter
<1>7. CASE Settle(n, "failed")
  <2>1. "failed" \in Terminal /\ Ends(n, "failed") /\ Typed
    BY <1>1, <1>7, SettleEnds DEF Terminal
  <2>2. Leaves(n, "failed")
    BY <1>2, <1>3 DEF Leaves
  <2>3. TypeOK'
    BY <1>1, <1>3, <1>4, <2>1 DEF TypeOK, Typed
  <2>4. (\A m \in Nodes : NodeInv(m)') /\ Stable
    BY <1>2, <1>5, <2>1, <2>2, EndsKeeps, EndsStable
  <2> QED
    BY <1>3, <2>3, <2>4, InvAfter
<1> QED
  BY <1>6, <1>7 DEF Stalled

\* A process death frees every slot and empties the trace; Redis keeps the rest.
LEMMA CrashInv ==
  ASSUME Inv, Crash
  PROVE  Inv'
<1>1. TypeOK
  BY DEF Inv
<1>2. /\ crashes' = crashes + 1 /\ crashes < MaxCrashes
      /\ hand' = [n \in Nodes |-> "none"] /\ trace' = <<>>
      /\ plan' = plan /\ status' = status /\ deps' = deps /\ doomed' = doomed
      /\ made' = made /\ stalls' = stalls /\ view' = view /\ page' = page
  BY DEF Crash, redis, web
<1>3. TypeOK'
  <2>1. trace' \in Seq(Nodes) /\ Len(trace') <= TraceCapacity
    BY <1>2
  <2>2. crashes' \in 0 .. MaxCrashes
    BY <1>1, <1>2 DEF TypeOK
  <2>3. hand' \in [Nodes -> {"none", "fetched", "ok", "error"}]
    BY <1>2
  <2> QED
    BY <1>1, <1>2, <2>1, <2>2, <2>3 DEF TypeOK
<1>4. ASSUME NEW m \in Nodes
      PROVE  NodeInv(m)'
  <2>1. NodeInv(m) /\ hand'[m] = "none"
    BY <1>2 DEF Inv
  <2>2. \A n : Opts(n)' = Opts(n) /\ Children(n)' = Children(n)
    BY <1>2 DEF Opts, Children
  <2>3. Held(m)'
    BY <1>2, <2>1, <2>2 DEF NodeInv, Held, Ended, Launched
  <2>4. Woken(m)'
    BY <1>2, <2>1 DEF NodeInv, Woken, Waits
  <2>5. Released(m)'
    BY <1>2, <2>1, <2>2 DEF NodeInv, Released, Launched, Optional, Ended
  <2> QED
    BY <2>3, <2>4, <2>5 DEF NodeInv
<1>5. ViewInv'
  <2>1. Stable
    BY <1>2 DEF Stable
  <2> QED
    BY <1>2, <2>1, KeepsView
<1>6. TraceInv'
  <2>1. \A n : ~ InTrace(n)'
    BY <1>2 DEF InTrace
  <2>2. TraceOrdersNodes'
    BY <1>2 DEF TraceOrdersNodes, ExecutionTrace
  <2> QED
    BY <2>1, <2>2 DEF TraceInv
<1> QED
  BY <1>3, <1>4, <1>5, <1>6 DEF Inv

\* What recording a node makes of the trace: no more than the old entries in
\* their order, and the new one last.
Recorded(n) ==
  /\ trace' \in Seq(Nodes)
  /\ Len(trace') <= TraceCapacity
  /\ \A i \in DOMAIN trace' : trace'[i] = n \/ InTrace(trace'[i])
  /\ \A i, k \in DOMAIN trace' : i < k =>
       \/ trace'[k] = n /\ (trace'[i] = n \/ InTrace(trace'[i]))
       \/ \E j, l \in DOMAIN trace :
            j < l /\ trace[j] = trace'[i] /\ trace[l] = trace'[k]

LEMMA RecordEffect ==
  ASSUME TypeOK, NEW n \in Nodes, Record(n)
  PROVE  Recorded(n)
<1> DEFINE grown == Append(trace, n)
<1>1. trace \in Seq(Nodes) /\ Len(trace) \in Nat /\ Len(trace) <= TraceCapacity /\ TraceCapacity \in Nat
  BY DEF TypeOK
<1>2. /\ grown \in Seq(Nodes) /\ Len(grown) = Len(trace) + 1 /\ grown[Len(trace) + 1] = n
      /\ \A i \in 1 .. Len(trace) : grown[i] = trace[i]
  BY <1>1
<1>3. DOMAIN trace = 1 .. Len(trace)
  BY <1>1
<1>4. PICK d \in {0, 1} :
        /\ trace' \in Seq(Nodes) /\ Len(trace') = Len(grown) - d
        /\ Len(trace') <= TraceCapacity
        /\ \A i \in 1 .. Len(trace') : trace'[i] = grown[i + d]
  <2>1. CASE Len(grown) > TraceCapacity
    <3>1. trace' = Tail(grown)
      BY <2>1 DEF Record
    <3> HIDE DEF grown
    <3>2. grown # <<>>
      BY <1>1, <1>2
    <3>3. /\ Tail(grown) \in Seq(Nodes) /\ Len(Tail(grown)) = Len(grown) - 1
          /\ \A i \in 1 .. Len(Tail(grown)) : Tail(grown)[i] = grown[i + 1]
      BY <1>2, <3>2, HeadTailProperties
    <3> QED
      BY <1>1, <1>2, <3>1, <3>3
  <2>2. CASE Len(grown) <= TraceCapacity
    <3>1. trace' = grown
      BY <1>1, <1>2, <2>2 DEF Record
    <3> HIDE DEF grown
    <3>2. \A i \in 1 .. Len(grown) : grown[i + 0] = grown[i]
      BY <1>1, <1>2
    <3> QED
      BY <1>1, <1>2, <2>2, <3>1, <3>2
  <2> QED
    BY <1>1, <1>2, <2>1, <2>2
<1> HIDE DEF grown
<1>5. DOMAIN trace' = 1 .. Len(trace') /\ Len(trace') \in Nat
  BY <1>4
<1>6. ASSUME NEW i \in DOMAIN trace'
      PROVE  /\ i \in Nat /\ i + d \in 1 .. Len(trace) + 1 /\ trace'[i] = grown[i + d]
             /\ i + d = Len(trace) + 1 => trace'[i] = n
             /\ i + d # Len(trace) + 1 => i + d \in DOMAIN trace /\ trace'[i] = trace[i + d]
  <2>1. i \in 1 .. Len(trace') /\ trace'[i] = grown[i + d]
    BY <1>4, <1>5
  <2>2. i \in Nat /\ i + d \in 1 .. Len(trace) + 1
    BY <1>1, <1>2, <1>4, <1>5, <2>1
  <2>3. i + d # Len(trace) + 1 => i + d \in 1 .. Len(trace)
    BY <1>1, <2>2
  <2> QED
    BY <1>2, <1>3, <2>1, <2>2, <2>3
<1>7. \A i \in DOMAIN trace' : trace'[i] = n \/ InTrace(trace'[i])
  BY <1>6 DEF InTrace
<1>8. ASSUME NEW i \in DOMAIN trace', NEW k \in DOMAIN trace', i < k
      PROVE  \/ trace'[k] = n /\ (trace'[i] = n \/ InTrace(trace'[i]))
             \/ \E j, l \in DOMAIN trace :
                  j < l /\ trace[j] = trace'[i] /\ trace[l] = trace'[k]
  <2>1. CASE k + d = Len(trace) + 1
    BY <1>6, <1>7, <2>1
  <2>2. CASE k + d # Len(trace) + 1
    <3>1. i \in Nat /\ k \in Nat /\ i + d < k + d /\ k + d \in 1 .. Len(trace)
      BY <1>3, <1>4, <1>6, <1>8, <2>2
    <3>2. i + d # Len(trace) + 1
      BY <1>1, <1>4, <3>1
    <3> QED
      BY <1>6, <2>2, <3>1, <3>2
  <2> QED
    BY <2>1, <2>2
<1> QED
  BY <1>4, <1>7, <1>8 DEF Recorded

\* Whoever runs finds its children ended, so the trace cannot show it too early.
LEMMA RunInv ==
  ASSUME Inv, NEW n \in Nodes, Run(n)
  PROVE  Inv'
<1>1. TypeOK
  BY NodeFacts
<1>2. /\ status[n] = "active" /\ made[n] < Opts(n).attempts /\ stalls[n] <= MaxStalledCount
      /\ ~ Waits(n) /\ ~ Ended(n) /\ ~ doomed[n]
  <2>1. status[n] = "active" /\ ~ doomed[n]
    BY NodeFacts DEF Run
  <2> QED
    BY <2>1, NodeFacts DEF Ended, Terminal, Waits
<1>3. /\ plan' = plan /\ status' = status /\ deps' = deps /\ doomed' = doomed
      /\ made' = made /\ stalls' = stalls
      /\ crashes' = crashes /\ view' = view /\ page' = page
  BY DEF Run, web, redis
<1>4. PICK h \in {"ok", "error"} : hand' = [hand EXCEPT ![n] = h] /\ Record(n)
  BY DEF Run, Fulfill, Reserve, FetchData, Charge, Returns
<1>5. /\ hand'[n] = h /\ \A m \in Nodes \ {n} : hand'[m] = hand[m]
      /\ hand' \in [Nodes -> {"none", "fetched", "ok", "error"}]
  BY <1>1, <1>4 DEF TypeOK
<1>6. Goes(n) /\ Others(n)
  BY <1>2, <1>3, <1>5 DEF Goes, Others
<1>7. Recorded(n)
  BY <1>1, <1>4, RecordEffect
<1>8. TypeOK'
  <2>1. trace' \in Seq(Nodes) /\ Len(trace') <= TraceCapacity
    BY <1>7 DEF Recorded
  <2> QED
    BY <1>1, <1>3, <1>5, <2>1 DEF TypeOK
<1>9. \A m \in Nodes : NodeInv(m)'
  BY <1>6, GoesKeeps
<1>10. ViewInv'
  BY <1>3, <1>6, GoesStable, KeepsView
<1>11. Launched
  BY <1>2, IsLaunched DEF Waits
<1>12. n = Root => /\ status["charge-payment"] = "completed" \/ Optional
                   /\ \A m \in Nodes \ {Root} : Ended(m)
  BY <1>2, <1>11, RootRan
<1>13. n = "render-invoice" => Ended("fetch-lines") /\ Ended("fetch-customer")
  BY <1>2, <1>11, Ran, Tree
<1>14. \A m : InTrace(m)' => m = n \/ InTrace(m)
  BY <1>7 DEF InTrace, Recorded
<1>15. Optional' = Optional /\ \A m : Ended(m)' = Ended(m)
  BY <1>3 DEF Optional, Ended
<1>16. TraceOrdersNodes'
  <2> SUFFICES ASSUME NEW i \in DOMAIN trace', NEW k \in DOMAIN trace', i < k
               PROVE  /\ trace'[i] = "ship-order" => trace'[k] = "ship-order"
                      /\ trace'[i] = "render-invoice" =>
                           trace'[k] \notin {"fetch-lines", "fetch-customer"}
    BY DEF TraceOrdersNodes, ExecutionTrace
  <2>1. CASE trace'[k] = n /\ (trace'[i] = n \/ InTrace(trace'[i]))
    <3>1. ASSUME trace'[i] = "ship-order"
          PROVE  trace'[k] = "ship-order"
      <4>1. InTrace(Root) => n = Root
        BY <1>2 DEF Inv, TraceInv
      <4> QED
        BY <2>1, <3>1, <4>1 DEF Root
    <3>2. ASSUME trace'[i] = "render-invoice"
          PROVE  trace'[k] \notin {"fetch-lines", "fetch-customer"}
      <4>1. InTrace("render-invoice") => n \notin {"fetch-lines", "fetch-customer"}
        BY <1>2 DEF Inv, TraceInv
      <4> QED
        BY <2>1, <3>2, <4>1
    <3> QED
      BY <3>1, <3>2
  <2>2. CASE \E j, l \in DOMAIN trace :
               j < l /\ trace[j] = trace'[i] /\ trace[l] = trace'[k]
    BY <2>2 DEF Inv, TraceInv, TraceOrdersNodes, ExecutionTrace
  <2> QED
    BY <1>7, <2>1, <2>2 DEF Recorded
<1>17. TraceInv'
  <2>1. InTrace(Root)' =>
          /\ status'["charge-payment"] = "completed" \/ Optional'
          /\ \A m \in Nodes \ {Root} : Ended(m)'
    BY <1>3, <1>12, <1>14, <1>15 DEF Inv, TraceInv
  <2>2. InTrace("render-invoice")' => Ended("fetch-lines")' /\ Ended("fetch-customer")'
    BY <1>13, <1>14, <1>15 DEF Inv, TraceInv
  <2> QED
    BY <1>16, <2>1, <2>2 DEF TraceInv
<1> QED
  BY <1>8, <1>9, <1>10, <1>17 DEF Inv

\* Before the launch nothing has happened to any node.
LEMMA LaunchInv ==
  ASSUME Inv, NEW p \in Plans, Launch(p)
  PROVE  Inv'
<1>1. TypeOK /\ ~ Launched
  BY DEF Inv, Launch, Launched
<1>2. /\ plan' = p /\ Added
      /\ doomed' = doomed /\ made' = made /\ stalls' = stalls /\ hand' = hand
      /\ trace' = trace /\ crashes' = crashes /\ view' = view /\ page' = page
  BY DEF Launch, web
<1>3. plan' # NoPlan
  <2>1. p.variant \in Variants /\ NoPlan.variant = "none"
    BY DEF Plans, NoPlan
  <2> QED
    BY <1>2, <2>1 DEF Variants
<1>4. \A n \in Nodes :
        /\ status[n] = "none" /\ ~ Ended(n) /\ hand[n] = "none" /\ ~ doomed[n]
        /\ made[n] < Opts(n).attempts /\ stalls[n] <= MaxStalledCount
  <2>1. ASSUME NEW n \in Nodes
        PROVE  /\ status[n] = "none" /\ ~ Ended(n) /\ hand[n] = "none"
               /\ made[n] < Opts(n).attempts /\ stalls[n] <= MaxStalledCount
    BY <1>1 DEF Inv, NodeInv, Held, Ended, Terminal
  <2>2. ASSUME NEW n \in Nodes
        PROVE  ~ doomed[n]
    BY <2>1, Tree DEF Inv, NodeInv, Woken, Nodes
  <2> QED
    BY <2>1, <2>2
<1>5. /\ status' = [n \in Nodes |-> IF Children(n) = {} THEN "waiting" ELSE "waiting-children"]
      /\ deps' = [n \in Nodes |-> Children(n)]
  BY <1>2 DEF Added
<1>6. TypeOK'
  <2>1. status' \in [Nodes -> Statuses \cup {"none"}]
    BY <1>5 DEF Statuses
  <2>2. deps' \in [Nodes -> SUBSET Nodes]
    <3>1. \A n \in Nodes : Children(n) \in SUBSET Nodes
      BY Tree
    <3> QED
      BY <1>5, <3>1
  <2>3. plan' \in Plans \cup {NoPlan}
    BY <1>2
  <2> QED
    BY <1>1, <1>2, <2>1, <2>2, <2>3 DEF TypeOK
<1>7. ASSUME NEW n \in Nodes
      PROVE  NodeInv(n)'
  <2>1. /\ status'[n] \in {"waiting", "waiting-children"} /\ deps'[n] = Children(n)
        /\ status'[n] = "waiting" => Children(n) = {}
        /\ hand'[n] = "none" /\ ~ doomed'[n]
    BY <1>2, <1>4, <1>5
  <2>2. made'[n] < Opts(n)'.attempts
    <3>1. made[n] \in Nat /\ made'[n] = made[n] /\ Opts(n)'.attempts \in Nat \ {0}
      <4>1. Opts(n)'.attempts \in 1 .. DefaultAttempts
        <5>1. CASE n = "charge-payment"
          BY <5>1, PaymentFlags DEF Opts
        <5>2. CASE n # "charge-payment"
          BY <5>2 DEF Opts
        <5> QED
          BY <5>1, <5>2
      <4>2. 1 .. DefaultAttempts \subseteq Nat \ {0} /\ 0 .. DefaultAttempts \subseteq Nat
        OBVIOUS
      <4> QED
        BY <1>1, <1>2, <4>1, <4>2 DEF TypeOK
    <3>2. CASE n = "charge-payment"
      <4>1. Opts(n).attempts = 1
        <5>1. plan.variant = "none"
          BY <1>1 DEF Launched, NoPlan
        <5>2. Opts(n) = PaymentChildOpts("none")
          BY <3>2, <5>1 DEF Opts
        <5>3. PaymentChildOpts("none").attempts = 1
          BY DEF PaymentChildOpts
        <5> QED
          BY <5>2, <5>3
      <4>2. made'[n] < 1
        BY <1>4, <3>1, <4>1
      <4> QED
        BY <3>1, <4>2
    <3>3. CASE n # "charge-payment"
      <4>1. Opts(n)' = Opts(n)
        BY <3>3 DEF Opts
      <4> QED
        BY <1>4, <3>1, <4>1
    <3> QED
      BY <3>2, <3>3
  <2>3. stalls'[n] <= MaxStalledCount
    BY <1>2, <1>4
  <2>4. Held(n)'
    BY <1>3, <2>1, <2>2, <2>3 DEF Held, Launched
  <2>5. Woken(n)'
    BY <2>1 DEF Woken, Waits
  <2>6. Released(n)'
    <3>1. Children(n)' = Children(n)
      BY DEF Children
    <3> QED
      BY <2>1, <3>1 DEF Released
  <2> QED
    BY <2>4, <2>5, <2>6 DEF NodeInv
<1>8. ViewInv'
  <2>1. page' = "off" /\ \A n \in Nodes : view'[n] = "unread"
    BY <1>1, <1>2 DEF Inv, ViewInv
  <2>2. \A q \in Nodes : \A c \in Children(q)' : c \in Nodes
    BY Tree DEF Children
  <2> QED
    BY <2>1, <2>2 DEF ViewInv, Terminal
<1>9. TraceInv'
  <2>1. ~ InTrace(Root) /\ ~ InTrace("render-invoice")
    BY <1>4, Tree DEF Inv, TraceInv, Nodes, Root
  <2>2. \A n : InTrace(n)' = InTrace(n)
    BY <1>2 DEF InTrace
  <2>3. TraceOrdersNodes'
    BY <1>2 DEF Inv, TraceInv, TraceOrdersNodes, ExecutionTrace
  <2> QED
    BY <2>1, <2>2, <2>3 DEF TraceInv
<1> QED
  BY <1>6, <1>7, <1>8, <1>9 DEF Inv

LEMMA Quiet ==
  ASSUME Inv, UNCHANGED <<redis, hand>>
  PROVE  \A m \in Nodes : NodeInv(m)'
<1>1. /\ plan' = plan /\ status' = status /\ deps' = deps /\ doomed' = doomed
      /\ made' = made /\ stalls' = stalls /\ hand' = hand
  BY DEF redis
<1>2. \A n : Opts(n)' = Opts(n) /\ Children(n)' = Children(n)
  BY <1>1 DEF Opts, Children
<1>3. ASSUME NEW m \in Nodes
      PROVE  NodeInv(m)'
  <2>1. NodeInv(m)
    BY DEF Inv
  <2>2. Held(m)'
    BY <1>1, <1>2, <2>1 DEF NodeInv, Held, Ended, Launched
  <2>3. Woken(m)'
    BY <1>1, <2>1 DEF NodeInv, Woken, Waits
  <2>4. Released(m)'
    BY <1>1, <1>2, <2>1 DEF NodeInv, Released, Launched, Optional, Ended
  <2> QED
    BY <2>2, <2>3, <2>4 DEF NodeInv
<1> QED
  BY <1>3

LEMMA QuietTrace ==
  ASSUME Inv, UNCHANGED <<redis, trace>>
  PROVE  TraceInv'
<1>1. plan' = plan /\ status' = status /\ trace' = trace
  BY DEF redis
<1>2. Stable
  BY <1>1 DEF Stable
<1> QED
  BY <1>1, <1>2, KeepsTrace

\* A parent is read before its children: whatever its answer promises of them
\* is settled by the time they are read.
LEMMA ReadNodeInv ==
  ASSUME Inv, NEW n \in Nodes, ReadNode(n)
  PROVE  Inv'
<1>1. TypeOK /\ ViewInv
  BY DEF Inv
<1>2. /\ page = "reading" /\ page' = "reading" /\ view[n] = "unread"
      /\ view' = [view EXCEPT ![n] = status[n]]
      /\ plan' = plan /\ status' = status /\ deps' = deps /\ doomed' = doomed
      /\ made' = made /\ stalls' = stalls /\ hand' = hand /\ trace' = trace /\ crashes' = crashes
  BY DEF ReadNode, redis
<1>3. Launched /\ Launched'
  BY <1>1, <1>2 DEF ViewInv, Launched
<1>4. status[n] \in Statuses
  <2>1. status[n] # "none" /\ status[n] \in Statuses \cup {"none"}
    BY <1>1, <1>3 DEF Inv, NodeInv, Held, TypeOK
  <2> QED
    BY <2>1
<1>5. view'[n] = status[n] /\ \A m \in Nodes \ {n} : view'[m] = view[m]
  BY <1>1, <1>2 DEF TypeOK
<1>6. TypeOK'
  <2>1. view' \in [Nodes -> Statuses \cup {"unread"}]
    BY <1>1, <1>2, <1>4 DEF TypeOK
  <2> QED
    BY <1>1, <1>2, <2>1 DEF TypeOK
<1>7. \A m \in Nodes : Ended(m)' = Ended(m)
  BY <1>2 DEF Ended
<1>8. ViewInv'
  <2>1. \A m \in Nodes : view'[m] \in Terminal => status'[m] = view'[m]
    BY <1>1, <1>2, <1>5 DEF ViewInv
  <2>2. ASSUME NEW p \in Nodes, NEW c \in Children(p), view'[p] = "unread"
        PROVE  view'[c] = "unread"
    <3>1. c \in Nodes /\ c # Root
      BY Tree
    <3>2. p # n
      BY <1>4, <1>5, <2>2 DEF Statuses, Terminal
    <3>3. view[p] = "unread" /\ view[c] = "unread"
      BY <1>1, <1>5, <2>2, <3>2 DEF ViewInv
    <3>4. c # n
      <4>1. ParentOf(c) = p
        BY <3>1, Parent, Tree
      <4> QED
        BY <3>1, <3>3, <4>1 DEF ReadNode
    <3> QED
      BY <1>5, <3>1, <3>3, <3>4
  <2>3. ASSUME NEW p \in Nodes, NEW c \in Children(p),
               view'[p] = "completed" \/ (view'[p] = "active" /\ plan.variant # "failParent")
        PROVE  Ended(c) /\ view'[c] \in Terminal \cup {"unread"}
    <3>1. c \in Nodes /\ c # p
      BY Tree
    <3>2. CASE p = n
      <4>1. Woken(n)
        BY DEF Inv, NodeInv
      <4>2. ~ Waits(n) /\ ~ doomed[n]
        BY <1>5, <2>3, <3>2, <4>1 DEF Woken, Waits
      <4>3. Ended(c)
        BY <1>3, <3>2, <4>2, Ran
      <4>4. view'[c] = "unread"
        BY <1>1, <1>2, <1>5, <3>1, <3>2 DEF ViewInv
      <4> QED
        BY <4>3, <4>4
    <3>3. CASE p # n
      <4>1. Ended(c) /\ view[c] \in Terminal \cup {"unread"}
        BY <1>1, <1>5, <2>3, <3>3 DEF ViewInv
      <4> QED
        BY <1>5, <3>1, <4>1 DEF Ended
    <3> QED
      BY <3>2, <3>3
  <2>4. \A p : Children(p)' = Children(p)
    BY DEF Children
  <2> QED
    BY <1>2, <1>3, <1>7, <2>1, <2>2, <2>3, <2>4, Tree DEF ViewInv
<1>9. (\A m \in Nodes : NodeInv(m)') /\ TraceInv'
  BY <1>2, Quiet, QuietTrace DEF redis
<1> QED
  BY <1>6, <1>8, <1>9 DEF Inv

LEMMA OpenPageInv ==
  ASSUME Inv, OpenPage
  PROVE  Inv'
<1>1. TypeOK /\ ViewInv
  BY DEF Inv
<1>2. /\ page' = "reading" /\ view' = view /\ Launched
      /\ plan' = plan /\ status' = status /\ deps' = deps /\ doomed' = doomed
      /\ made' = made /\ stalls' = stalls /\ hand' = hand /\ trace' = trace /\ crashes' = crashes
  BY DEF OpenPage, redis, Launched
<1>3. TypeOK'
  BY <1>1, <1>2 DEF TypeOK
<1>4. ViewInv'
  BY <1>1, <1>2 DEF ViewInv, Launched, Ended, Children
<1>5. (\A m \in Nodes : NodeInv(m)') /\ TraceInv'
  BY <1>2, Quiet, QuietTrace DEF redis
<1> QED
  BY <1>3, <1>4, <1>5 DEF Inv

LEMMA AnswerInv ==
  ASSUME Inv, Answer
  PROVE  Inv'
<1>1. TypeOK /\ ViewInv
  BY DEF Inv
<1>2. /\ page = "reading"
      /\ plan' = plan /\ status' = status /\ deps' = deps /\ doomed' = doomed
      /\ made' = made /\ stalls' = stalls /\ hand' = hand /\ trace' = trace /\ crashes' = crashes
  BY DEF Answer, redis
<1>3. (\A m \in Nodes : NodeInv(m)') /\ TraceInv'
  BY <1>2, Quiet, QuietTrace DEF redis
<1>4. CASE TreeFinal /\ page' = "final" /\ view' = view
  <2>1. TypeOK'
    BY <1>1, <1>2, <1>4 DEF TypeOK
  <2>2. ViewInv'
    BY <1>1, <1>2, <1>4 DEF ViewInv, Launched, Ended, Children, TreeFinal
  <2> QED
    BY <1>3, <2>1, <2>2 DEF Inv
<1>5. CASE ~ TreeFinal /\ view' = Unread /\ page' = page
  <2>1. \A m \in Nodes : view'[m] = "unread"
    BY <1>5 DEF Unread
  <2>2. TypeOK'
    <3>1. view' \in [Nodes -> Statuses \cup {"unread"}]
      BY <1>5 DEF Unread
    <3> QED
      BY <1>1, <1>2, <1>5, <3>1 DEF TypeOK
  <2>3. Launched'
    BY <1>1, <1>2 DEF ViewInv, Launched
  <2>4. \A p \in Nodes : \A c \in Children(p)' : c \in Nodes
    BY Tree DEF Children
  <2>5. ViewInv'
    BY <1>2, <1>5, <2>1, <2>3, <2>4 DEF ViewInv, Terminal
  <2> QED
    BY <1>3, <2>2, <2>5 DEF Inv
<1> QED
  BY <1>4, <1>5 DEF Answer

-----------------------------------------------------------------------------
(* The tree of dependent jobs *)

\* A child that no longer keeps its parent, and one whose failure dooms it.
Settled(c) == status[c] = "completed" \/ (c = "charge-payment" /\ Optional /\ status[c] = "failed")
FatallyFailed(n) ==
  "charge-payment" \in Children(n) /\ plan.variant = "failParent" /\ status["charge-payment"] = "failed"

\* A node waits for exactly the children that still keep it, and never waits
\* for nobody or under a failure that dooms it.
Exact(n) ==
  /\ Launched => deps[n] = {c \in Children(n) : ~ Settled(c)}
  /\ status[n] = "waiting-children" => deps[n] # {} /\ ~ FatallyFailed(n)

Exacts == \A n \in Nodes : Exact(n)

LEMMA OptionsExact ==
  ASSUME NEW n \in Nodes
  PROVE  /\ Opts(n).ignore <=> n = "charge-payment" /\ Optional
         /\ Opts(n).failParent <=> n = "charge-payment" /\ plan.variant = "failParent"
<1>1. CASE n = "charge-payment"
  <2>1. Opts(n) = PaymentChildOpts(plan.variant)
    BY <1>1 DEF Opts
  <2>2. PaymentChildOpts(plan.variant).ignore <=> plan.variant = "ignoreDependency"
    BY Zenon DEF PaymentChildOpts
  <2>3. PaymentChildOpts(plan.variant).failParent <=> plan.variant = "failParent"
    BY Zenon DEF PaymentChildOpts
  <2> QED
    BY <1>1, <2>1, <2>2, <2>3 DEF Optional
<1>2. CASE n # "charge-payment"
  BY <1>2 DEF Opts
<1> QED
  BY <1>1, <1>2

\* What ending a node does: everybody it kept is released, and a waiting parent
\* is woken exactly when nobody keeps it any more or a fatal child failed.
LEMMA SettleExact ==
  ASSUME Inv, Exacts, NEW n \in Nodes, NEW final \in Terminal,
         status[n] = "active", plan' = plan, Settle(n, final)
  PROVE  /\ status'[n] = final
         /\ \A m \in Nodes \ {n} : status[m] # "waiting-children" => status'[m] = status[m]
         /\ \A m \in Nodes \ {n} : status[m] = "waiting-children" =>
              status'[m] = IF deps'[m] = {} \/ FatallyFailed(m)' THEN "waiting" ELSE "waiting-children"
         /\ \A m \in Nodes : deps'[m] = {c \in Children(m) : ~ Settled(c)'}
<1>1. /\ status \in [Nodes -> Statuses \cup {"none"}]
      /\ deps \in [Nodes -> SUBSET Nodes]
      /\ doomed \in [Nodes -> BOOLEAN]
  BY DEF Inv, TypeOK
<1>2. Launched /\ (Optional' <=> Optional) /\ "charge-payment" \in Nodes
  BY IsLaunched DEF Optional, Nodes
<1>3. \A m \in Nodes : deps[m] = {c \in Children(m) : ~ Settled(c)}
  BY <1>2 DEF Exacts, Exact
<1>4. \A m \in Nodes : status[m] = "waiting-children" => deps[m] # {} /\ ~ FatallyFailed(m)
  BY DEF Exacts, Exact
<1>5. CASE n = Root
  <2>1. status' = [status EXCEPT ![n] = final] /\ deps' = deps
    BY <1>5 DEF Settle
  <2>2. status'[n] = final /\ \A m \in Nodes \ {n} : status'[m] = status[m]
    BY <1>1, <2>1
  <2>3. \A c \in Nodes \ {Root} : Settled(c)' <=> Settled(c)
    BY <1>2, <1>5, <2>2 DEF Settled
  <2>4. \A m \in Nodes : deps'[m] = {c \in Children(m) : ~ Settled(c)'}
    <3> SUFFICES ASSUME NEW m \in Nodes
                 PROVE  deps'[m] = {c \in Children(m) : ~ Settled(c)'}
      OBVIOUS
    <3>1. \A c \in Children(m) : Settled(c)' <=> Settled(c)
      BY <2>3, Tree
    <3> QED
      BY <1>3, <2>1, <3>1
  <2>5. \A m \in Nodes : FatallyFailed(m)' <=> FatallyFailed(m)
    <3>1. status'["charge-payment"] = status["charge-payment"]
      BY <1>2, <1>5, <2>2 DEF Root
    <3> QED
      BY <3>1 DEF FatallyFailed, Children
  <2> QED
    BY <1>4, <2>1, <2>2, <2>4, <2>5
<1>6. CASE n # Root
  <2> DEFINE p       == ParentOf(n)
             release == final = "completed" \/ Opts(n).ignore
             doom    == final = "failed" /\ Opts(n).failParent
             left    == IF release THEN deps[p] \ {n} ELSE deps[p]
             wake    == status[p] = "waiting-children" /\ (left = {} \/ doom)
  <2>1. p \in Nodes /\ n \in Children(p) /\ p # n
    BY <1>6, Parent
  <2>2. /\ deps' = [deps EXCEPT ![p] = left]
        /\ status' = [status EXCEPT ![n] = final, ![p] = IF wake THEN "waiting" ELSE @]
    BY <1>6 DEF Settle
  <2> HIDE DEF p, wake, left, doom, release
  <2>3. /\ deps'[p] = left /\ \A m \in Nodes \ {p} : deps'[m] = deps[m]
        /\ status'[n] = final
        /\ status'[p] = IF wake THEN "waiting" ELSE status[p]
        /\ \A m \in Nodes \ {n, p} : status'[m] = status[m]
    BY <1>1, <2>1, <2>2
  <2>4. wake => status[p] = "waiting-children"
    BY DEF wake
  <2>5. \A c \in Nodes \ {n} : /\ status'[c] = "completed" <=> status[c] = "completed"
                               /\ status'[c] = "failed" <=> status[c] = "failed"
    BY <2>3, <2>4
  <2>6. \A c \in Nodes \ {n} : Settled(c)' <=> Settled(c)
    BY <1>2, <2>5 DEF Settled
  <2>7. ~ Settled(n) /\ (Settled(n)' <=> release)
    BY <1>2, <2>3, OptionsExact DEF Settled, release, Terminal
  <2>8. ASSUME NEW m \in Nodes
        PROVE  deps'[m] = {c \in Children(m) : ~ Settled(c)'}
    <3>1. CASE m = p
      <4>1. \A c \in Children(p) : c \in Nodes
        BY <2>1, Tree
      <4> QED
        BY <1>3, <2>1, <2>3, <2>6, <2>7, <3>1, <4>1 DEF left
    <3>2. CASE m # p
      <4>1. \A c \in Children(m) : c \in Nodes /\ c # n
        BY <2>1, <3>2, Tree
      <4> QED
        BY <1>3, <2>3, <2>6, <3>2, <4>1
    <3> QED
      BY <3>1, <3>2
  <2>9. ASSUME NEW m \in Nodes, status[m] = "waiting-children"
        PROVE  FatallyFailed(m)' <=> m = p /\ doom
    <3>1. ~ FatallyFailed(m) /\ Children(m)' = Children(m)
      BY <1>4, <2>9 DEF Children
    <3>2. CASE n = "charge-payment"
      <4>1. n \in Children(m) <=> m = p
        BY <2>1, Tree
      <4> QED
        BY <2>3, <3>1, <3>2, <4>1, OptionsExact DEF FatallyFailed, doom
    <3>3. CASE n # "charge-payment"
      <4>1. ~ doom
        BY <3>3, OptionsExact DEF doom
      <4>2. status'["charge-payment"] = "failed" <=> status["charge-payment"] = "failed"
        BY <1>2, <2>5, <3>3
      <4> QED
        BY <3>1, <4>1, <4>2 DEF FatallyFailed
    <3> QED
      BY <3>2, <3>3
  <2>10. ASSUME NEW m \in Nodes \ {n}, status[m] = "waiting-children"
         PROVE  status'[m] = IF deps'[m] = {} \/ FatallyFailed(m)' THEN "waiting" ELSE "waiting-children"
    <3>1. CASE m = p
      <4>1. wake <=> deps'[m] = {} \/ FatallyFailed(m)'
        BY <2>3, <2>9, <2>10, <3>1 DEF wake
      <4> QED
        BY <2>3, <2>10, <3>1, <4>1
    <3>2. CASE m # p
      <4>1. status'[m] = status[m] /\ deps'[m] # {} /\ ~ FatallyFailed(m)'
        BY <1>4, <2>3, <2>9, <2>10, <3>2
      <4> QED
        BY <2>10, <4>1
    <3> QED
      BY <3>1, <3>2
  <2>11. \A m \in Nodes \ {n} : status[m] # "waiting-children" => status'[m] = status[m]
    BY <2>3, <2>4
  <2> QED
    BY <2>3, <2>8, <2>10, <2>11
<1> QED
  BY <1>5, <1>6

\* The mapped phases say whether a job has ended, and how.
LEMMA Phases ==
  \A n : /\ Phase(n) = "completed" <=> status[n] = "completed"
         /\ Phase(n) = "failed" <=> status[n] = "failed"
         /\ Phase(n) = "waits" <=> status[n] = "waiting-children"
         /\ Phase(n) = "absent" <=> status[n] = "none"
         /\ status[n] \in {"waiting", "active", "delayed"} => Phase(n) = "ready"
BY DEF Phase, Terminal

Flow == [n \in Nodes |-> Phase(n)]

\* What the abstract tree calls allowed and doomed, of any phases that tell how
\* the children ended.
LEMMA AllowedIs ==
  ASSUME NEW ph, NEW st, NEW n \in Nodes,
         \A c \in Nodes : /\ ph[c] = "completed" <=> st[c] = "completed"
                          /\ ph[c] = "failed" <=> st[c] = "failed"
  PROVE  /\ Dependencies!Allowed(ph, n) <=>
              \A c \in Children(n) :
                st[c] = "completed" \/ (c = "charge-payment" /\ Optional /\ st[c] = "failed")
         /\ Dependencies!Doomed(ph, n) <=>
              /\ "charge-payment" \in Children(n) /\ plan.variant = "failParent"
              /\ st["charge-payment"] = "failed"
<1>1. \A c \in Children(n) : c \in Nodes
  BY Tree
<1>2. \A c : /\ c \in Payment("ignoreDependency") <=> c = "charge-payment" /\ Optional
             /\ c \in Payment("failParent") <=> c = "charge-payment" /\ plan.variant = "failParent"
  BY DEF Payment, Optional
<1>3. [m \in Nodes |-> Children(m)][n] = Children(n)
  OBVIOUS
<1>4. Dependencies!Allowed(ph, n) <=>
        \A c \in Children(n) :
          st[c] = "completed" \/ (c = "charge-payment" /\ Optional /\ st[c] = "failed")
  BY <1>1, <1>2, <1>3 DEF Dependencies!Allowed
<1>5. Dependencies!Doomed(ph, n) <=>
        /\ "charge-payment" \in Children(n) /\ plan.variant = "failParent"
        /\ st["charge-payment"] = "failed"
  BY <1>1, <1>2, <1>3 DEF Dependencies!Doomed
<1> QED
  BY <1>4, <1>5

\* The phases before and after a step, and the flags of the launch.
LEMMA Mapped ==
  ASSUME plan' = plan
  PROVE  /\ Payment("ignoreDependency")' = Payment("ignoreDependency")
         /\ Payment("failParent")' = Payment("failParent")
         /\ Flow' = [n \in Nodes |-> Phase(n)']
<1>1. Nodes' = Nodes
  BY DEF Nodes, Root
<1> QED
  BY <1>1 DEF Payment, Flow

\* A node that ends is an End of the tree.
LEMMA SettleIsEnd ==
  ASSUME Inv, Exacts, NEW n \in Nodes, NEW final \in Terminal,
         status[n] = "active", plan' = plan, Settle(n, final),
         final = "completed" => hand[n] = "ok"
  PROVE  Exacts' /\ Dependencies!End(n, final)
<1> DEFINE ended == [Flow EXCEPT ![n] = final]
<1>1. /\ status'[n] = final
      /\ \A m \in Nodes \ {n} : status[m] # "waiting-children" => status'[m] = status[m]
      /\ \A m \in Nodes \ {n} : status[m] = "waiting-children" =>
           status'[m] = IF deps'[m] = {} \/ FatallyFailed(m)' THEN "waiting" ELSE "waiting-children"
      /\ \A m \in Nodes : deps'[m] = {c \in Children(m) : ~ Settled(c)'}
  BY SettleExact
<1>2. Exacts'
  <2>1. ASSUME NEW m \in Nodes
        PROVE  Exact(m)'
    <3>1. Children(m)' = Children(m)
      BY DEF Children
    <3>2. status'[m] = "waiting-children" => m # n /\ status[m] = "waiting-children"
      BY <1>1 DEF Terminal
    <3>3. status'[m] = "waiting-children" => deps'[m] # {} /\ ~ FatallyFailed(m)'
      BY <1>1, <3>2
    <3> QED
      BY <1>1, <3>1, <3>3 DEF Exact
  <2>2. Nodes' = Nodes
    BY DEF Nodes, Root
  <2> QED
    BY <2>1, <2>2 DEF Exacts
<1>3. \A c \in Nodes : /\ ended[c] = "completed" <=> status'[c] = "completed"
                       /\ ended[c] = "failed" <=> status'[c] = "failed"
  <2> SUFFICES ASSUME NEW c \in Nodes
               PROVE  /\ ended[c] = "completed" <=> status'[c] = "completed"
                      /\ ended[c] = "failed" <=> status'[c] = "failed"
    OBVIOUS
  <2>1. CASE c = n
    BY <1>1, <2>1 DEF Flow
  <2>2. CASE c # n
    <3>1. ended[c] = Phase(c)
      BY <2>2 DEF Flow
    <3> QED
      BY <1>1, <2>2, <3>1, Phases
  <2> QED
    BY <2>1, <2>2
<1>4. ASSUME NEW m \in Nodes
      PROVE  Dependencies!Allowed(ended, m) \/ Dependencies!Doomed(ended, m)
             <=> deps'[m] = {} \/ FatallyFailed(m)'
  <2>1. deps'[m] = {} <=> \A c \in Children(m) : Settled(c)'
    BY <1>1
  <2>2. /\ Dependencies!Allowed(ended, m) <=>
             \A c \in Children(m) :
               status'[c] = "completed" \/ (c = "charge-payment" /\ Optional /\ status'[c] = "failed")
        /\ Dependencies!Doomed(ended, m) <=>
             /\ "charge-payment" \in Children(m) /\ plan.variant = "failParent"
             /\ status'["charge-payment"] = "failed"
    <3> HIDE DEF ended
    <3> QED
      BY <1>3, AllowedIs
  <2>3. Children(m)' = Children(m) /\ (Optional' <=> Optional)
    BY DEF Children, Optional
  <2>4. Dependencies!Allowed(ended, m) <=> \A c \in Children(m) : Settled(c)'
    BY <2>2, <2>3 DEF Settled
  <2>5. Dependencies!Doomed(ended, m) <=> FatallyFailed(m)'
    BY <2>2, <2>3 DEF FatallyFailed
  <2> QED
    BY <2>1, <2>4, <2>5
<1>5. ASSUME NEW m \in Nodes
      PROVE  Phase(m)' = IF Flow[m] = "waits" /\ (Dependencies!Allowed(ended, m) \/ Dependencies!Doomed(ended, m))
                         THEN "ready" ELSE ended[m]
  <2>1. Flow[m] = Phase(m)
    BY DEF Flow
  <2>2. CASE m = n
    <3>1. Phase(n) = "ready" /\ ended[n] = final
      BY Phases DEF Flow
    <3>2. Phase(n)' = final
      BY <1>1 DEF Phase, Terminal
    <3> QED
      BY <2>1, <2>2, <3>1, <3>2
  <2>3. CASE m # n /\ status[m] = "waiting-children"
    <3>1. Phase(m) = "waits" /\ ended[m] = "waits"
      BY <2>3, Phases DEF Flow
    <3>2. status'[m] = IF deps'[m] = {} \/ FatallyFailed(m)' THEN "waiting" ELSE "waiting-children"
      BY <1>1, <2>3
    <3>3. CASE deps'[m] = {} \/ FatallyFailed(m)'
      <4>1. Phase(m)' = "ready"
        BY <3>2, <3>3 DEF Phase, Terminal
      <4> QED
        BY <1>4, <2>1, <3>1, <3>3, <4>1
    <3>4. CASE ~ (deps'[m] = {} \/ FatallyFailed(m)')
      <4>1. Phase(m)' = "waits"
        BY <3>2, <3>4 DEF Phase, Terminal
      <4> QED
        BY <1>4, <2>1, <3>1, <3>4, <4>1
    <3> QED
      BY <3>3, <3>4
  <2>4. CASE m # n /\ status[m] # "waiting-children"
    <3>1. Phase(m) # "waits" /\ ended[m] = Phase(m)
      BY <2>4, Phases DEF Flow
    <3>2. status'[m] = status[m]
      BY <1>1, <2>4
    <3>3. Phase(m)' = Phase(m)
      BY <3>2 DEF Phase, Terminal
    <3> QED
      BY <2>1, <3>1, <3>3
  <2> QED
    BY <2>2, <2>3, <2>4
<1>6. final = "completed" => Dependencies!Allowed(Flow, n)
  <2> SUFFICES ASSUME final = "completed" PROVE Dependencies!Allowed(Flow, n)
    OBVIOUS
  <2>1. Woken(n) /\ hand[n] = "ok"
    BY DEF Inv, NodeInv
  <2>2. deps[n] = {}
    BY <2>1 DEF Woken, Waits
  <2>3. Launched
    BY IsLaunched
  <2>4. \A c \in Children(n) : Settled(c)
    BY <2>2, <2>3 DEF Exacts, Exact
  <2>5. \A c \in Nodes : /\ Flow[c] = "completed" <=> status[c] = "completed"
                         /\ Flow[c] = "failed" <=> status[c] = "failed"
    BY Phases DEF Flow
  <2> QED
    BY <2>4, <2>5, AllowedIs DEF Settled
<1>7. Flow[n] = "ready"
  BY Phases DEF Flow
<1>8. Flow' = [m \in Nodes |->
        IF Flow[m] = "waits" /\ (Dependencies!Allowed(ended, m) \/ Dependencies!Doomed(ended, m))
        THEN "ready" ELSE ended[m]]
  BY <1>5, Mapped
<1>9. Dependencies!End(n, final)
  <2>1. Phase(n)' = final
    BY <1>1 DEF Phase, Terminal
  <2>2. Flow'[n] = final
    BY <2>1, Mapped
  <2> QED
    BY <1>6, <1>7, <1>8, <2>2, Mapped DEF Dependencies!End, Flow
<1> QED
  BY <1>2, <1>9

\* A node that goes on without ending is none of the tree's business.
LEMMA GoesOn ==
  ASSUME Exacts, NEW n \in Nodes, plan' = plan, deps' = deps,
         {status[n], status'[n]} \subseteq {"waiting", "active", "delayed"},
         \A m \in Nodes \ {n} : status'[m] = status[m]
  PROVE  Exacts' /\ UNCHANGED Dependencies!vars
<1>1. \A m \in Nodes : /\ status'[m] = "completed" <=> status[m] = "completed"
                       /\ status'[m] = "failed" <=> status[m] = "failed"
                       /\ status'[m] = "waiting-children" <=> status[m] = "waiting-children"
                       /\ Phase(m)' = Phase(m)
  <2> SUFFICES ASSUME NEW m \in Nodes
               PROVE  /\ status'[m] = "completed" <=> status[m] = "completed"
                      /\ status'[m] = "failed" <=> status[m] = "failed"
                      /\ status'[m] = "waiting-children" <=> status[m] = "waiting-children"
                      /\ Phase(m)' = Phase(m)
    OBVIOUS
  <2>1. CASE m = n
    BY <2>1 DEF Phase, Terminal
  <2>2. CASE m # n
    BY <2>2 DEF Phase, Terminal
  <2> QED
    BY <2>1, <2>2
<1>2. Exacts'
  <2>1. /\ Nodes' = Nodes /\ (Optional' <=> Optional) /\ (Launched' <=> Launched)
        /\ "charge-payment" \in Nodes
    BY DEF Nodes, Root, Optional, Launched
  <2>2. ASSUME NEW m \in Nodes
        PROVE  Exact(m)'
    <3>1. Children(m)' = Children(m) /\ \A c \in Children(m) : c \in Nodes
      BY Tree DEF Children
    <3>2. \A c \in Nodes : Settled(c)' <=> Settled(c)
      BY <1>1, <2>1 DEF Settled
    <3>3. FatallyFailed(m)' <=> FatallyFailed(m)
      BY <1>1, <2>1, <3>1 DEF FatallyFailed
    <3>4. Launched => deps[m] = {c \in Children(m) : ~ Settled(c)'}
      BY <3>1, <3>2 DEF Exacts, Exact
    <3>5. status[m] = "waiting-children" => deps[m] # {} /\ ~ FatallyFailed(m)
      BY DEF Exacts, Exact
    <3> QED
      BY <1>1, <2>1, <3>1, <3>3, <3>4, <3>5 DEF Exact
  <2> QED
    BY <2>1, <2>2 DEF Exacts
<1>3. UNCHANGED Dependencies!vars
  BY <1>1, Mapped DEF Dependencies!vars, Flow
<1> QED
  BY <1>2, <1>3

LEMMA QuietTree ==
  ASSUME Exacts, UNCHANGED redis
  PROVE  Exacts' /\ UNCHANGED Dependencies!vars
<1>1. plan' = plan /\ status' = status /\ deps' = deps
  BY DEF redis
<1>2. Exacts'
  BY <1>1 DEF Exacts, Exact, Settled, FatallyFailed, Launched, Optional, Children, Nodes, Root
<1>3. \A n : Phase(n)' = Phase(n)
  BY <1>1 DEF Phase, Terminal
<1>4. UNCHANGED Dependencies!vars
  BY <1>1, <1>3, Mapped DEF Dependencies!vars, Flow
<1> QED
  BY <1>2, <1>4

LEMMA LaunchIsAdd ==
  ASSUME Inv, NEW p \in Plans, Launch(p)
  PROVE  Exacts' /\ Dependencies!Add
<1>1. \A n \in Nodes : status[n] = "none"
  BY DEF Inv, NodeInv, Held, Launch, Launched
<1>2. /\ status' = [n \in Nodes |-> IF Children(n) = {} THEN "waiting" ELSE "waiting-children"]
      /\ deps' = [n \in Nodes |-> Children(n)]
  BY DEF Launch, Added
<1>3. Exacts'
  <2>1. \A c \in Nodes : ~ Settled(c)'
    BY <1>2 DEF Settled
  <2>2. ASSUME NEW m \in Nodes
        PROVE  Exact(m)'
    <3>1. Children(m)' = Children(m) /\ \A c \in Children(m) : c \in Nodes
      BY Tree DEF Children
    <3>2. deps'[m] = {c \in Children(m) : ~ Settled(c)'}
      BY <1>2, <2>1, <3>1
    <3>3. status'[m] = "waiting-children" => deps'[m] # {}
      BY <1>2
    <3>4. ~ FatallyFailed(m)'
      BY <1>2, <3>1, Tree DEF FatallyFailed, Nodes
    <3> QED
      BY <3>1, <3>2, <3>3, <3>4 DEF Exact
  <2>3. Nodes' = Nodes
    BY DEF Nodes, Root
  <2> QED
    BY <2>2, <2>3 DEF Exacts
<1>4. \A n \in Nodes : Flow[n] = "absent"
  BY <1>1, Phases DEF Flow
<1>5. Flow' = [n \in Nodes |-> IF [m \in Nodes |-> Children(m)][n] = {} THEN "ready" ELSE "waits"]
  <2>1. ASSUME NEW n \in Nodes
        PROVE  Phase(n)' = IF Children(n) = {} THEN "ready" ELSE "waits"
    <3>1. status'[n] = IF Children(n) = {} THEN "waiting" ELSE "waiting-children"
      BY <1>2
    <3>2. CASE Children(n) = {}
      BY <3>1, <3>2 DEF Phase, Terminal
    <3>3. CASE Children(n) # {}
      BY <3>1, <3>3 DEF Phase, Terminal
    <3> QED
      BY <3>2, <3>3
  <2>2. Nodes' = Nodes
    BY DEF Nodes, Root
  <2> QED
    BY <2>1, <2>2 DEF Flow
<1>6. /\ Payment("ignoreDependency")' \in SUBSET Nodes
      /\ Payment("failParent")' \in SUBSET (Nodes \ Payment("ignoreDependency")')
  <2>1. Payment("ignoreDependency")' \in SUBSET Nodes
    BY DEF Payment, Nodes
  <2>2. Payment("failParent")' \in SUBSET (Nodes \ Payment("ignoreDependency")')
    BY DEF Payment, Nodes
  <2> QED
    BY <2>1, <2>2
<1>7. Dependencies!Add
  BY <1>4, <1>5, <1>6 DEF Dependencies!Add, Flow
<1> QED
  BY <1>3, <1>7

\* Every step of the flow is one of the tree's, or none.
LEMMA TreeStep ==
  ASSUME Inv, Exacts, [Next]_vars
  PROVE  Exacts' /\ (Dependencies!Next \/ UNCHANGED Dependencies!vars)
<1>1. TypeOK /\ \A n \in Nodes : hand[n] # "none" => status[n] = "active"
  BY DEF Inv, NodeInv, Held
<1>2. CASE LaunchFlow \/ LaunchBulk
  BY <1>2, LaunchIsAdd DEF LaunchFlow, LaunchBulk, Dependencies!Next
<1>3. ASSUME NEW n \in Nodes, Fetch(n)
      PROVE  Exacts' /\ UNCHANGED Dependencies!vars
  <2>1. /\ status[n] = "waiting" /\ status' = [status EXCEPT ![n] = "active"]
        /\ plan' = plan /\ deps' = deps
    BY <1>3 DEF Fetch
  <2>2. status'[n] = "active" /\ \A m \in Nodes \ {n} : status'[m] = status[m]
    BY <1>1, <2>1 DEF TypeOK
  <2> QED
    BY <2>1, <2>2, GoesOn
<1>4. ASSUME NEW n \in Nodes, Promote(n)
      PROVE  Exacts' /\ UNCHANGED Dependencies!vars
  <2>1. /\ status[n] = "delayed" /\ status' = [status EXCEPT ![n] = "waiting"]
        /\ plan' = plan /\ deps' = deps
    BY <1>4 DEF Promote
  <2>2. status'[n] = "waiting" /\ \A m \in Nodes \ {n} : status'[m] = status[m]
    BY <1>1, <2>1 DEF TypeOK
  <2> QED
    BY <2>1, <2>2, GoesOn
<1>5. ASSUME NEW n \in Nodes, Complete(n)
      PROVE  Exacts' /\ Dependencies!Next
  <2>1. /\ hand[n] = "ok" /\ status[n] = "active" /\ plan' = plan
        /\ Settle(n, "completed") /\ "completed" \in Terminal
    BY <1>1, <1>5 DEF Complete, Terminal
  <2> QED
    BY <2>1, SettleIsEnd DEF Dependencies!Next
<1>6. ASSUME NEW n \in Nodes, FailAttempt(n)
      PROVE  Exacts' /\ (Dependencies!Next \/ UNCHANGED Dependencies!vars)
  <2>1. hand[n] = "error" /\ status[n] = "active" /\ plan' = plan /\ "failed" \in Terminal
    BY <1>1, <1>6 DEF FailAttempt, Terminal
  <2>2. CASE status' = [status EXCEPT ![n] = "delayed"] /\ deps' = deps
    <3>1. status'[n] = "delayed" /\ \A m \in Nodes \ {n} : status'[m] = status[m]
      BY <1>1, <2>2 DEF TypeOK
    <3> QED
      BY <2>1, <2>2, <3>1, GoesOn
  <2>3. CASE Settle(n, "failed")
    BY <2>1, <2>3, SettleIsEnd DEF Dependencies!Next
  <2> QED
    BY <1>6, <2>2, <2>3 DEF FailAttempt
<1>7. ASSUME NEW n \in Nodes, Stalled(n)
      PROVE  Exacts' /\ (Dependencies!Next \/ UNCHANGED Dependencies!vars)
  <2>1. status[n] = "active" /\ plan' = plan /\ "failed" \in Terminal
    BY <1>7 DEF Stalled, Terminal
  <2>2. CASE status' = [status EXCEPT ![n] = "waiting"] /\ deps' = deps
    <3>1. status'[n] = "waiting" /\ \A m \in Nodes \ {n} : status'[m] = status[m]
      BY <1>1, <2>2 DEF TypeOK
    <3> QED
      BY <2>1, <2>2, <3>1, GoesOn
  <2>3. CASE Settle(n, "failed")
    BY <2>1, <2>3, SettleIsEnd DEF Dependencies!Next
  <2> QED
    BY <1>7, <2>2, <2>3 DEF Stalled
<1>8. CASE \/ \E n \in Nodes : Run(n) \/ Refuse(n) \/ ReadNode(n)
           \/ Crash \/ OpenPage \/ Answer \/ UNCHANGED vars
  <2>1. UNCHANGED redis
    BY <1>8 DEF Run, Refuse, ReadNode, Crash, OpenPage, Answer, vars
  <2> QED
    BY <2>1, QuietTree
<1> QED
  BY <1>2, <1>3, <1>4, <1>5, <1>6, <1>7, <1>8 DEF Next

LEMMA TreeInit == Init => Exacts /\ Dependencies!Init
<1> SUFFICES ASSUME Init PROVE Exacts /\ Dependencies!Init
  OBVIOUS
<1>1. \A n \in Nodes : status[n] = "none" /\ ~ Launched
  BY DEF Init, Launched
<1>2. Exacts
  BY <1>1 DEF Exacts, Exact
<1>3. Flow = [n \in Nodes |-> "absent"]
  BY <1>1, Phases DEF Flow
<1>4. Payment("ignoreDependency") = {} /\ Payment("failParent") = {}
  BY DEF Init, Payment, NoPlan
<1> QED
  BY <1>2, <1>3, <1>4 DEF Dependencies!Init, Flow

-----------------------------------------------------------------------------
(* The theorems *)

LEMMA InitInv == Init => Inv
<1> SUFFICES ASSUME Init PROVE Inv
  OBVIOUS
<1>1. /\ plan = NoPlan /\ status = [n \in Nodes |-> "none"] /\ deps = [n \in Nodes |-> {}]
      /\ doomed = [n \in Nodes |-> FALSE] /\ made = [n \in Nodes |-> 0]
      /\ stalls = [n \in Nodes |-> 0] /\ hand = [n \in Nodes |-> "none"]
      /\ trace = <<>> /\ crashes = 0 /\ view = [n \in Nodes |-> "unread"] /\ page = "off"
  BY DEF Init, Unread
<1>2. TypeOK
  <2>1. plan \in Plans \cup {NoPlan} /\ status \in [Nodes -> Statuses \cup {"none"}]
        /\ deps \in [Nodes -> SUBSET Nodes]
    BY <1>1
  <2>2. doomed \in [Nodes -> BOOLEAN] /\ made \in [Nodes -> 0 .. DefaultAttempts]
        /\ stalls \in [Nodes -> 0 .. MaxStalledCount + 1]
    BY <1>1
  <2>3. hand \in [Nodes -> {"none", "fetched", "ok", "error"}]
        /\ view \in [Nodes -> Statuses \cup {"unread"}] /\ page \in {"off", "reading", "final"}
    BY <1>1
  <2>4. trace \in Seq(Nodes) /\ Len(trace) <= TraceCapacity /\ crashes \in 0 .. MaxCrashes
    BY <1>1
  <2> QED
    BY <2>1, <2>2, <2>3, <2>4 DEF TypeOK
<1>3. ASSUME NEW n \in Nodes
      PROVE  NodeInv(n)
  <2>1. /\ status[n] = "none" /\ hand[n] = "none" /\ doomed[n] = FALSE
        /\ made[n] = 0 /\ stalls[n] = 0 /\ ~ Launched
    BY <1>1 DEF Launched
  <2>2. 0 < Opts(n).attempts /\ 0 <= MaxStalledCount
    <3>1. Opts(n).attempts \in 1 .. DefaultAttempts
      BY Options
    <3> QED
      BY <3>1
  <2>3. Held(n)
    BY <2>1, <2>2 DEF Held
  <2>4. Woken(n)
    BY <2>1 DEF Woken, Waits
  <2>5. Released(n)
    BY <2>1 DEF Released
  <2> QED
    BY <2>3, <2>4, <2>5 DEF NodeInv
<1>4. ViewInv
  <2>1. page = "off" /\ \A n \in Nodes : view[n] = "unread"
    BY <1>1
  <2> QED
    BY <2>1, Tree DEF ViewInv, Terminal
<1>5. TraceInv
  <2>1. DOMAIN trace = {}
    BY <1>1
  <2> QED
    BY <2>1 DEF TraceInv, InTrace, TraceOrdersNodes, ExecutionTrace
<1> QED
  BY <1>2, <1>3, <1>4, <1>5 DEF Inv

LEMMA NextInv == Inv /\ [Next]_vars => Inv'
<1> SUFFICES ASSUME Inv, [Next]_vars PROVE Inv'
  OBVIOUS
<1>1. CASE LaunchFlow \/ LaunchBulk
  BY <1>1, LaunchInv DEF LaunchFlow, LaunchBulk
<1>2. CASE \E n \in Nodes : Fetch(n)
  BY <1>2, FetchInv
<1>3. CASE \E n \in Nodes : Run(n)
  BY <1>3, RunInv
<1>4. CASE \E n \in Nodes : Refuse(n)
  BY <1>4, RefuseInv
<1>5. CASE \E n \in Nodes : Complete(n)
  BY <1>5, CompleteInv
<1>6. CASE \E n \in Nodes : FailAttempt(n)
  BY <1>6, FailAttemptInv
<1>7. CASE \E n \in Nodes : Promote(n)
  BY <1>7, PromoteInv
<1>8. CASE \E n \in Nodes : Stalled(n)
  BY <1>8, StalledInv
<1>9. CASE Crash
  BY <1>9, CrashInv
<1>10. CASE \E n \in Nodes : ReadNode(n)
  BY <1>10, ReadNodeInv
<1>11. CASE OpenPage
  BY <1>11, OpenPageInv
<1>12. CASE Answer
  BY <1>12, AnswerInv
<1>13. CASE UNCHANGED vars
  <2>1. /\ plan' = plan /\ status' = status /\ deps' = deps /\ doomed' = doomed
        /\ made' = made /\ stalls' = stalls /\ hand' = hand /\ trace' = trace
        /\ crashes' = crashes /\ view' = view /\ page' = page
    BY <1>13 DEF vars, redis, web
  <2>2. TypeOK'
    BY <2>1 DEF Inv, TypeOK
  <2>3. Stable
    BY <2>1 DEF Stable
  <2>4. \A m \in Nodes : NodeInv(m)'
    BY <2>1, Quiet DEF redis
  <2> QED
    BY <2>1, <2>2, <2>3, <2>4, InvAfter
<1> QED
  BY <1>1, <1>2, <1>3, <1>4, <1>5, <1>6, <1>7, <1>8, <1>9, <1>10, <1>11, <1>12, <1>13 DEF Next

LEMMA Invariance == Spec => []Inv
BY InitInv, NextInv, PTL DEF Spec

-----------------------------------------------------------------------------
(* Why a job failed *)

\* One stall too many, the last attempt of a declined payment, or its flag.
Excused(n) ==
  \/ stalls[n] > MaxStalledCount
  \/ n = "charge-payment" /\ plan.declined /\ made[n] = Opts(n).attempts
  \/ n = Root /\ plan.variant = "failParent" /\ status["charge-payment"] = "failed"

\* An error in hand comes from the payment or from a doomed root.
Excuse(n) ==
  /\ hand[n] = "error" => doomed[n] \/ (n = "charge-payment" /\ plan.declined)
  /\ n = "charge-payment" /\ (hand[n] = "ok" \/ status[n] = "completed") => ~ plan.declined
  /\ status[n] = "failed" => Excused(n)

Excuses == \A n \in Nodes : Excuse(n)

\* A step that handles node n alone leaves the other nodes their excuses: what
\* has ended stays, and a node is doomed for good.
Handles(n) ==
  /\ Launched /\ Stable /\ Others(n)
  /\ \A m \in Nodes : doomed[m] => doomed'[m]
  /\ \A m \in Nodes \ {n} : status'[m] \in Terminal => status'[m] = status[m]

LEMMA HandlesOthers ==
  ASSUME Inv, Excuses, NEW n \in Nodes, Handles(n), NEW m \in Nodes \ {n}
  PROVE  Excuse(m)'
<1>1. /\ plan' = plan /\ hand'[m] = hand[m] /\ made'[m] = made[m] /\ stalls'[m] = stalls[m]
      /\ doomed[m] => doomed'[m]
      /\ status'[m] \in Terminal => status'[m] = status[m]
      /\ Opts(m)' = Opts(m)
  BY SameOptions DEF Handles, Others
<1>2. Excuse(m) /\ "charge-payment" \in Nodes
  BY DEF Excuses, Nodes
<1>3. status["charge-payment"] = "failed" => status'["charge-payment"] = "failed"
  BY <1>2 DEF Handles, Stable, Ended, Terminal
<1>4. status'[m] = "failed" => Excused(m)'
  <2> SUFFICES ASSUME status'[m] = "failed" PROVE Excused(m)'
    OBVIOUS
  <2>1. Excused(m)
    BY <1>1, <1>2 DEF Excuse, Terminal
  <2> QED
    BY <1>1, <1>3, <2>1 DEF Excused
<1>5. status'[m] = "completed" => status[m] = "completed"
  BY <1>1 DEF Terminal
<1> QED
  BY <1>1, <1>2, <1>4, <1>5 DEF Excuse

LEMMA HandlesAll ==
  ASSUME Inv, Excuses, NEW n \in Nodes, Handles(n), Excuse(n)'
  PROVE  Excuses'
<1>1. \A m \in Nodes : Excuse(m)'
  BY HandlesOthers
<1>2. Nodes' = Nodes
  BY DEF Nodes, Root
<1> QED
  BY <1>1, <1>2 DEF Excuses

LEMMA GoesHandles ==
  ASSUME Inv, NEW n \in Nodes, Goes(n), Others(n)
  PROVE  Handles(n)
<1>1. status[n] # "none"
  BY DEF Goes, Waits
<1> QED
  BY <1>1, IsLaunched, GoesStable DEF Handles, Goes

LEMMA EndsHandles ==
  ASSUME Inv, NEW n \in Nodes, NEW final \in Terminal,
         status[n] = "active", Ends(n, final), Others(n)
  PROVE  Handles(n)
<1>1. Launched /\ Stable
  BY IsLaunched, EndsStable
<1>2. \A m \in Nodes : doomed[m] => doomed'[m]
  BY DEF Ends
<1>3. \A m \in Nodes \ {n} : status'[m] \in Terminal => status'[m] = status[m]
  BY DEF Ends, Terminal
<1> QED
  BY <1>1, <1>2, <1>3 DEF Handles

\* A node moved without ending, whatever its slot does.
LEMMA MovesHandles ==
  ASSUME Inv, NEW n \in Nodes, ~ Ended(n), status[n] # "none", Others(n),
         \A m \in Nodes \ {n} : status'[m] = status[m], doomed' = doomed
  PROVE  Handles(n)
BY IsLaunched DEF Handles, Stable

LEMMA FetchExcuses ==
  ASSUME Inv, Excuses, NEW n \in Nodes, Fetch(n)
  PROVE  Excuses'
<1>1. TypeOK /\ status[n] = "waiting"
  BY NodeFacts DEF Fetch
<1>2. /\ status' = [status EXCEPT ![n] = "active"] /\ hand' = [hand EXCEPT ![n] = "fetched"]
      /\ plan' = plan /\ doomed' = doomed /\ made' = made /\ stalls' = stalls
  BY DEF Fetch
<1>3. /\ status'[n] = "active" /\ hand'[n] = "fetched"
      /\ \A m \in Nodes \ {n} : status'[m] = status[m] /\ hand'[m] = hand[m]
  BY <1>1, <1>2 DEF TypeOK
<1>4. Handles(n)
  <2>1. Others(n) /\ ~ Ended(n)
    BY <1>1, <1>2, <1>3 DEF Others, Ended, Terminal
  <2> QED
    BY <1>1, <1>2, <1>3, <2>1, MovesHandles
<1>5. Excuse(n)'
  BY <1>3 DEF Excuse
<1> QED
  BY <1>4, <1>5, HandlesAll

LEMMA PromoteExcuses ==
  ASSUME Inv, Excuses, NEW n \in Nodes, Promote(n)
  PROVE  Excuses'
<1>1. TypeOK /\ status[n] = "delayed" /\ hand[n] = "none"
  BY NodeFacts DEF Promote
<1>2. /\ status' = [status EXCEPT ![n] = "waiting"] /\ hand' = hand
      /\ plan' = plan /\ doomed' = doomed /\ made' = made /\ stalls' = stalls
  BY DEF Promote
<1>3. /\ status'[n] = "waiting" /\ hand'[n] = "none"
      /\ \A m \in Nodes \ {n} : status'[m] = status[m] /\ hand'[m] = hand[m]
  BY <1>1, <1>2 DEF TypeOK
<1>4. Handles(n)
  <2>1. Others(n) /\ ~ Ended(n)
    BY <1>1, <1>2, <1>3 DEF Others, Ended, Terminal
  <2> QED
    BY <1>1, <1>2, <1>3, <2>1, MovesHandles
<1>5. Excuse(n)'
  BY <1>3 DEF Excuse
<1> QED
  BY <1>4, <1>5, HandlesAll

\* Only the payment's handler throws, and only for a declined order.
LEMMA RunHand ==
  ASSUME TypeOK, NEW n \in Nodes, Run(n)
  PROVE  /\ hand'[n] \in {"ok", "error"}
         /\ \A m \in Nodes \ {n} : hand'[m] = hand[m]
         /\ hand'[n] = "error" => n = "charge-payment" /\ plan.declined
         /\ n = "charge-payment" /\ hand'[n] = "ok" => ~ plan.declined
<1>1. CASE Charge(n)
  <2>1. hand' = [hand EXCEPT ![n] = IF plan.declined THEN "error" ELSE "ok"] /\ n = "charge-payment"
    BY <1>1 DEF Charge
  <2>2. hand'[n] = IF plan.declined THEN "error" ELSE "ok"
    BY <2>1 DEF TypeOK
  <2>3. \A m \in Nodes \ {n} : hand'[m] = hand[m]
    BY <2>1 DEF TypeOK
  <2>4. CASE plan.declined
    <3>1. hand'[n] = "error"
      BY <2>2, <2>4
    <3> QED
      BY <2>1, <2>3, <2>4, <3>1
  <2>5. CASE ~ plan.declined
    <3>1. hand'[n] = "ok"
      BY <2>2, <2>5
    <3> QED
      BY <2>3, <2>5, <3>1
  <2> QED
    BY <2>4, <2>5
<1>2. CASE n # "charge-payment" /\ Returns(n)
  <2>1. hand' = [hand EXCEPT ![n] = "ok"]
    BY <1>2 DEF Returns
  <2> QED
    BY <1>2, <2>1 DEF TypeOK
<1> QED
  BY <1>1, <1>2 DEF Run, Fulfill, Reserve, FetchData, Root

LEMMA RunExcuses ==
  ASSUME Inv, Excuses, NEW n \in Nodes, Run(n)
  PROVE  Excuses'
<1>1. TypeOK /\ status[n] = "active"
  BY NodeFacts DEF Run
<1>2. /\ status' = status /\ plan' = plan /\ doomed' = doomed /\ made' = made /\ stalls' = stalls
  BY DEF Run, redis
<1>3. /\ \A m \in Nodes \ {n} : hand'[m] = hand[m]
      /\ hand'[n] = "error" => n = "charge-payment" /\ plan.declined
      /\ n = "charge-payment" /\ hand'[n] = "ok" => ~ plan.declined
  BY <1>1, RunHand
<1>4. Handles(n)
  <2>1. Others(n) /\ ~ Ended(n)
    BY <1>1, <1>2, <1>3 DEF Others, Ended, Terminal
  <2> QED
    BY <1>1, <1>2, <2>1, MovesHandles
<1>5. Excuse(n)'
  BY <1>1, <1>2, <1>3 DEF Excuse
<1> QED
  BY <1>4, <1>5, HandlesAll

LEMMA RefuseExcuses ==
  ASSUME Inv, Excuses, NEW n \in Nodes, Refuse(n)
  PROVE  Excuses'
<1>1. TypeOK /\ status[n] = "active" /\ doomed[n]
  BY NodeFacts DEF Refuse
<1>2. /\ hand' = [hand EXCEPT ![n] = "error"] /\ status' = status
      /\ plan' = plan /\ doomed' = doomed /\ made' = made /\ stalls' = stalls
  BY DEF Refuse, redis
<1>3. hand'[n] = "error" /\ \A m \in Nodes \ {n} : hand'[m] = hand[m]
  BY <1>1, <1>2 DEF TypeOK
<1>4. Handles(n)
  <2>1. Others(n) /\ ~ Ended(n)
    BY <1>1, <1>2, <1>3 DEF Others, Ended, Terminal
  <2> QED
    BY <1>1, <1>2, <2>1, MovesHandles
<1>5. Excuse(n)'
  BY <1>1, <1>2, <1>3 DEF Excuse
<1> QED
  BY <1>4, <1>5, HandlesAll

LEMMA CompleteExcuses ==
  ASSUME Inv, Excuses, NEW n \in Nodes, Complete(n)
  PROVE  Excuses'
<1>1. TypeOK /\ hand[n] = "ok" /\ status[n] = "active"
  BY NodeFacts DEF Complete
<1>2. /\ Settle(n, "completed") /\ hand' = [hand EXCEPT ![n] = "none"]
      /\ plan' = plan /\ made' = made /\ stalls' = stalls
  BY DEF Complete
<1>3. hand'[n] = "none" /\ \A m \in Nodes \ {n} : hand'[m] = hand[m]
  BY <1>1, <1>2 DEF TypeOK
<1>4. "completed" \in Terminal /\ Ends(n, "completed")
  BY <1>1, <1>2, SettleEnds DEF Terminal
<1>5. Others(n)
  BY <1>2, <1>3 DEF Others
<1>6. Handles(n)
  BY <1>1, <1>4, <1>5, EndsHandles
<1>7. Excuse(n)'
  <2>1. status'[n] = "completed"
    BY <1>4 DEF Ends
  <2>2. n = "charge-payment" => ~ plan.declined
    BY <1>1 DEF Excuses, Excuse
  <2> QED
    BY <1>2, <1>3, <2>1, <2>2 DEF Excuse
<1> QED
  BY <1>6, <1>7, HandlesAll

\* A doomed node is the root of a failParent flow whose payment failed.
LEMMA Doomed ==
  ASSUME Inv, NEW n \in Nodes, doomed[n]
  PROVE  n = Root /\ plan.variant = "failParent" /\ status["charge-payment"] = "failed"
BY DEF Inv, NodeInv, Woken

LEMMA FailAttemptExcuses ==
  ASSUME Inv, Excuses, NEW n \in Nodes, FailAttempt(n)
  PROVE  Excuses'
<1>1. /\ TypeOK /\ hand[n] = "error" /\ status[n] = "active"
      /\ made[n] < Opts(n).attempts
      /\ Opts(n).attempts \in 1 .. DefaultAttempts /\ made[n] \in 0 .. DefaultAttempts
  BY NodeFacts DEF FailAttempt
<1>2. /\ hand' = [hand EXCEPT ![n] = "none"] /\ made' = [made EXCEPT ![n] = @ + 1]
      /\ plan' = plan /\ stalls' = stalls
  BY DEF FailAttempt
<1>3. /\ hand'[n] = "none" /\ made'[n] = made[n] + 1
      /\ \A m \in Nodes \ {n} : hand'[m] = hand[m] /\ made'[m] = made[m]
  BY <1>1, <1>2 DEF TypeOK
<1>4. Others(n)
  BY <1>2, <1>3 DEF Others
<1>5. CASE status' = [status EXCEPT ![n] = "delayed"] /\ doomed' = doomed
  <2>1. status'[n] = "delayed" /\ \A m \in Nodes \ {n} : status'[m] = status[m]
    BY <1>1, <1>5 DEF TypeOK
  <2>2. ~ Ended(n)
    BY <1>1 DEF Ended, Terminal
  <2>3. Handles(n)
    BY <1>1, <1>4, <1>5, <2>1, <2>2, MovesHandles
  <2>4. Excuse(n)'
    BY <1>3, <2>1 DEF Excuse
  <2> QED
    BY <2>3, <2>4, HandlesAll
<1>6. CASE Settle(n, "failed") /\ (made[n] + 1 >= Opts(n).attempts \/ doomed[n])
  <2>1. "failed" \in Terminal /\ Ends(n, "failed")
    BY <1>1, <1>6, SettleEnds DEF Terminal
  <2>2. Handles(n)
    BY <1>1, <1>4, <2>1, EndsHandles
  <2>3. status'[n] = "failed" /\ Opts(n)' = Opts(n)
    BY <1>2, <2>1, SameOptions DEF Ends
  <2>4. Excused(n)'
    <3>1. CASE doomed[n]
      <4>1. n = Root /\ plan.variant = "failParent" /\ status["charge-payment"] = "failed"
        BY <3>1, Doomed
      <4>2. status'["charge-payment"] = "failed"
        BY <2>2, <4>1 DEF Handles, Stable, Ended, Terminal, Nodes
      <4> QED
        BY <1>2, <4>1, <4>2 DEF Excused
    <3>2. CASE ~ doomed[n]
      <4>1. n = "charge-payment" /\ plan.declined
        BY <1>1, <3>2 DEF Excuses, Excuse
      <4>2. made'[n] = Opts(n)'.attempts
        BY <1>1, <1>3, <1>6, <2>3, <3>2
      <4> QED
        BY <1>2, <4>1, <4>2 DEF Excused
    <3> QED
      BY <3>1, <3>2
  <2>5. Excuse(n)'
    BY <1>3, <2>3, <2>4 DEF Excuse
  <2> QED
    BY <2>2, <2>5, HandlesAll
<1> QED
  BY <1>5, <1>6 DEF FailAttempt

LEMMA StalledExcuses ==
  ASSUME Inv, Excuses, NEW n \in Nodes, Stalled(n)
  PROVE  Excuses'
<1>1. /\ TypeOK /\ hand[n] = "none" /\ status[n] = "active"
      /\ stalls[n] \in 0 .. MaxStalledCount + 1
  BY NodeFacts DEF Stalled
<1>2. /\ stalls' = [stalls EXCEPT ![n] = @ + 1] /\ plan' = plan /\ made' = made /\ hand' = hand
  BY DEF Stalled
<1>3. stalls'[n] = stalls[n] + 1 /\ \A m \in Nodes \ {n} : stalls'[m] = stalls[m]
  BY <1>1, <1>2 DEF TypeOK
<1>4. Others(n)
  BY <1>2, <1>3 DEF Others
<1>5. CASE status' = [status EXCEPT ![n] = "waiting"] /\ doomed' = doomed
  <2>1. status'[n] = "waiting" /\ \A m \in Nodes \ {n} : status'[m] = status[m]
    BY <1>1, <1>5 DEF TypeOK
  <2>2. ~ Ended(n)
    BY <1>1 DEF Ended, Terminal
  <2>3. Handles(n)
    BY <1>1, <1>4, <1>5, <2>1, <2>2, MovesHandles
  <2>4. Excuse(n)'
    BY <1>1, <1>2, <2>1 DEF Excuse
  <2> QED
    BY <2>3, <2>4, HandlesAll
<1>6. CASE Settle(n, "failed") /\ stalls[n] >= MaxStalledCount
  <2>1. "failed" \in Terminal /\ Ends(n, "failed")
    BY <1>1, <1>6, SettleEnds DEF Terminal
  <2>2. Handles(n)
    BY <1>1, <1>4, <2>1, EndsHandles
  <2>3. status'[n] = "failed"
    BY <2>1 DEF Ends
  <2>4. Excused(n)'
    BY <1>1, <1>3, <1>6 DEF Excused
  <2>5. Excuse(n)'
    BY <1>1, <1>2, <2>3, <2>4 DEF Excuse
  <2> QED
    BY <2>2, <2>5, HandlesAll
<1> QED
  BY <1>5, <1>6 DEF Stalled

\* A step of the page, or none.
LEMMA QuietExcuses ==
  ASSUME Excuses, UNCHANGED <<redis, hand>>
  PROVE  Excuses'
<1>1. /\ plan' = plan /\ status' = status /\ doomed' = doomed
      /\ made' = made /\ stalls' = stalls /\ hand' = hand
  BY DEF redis
<1>2. \A n \in Nodes : Opts(n)' = Opts(n)
  BY <1>1, SameOptions
<1>3. ASSUME NEW n \in Nodes
      PROVE  Excuse(n)'
  BY <1>1, <1>2 DEF Excuses, Excuse, Excused
<1>4. Nodes' = Nodes
  BY DEF Nodes, Root
<1> QED
  BY <1>3, <1>4 DEF Excuses

\* A crash takes the errors in hand with it.
LEMMA CrashExcuses ==
  ASSUME Inv, Excuses, Crash
  PROVE  Excuses'
<1>1. /\ plan' = plan /\ status' = status /\ doomed' = doomed
      /\ made' = made /\ stalls' = stalls /\ \A n \in Nodes : hand'[n] = "none"
  BY DEF Crash, redis
<1>2. \A n \in Nodes : Opts(n)' = Opts(n)
  BY <1>1, SameOptions
<1>3. ASSUME NEW n \in Nodes
      PROVE  Excuse(n)'
  BY <1>1, <1>2 DEF Excuses, Excuse, Excused
<1>4. Nodes' = Nodes
  BY DEF Nodes, Root
<1> QED
  BY <1>3, <1>4 DEF Excuses

\* At the launch nothing has run yet.
LEMMA LaunchExcuses ==
  ASSUME Inv, NEW p \in Plans, Launch(p)
  PROVE  Excuses'
<1>1. \A n \in Nodes : hand[n] = "none"
  BY NodeFacts DEF Launch, Launched, Held
<1>2. hand' = hand /\ Added
  BY DEF Launch
<1>3. \A n \in Nodes : hand'[n] = "none" /\ status'[n] \in {"waiting", "waiting-children"}
  BY <1>1, <1>2 DEF Added
<1>4. ASSUME NEW n \in Nodes
      PROVE  Excuse(n)'
  BY <1>3 DEF Excuse
<1>5. Nodes' = Nodes
  BY DEF Nodes, Root
<1> QED
  BY <1>4, <1>5 DEF Excuses

LEMMA ExcusesInvariance == Spec => [](Inv /\ Excuses)
<1>1. Init => Excuses
  BY DEF Init, Excuses, Excuse
<1>2. Inv /\ Excuses /\ [Next]_vars => Excuses'
  <2> SUFFICES ASSUME Inv, Excuses, [Next]_vars PROVE Excuses'
    OBVIOUS
  <2>1. CASE LaunchFlow \/ LaunchBulk
    BY <2>1, LaunchExcuses DEF LaunchFlow, LaunchBulk
  <2>2. CASE \E n \in Nodes : Fetch(n)
    BY <2>2, FetchExcuses
  <2>3. CASE \E n \in Nodes : Run(n)
    BY <2>3, RunExcuses
  <2>4. CASE \E n \in Nodes : Refuse(n)
    BY <2>4, RefuseExcuses
  <2>5. CASE \E n \in Nodes : Complete(n)
    BY <2>5, CompleteExcuses
  <2>6. CASE \E n \in Nodes : FailAttempt(n)
    BY <2>6, FailAttemptExcuses
  <2>7. CASE \E n \in Nodes : Promote(n)
    BY <2>7, PromoteExcuses
  <2>8. CASE \E n \in Nodes : Stalled(n)
    BY <2>8, StalledExcuses
  <2>9. CASE Crash
    BY <2>9, CrashExcuses
  <2>10. CASE (\E n \in Nodes : ReadNode(n)) \/ OpenPage \/ Answer \/ UNCHANGED vars
    <3>1. UNCHANGED <<redis, hand>>
      BY <2>10 DEF ReadNode, OpenPage, Answer, vars
    <3> QED
      BY <3>1, QuietExcuses
  <2> QED
    BY <2>1, <2>2, <2>3, <2>4, <2>5, <2>6, <2>7, <2>8, <2>9, <2>10 DEF Next
<1> QED
  BY <1>1, <1>2, Invariance, PTL DEF Spec

\* What a declined and a paid order come to in each variant.
LEMMA Declared ==
  ASSUME plan.variant = "ignoreDependency" \/ ~ plan.declined
  PROVE  Outcome(plan) = "completed"
BY DEF Outcome

LEMMA DeclaredFailed ==
  ASSUME plan.variant = "failParent", plan.declined
  PROVE  Outcome(plan) = "failed"
BY DEF Outcome

-----------------------------------------------------------------------------
(* The theorems *)

\* A flow's state has the declared types, whatever budgets and bounds it is
\* given.
THEOREM TypeCorrect == Spec => []TypeOK
<1>1. Inv => TypeOK
  BY DEF Inv
<1> QED
  BY <1>1, Invariance, PTL

\* The root's handler runs only over a payment that was made, or that the
\* launch declared optional -- for any number of retries, stalls and crashes.
THEOREM ShipsPaid == Spec => []ShipsOnlyWhenPaid
<1>1. Inv => ShipsOnlyWhenPaid
  <2> SUFFICES ASSUME Inv, "ship-order" \in {trace[i] : i \in DOMAIN trace}
               PROVE  status["charge-payment"] = "completed" \/ plan.variant = "ignoreDependency"
    BY DEF ShipsOnlyWhenPaid
  <2>1. InTrace(Root)
    BY DEF InTrace, Root
  <2> QED
    BY <2>1 DEF Inv, TraceInv, Optional
<1> QED
  BY <1>1, Invariance, PTL

\* A process's trace keeps the order of the tree under any redelivery and
\* eviction.
THEOREM TraceOrdered == Spec => []TraceOrdersNodes
<1>1. Inv => TraceOrdersNodes
  BY DEF Inv, TraceInv
<1> QED
  BY <1>1, Invariance, PTL

\* However the reads of one answer interleave with the workers, no parent is
\* shown done or running over a child that is not.
THEOREM TreeCausal == Spec => []TreeIsCausal
<1>1. Inv => TreeIsCausal
  BY DEF Inv, ViewInv, TreeIsCausal
<1> QED
  BY <1>1, Invariance, PTL

\* The tree on which the page stops polling is the flow's last state.
THEOREM FinalTreeTrue == Spec => []FinalTreeIsTheTruth
<1>1. Inv => FinalTreeIsTheTruth
  <2> SUFFICES ASSUME Inv, page = "final"
               PROVE  view = status
    BY DEF FinalTreeIsTheTruth
  <2>1. \A n \in Nodes : view[n] = status[n]
    BY DEF Inv, ViewInv
  <2>2. view \in [Nodes -> Statuses \cup {"unread"}] /\ status \in [Nodes -> Statuses \cup {"none"}]
    BY DEF Inv, TypeOK
  <2> QED
    BY <2>1, <2>2
<1> QED
  BY <1>1, Invariance, PTL

\* Nothing but a declined payment, its flag or one stall too many fails a node,
\* and a root that ended without the last ended as its variant declares, for
\* every retry budget and number of crashes.
THEOREM EndsAsDeclared == Spec => []EndsAsLaunched
<1>1. Inv /\ Excuses => EndsAsLaunched
  <2> SUFFICES ASSUME Inv, Excuses PROVE EndsAsLaunched
    OBVIOUS
  <2>1. \A n \in Nodes : status[n] = "failed" => Excused(n)
    BY DEF Excuses, Excuse
  <2>2. ASSUME status[Root] \in Terminal, \A n \in Nodes : ~ (stalls[n] > MaxStalledCount)
        PROVE  status[Root] = Outcome(plan)
    <3>1. Root \in Nodes /\ "charge-payment" \in Nodes /\ Root # "charge-payment"
      BY DEF Nodes, Root
    <3>2. CASE status[Root] = "failed"
      <4>1. plan.variant = "failParent" /\ status["charge-payment"] = "failed"
        BY <2>1, <2>2, <3>1, <3>2 DEF Excused
      <4>2. plan.declined
        BY <2>1, <2>2, <3>1, <4>1 DEF Excused, Root
      <4> QED
        BY <3>2, <4>1, <4>2, DeclaredFailed
    <3>3. CASE status[Root] = "completed"
      <4>1. Launched /\ ~ Waits(Root) /\ ~ doomed[Root]
        <5>1. Launched
          BY <3>1, <3>3, IsLaunched
        <5>2. Woken(Root)
          BY <3>1 DEF Inv, NodeInv
        <5> QED
          BY <3>3, <5>1, <5>2 DEF Woken, Waits
      <4>2. status["charge-payment"] = "completed" \/ Optional
        BY <4>1, RootRan
      <4>3. status["charge-payment"] = "completed" => ~ plan.declined
        BY <3>1 DEF Excuses, Excuse
      <4> QED
        BY <3>3, <4>2, <4>3, Declared DEF Optional
    <3> QED
      BY <2>2, <3>2, <3>3 DEF Terminal
  <2> QED
    BY <2>1, <2>2 DEF EndsAsLaunched, Excused
<1> QED
  BY <1>1, ExcusesInvariance, PTL

\* With all its workers, retries, stalls and crashes the flow does what a tree of
\* dependent jobs does: no node ends twice, none is woken early, late or not at
\* all, none completes over a child that keeps it.
THEOREM TreeKept == Spec => KeepsDependencies
<1>1. Inv /\ Exacts /\ [Next]_vars => Exacts'
  BY TreeStep
<1>2. Inv /\ Exacts /\ [Next]_vars => [Dependencies!Next]_(Dependencies!vars)
  BY TreeStep
<1> QED
  BY <1>1, <1>2, TreeInit, Invariance, PTL DEF Spec, KeepsDependencies, Dependencies!Spec

=============================================================================
