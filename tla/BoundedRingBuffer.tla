------------------------- MODULE BoundedRingBuffer -------------------------
(***************************************************************************)
(* The shared ring buffer behind FlowTrace, HeartbeatTicks and             *)
(* TenantDeliveries (apps/api/src/common/bounded-ring-buffer.ts): an array *)
(* that grows to Capacity and is then overwritten in place at `head`.      *)
(* `pushed` is a history variable, the sequence of all entries ever        *)
(* pushed; the code does not keep it.                                      *)
(***************************************************************************)
EXTENDS Naturals, Sequences

CONSTANTS
  Entry,      \* what can be pushed
  Capacity,   \* constructor argument: entries retained before eviction begins
  MaxPushes   \* bound on the history, so that the state space is finite

ASSUME CapacityAssumption  == Capacity \in Nat \ {0}
ASSUME MaxPushesAssumption == MaxPushes \in Nat

VARIABLES
  items,      \* the backing array (1-based here, 0-based in the code)
  head,       \* 0-based index of the oldest slot once at capacity
  pushed      \* history: every entry pushed so far

ring == <<items, head, pushed>>

Full == ~ (Len(items) < Capacity)

RingInit ==
  /\ items = <<>>
  /\ head = 0
  /\ pushed = <<>>

\* push() while the array still grows: the early return leaves head alone.
Grow(e) ==
  /\ ~ Full
  /\ items' = Append(items, e)
  /\ UNCHANGED head

OverwriteHeadStuck(e) ==   \* head never advances
  /\ Full
  /\ items' = [items EXCEPT ![head + 1] = e]
  /\ UNCHANGED head

\* push() at capacity: overwrite the oldest slot, advance head around the ring.
Overwrite(e) ==
  /\ Full
  /\ items' = [items EXCEPT ![head + 1] = e]
  /\ head' = (head + 1) % Capacity

Push(e) ==
  /\ Len(pushed) < MaxPushes
  /\ Grow(e) \/ Overwrite(e)
  /\ pushed' = Append(pushed, e)

RingNext == \E e \in Entry : Push(e)

RingSpec == RingInit /\ [][RingNext]_ring

\* Seeded fault: the two halves joined in array order.
SnapshotUnrotated == items

\* slice(h) followed by slice(0, h): the ring read from its oldest slot.
Rotated(seq, h) == SubSeq(seq, h + 1, Len(seq)) \o SubSeq(seq, 1, h)

\* snapshot(): a plain copy until full, then the two halves around head.
Snapshot == IF Full THEN Rotated(items, head) ELSE items

-----------------------------------------------------------------------------
(* Properties *)

RingTypeOK ==
  /\ items \in Seq(Entry)
  /\ Len(items) <= Capacity
  /\ head \in 0 .. Capacity - 1
  /\ pushed \in Seq(Entry)

\* The last n elements of s, or s itself when it has no more than n.
LastOf(s, n) == IF Len(s) <= n THEN s ELSE SubSeq(s, Len(s) - n + 1, Len(s))

\* A reader of the buffer (GET /flows/trace, /schedulers/ticks,
\* /workers/deliveries) sees exactly the newest Capacity entries in the order
\* they were pushed, however often the head wrapped around: no entry is lost
\* early, shown twice or shown out of order.
SnapshotIsNewestWindow == Snapshot = LastOf(pushed, Capacity)

\* The array-and-head implementation is indistinguishable, through snapshot(),
\* from the push-and-shift arrays of the other trails.
Abstract == INSTANCE BoundedLog WITH entries <- Snapshot
RefinesBoundedLog == Abstract!Spec

=============================================================================
