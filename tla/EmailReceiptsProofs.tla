------------------------ MODULE EmailReceiptsProofs ------------------------
(***************************************************************************)
(* For every set of jobs, number of slots, marker capacity, stall limit    *)
(* and number of restarts: the safety properties of EmailReceipts.         *)
(*                                                                         *)
(* The argument is in three layers, each inductive on top of the previous  *)
(* ones: the types with the stall limit (AInv), the accounting of effects  *)
(* against deliveries (Deliveries), and the accounting of receipts against *)
(* markers (MInv).                                                         *)
(***************************************************************************)
EXTENDS EmailReceipts, SequenceTheorems, FiniteSetTheorems, TLAPS

-----------------------------------------------------------------------------
(* Layer 1: types *)

\* Only a failed job has used up its stalls.
StallBound == \A j \in Jobs : state[j] # "failed" => stalls[j] <= MaxStalledCount

AInv == TypeOK /\ StallBound

\* The marker map after an insertion: it gains the new job, stays bounded and
\* loses at most its oldest member, the one the eviction counts.
MarkedIn(m, j) == \E i \in DOMAIN m : m[i].job = j

LEMMA TrimmedAppend ==
  ASSUME NEW m \in Seq(Marker), Len(m) <= MarkerCapacity, NEW e \in Marker
  PROVE  LET grown == Append(m, e)
             kept  == Trimmed(grown)
         IN  /\ kept \in Seq(Marker)
             /\ Len(kept) <= MarkerCapacity
             /\ MarkedIn(kept, e.job)
             /\ Head(grown).job \in Receipts
             /\ \A i \in DOMAIN kept : kept[i] = e \/ \E k \in DOMAIN m : kept[i] = m[k]
             /\ \A j : MarkedIn(m, j) =>
                         \/ MarkedIn(kept, j)
                         \/ Len(kept) < Len(grown) /\ Head(grown).job = j
<1> DEFINE n == Len(m)
           grown == Append(m, e)
           kept  == Trimmed(grown)
<1> USE BoundsAssumption
<1>1. n \in Nat /\ DOMAIN m = 1 .. n /\ \A i \in 1 .. n : m[i] \in Marker
  BY LenProperties, ElementOfSeq
<1>2. /\ grown \in Seq(Marker) /\ grown # <<>> /\ Len(grown) = n + 1
      /\ \A i \in 1 .. n : grown[i] = m[i]
      /\ grown[n + 1] = e
  BY AppendProperties
<1>3. DOMAIN grown = 1 .. n + 1
  BY <1>2, LenProperties
<1>4. Head(grown) = grown[1] /\ Head(grown) \in Marker
  BY <1>2, HeadTailProperties
<1>5. Head(grown).job \in Receipts
  BY <1>4 DEF Marker
<1>6. CASE n < MarkerCapacity
  <2>0. ~ (Len(grown) > MarkerCapacity)
    BY <1>6, <1>1, <1>2
  <2>1. kept = grown
    BY <2>0 DEF Trimmed
  <2> HIDE DEF kept, grown, n
  <2>2. kept \in Seq(Marker) /\ Len(kept) <= MarkerCapacity
    BY <2>1, <1>1, <1>2, <1>6
  <2>3. MarkedIn(kept, e.job)
    BY <2>1, <1>1, <1>2, <1>3 DEF MarkedIn
  <2>4. \A i \in DOMAIN kept : kept[i] = e \/ \E k \in DOMAIN m : kept[i] = m[k]
    BY <2>1, <1>1, <1>2, <1>3
  <2>5. \A j : MarkedIn(m, j) => MarkedIn(kept, j)
    BY <2>1, <1>1, <1>2, <1>3 DEF MarkedIn
  <2> QED
    BY <2>2, <2>3, <2>4, <2>5, <1>5 DEF kept, grown, n
<1>7. CASE n = MarkerCapacity
  <2>1. kept = Tail(grown)
    BY <1>7, <1>1, <1>2 DEF Trimmed
  <2>2. /\ kept \in Seq(Marker) /\ Len(kept) = n
        /\ \A i \in 1 .. n : kept[i] = grown[i + 1]
    <3>1. /\ Tail(grown) \in Seq(Marker) /\ Len(Tail(grown)) = Len(grown) - 1
          /\ \A i \in 1 .. Len(Tail(grown)) : Tail(grown)[i] = grown[i + 1]
      BY <1>2, HeadTailProperties
    <3>2. Len(Tail(grown)) = n
      BY <3>1, <1>1, <1>2
    <3> QED
      BY <2>1, <3>1, <3>2
  <2>3. DOMAIN kept = 1 .. n
    BY <2>2, LenProperties
  <2> HIDE DEF kept, grown, n
  <2>4. kept[n] = e /\ n \in 1 .. n
    BY <2>2, <1>1, <1>2, <1>7
  <2>5. \A i \in 1 .. n : i # n => i + 1 \in 1 .. n /\ kept[i] = m[i + 1]
    BY <2>2, <1>1, <1>2
  <2>6. MarkedIn(kept, e.job)
    BY <2>3, <2>4 DEF MarkedIn
  <2>7. \A i \in DOMAIN kept : kept[i] = e \/ \E k \in DOMAIN m : kept[i] = m[k]
    BY <2>3, <2>4, <2>5, <1>1
  <2>8. ASSUME NEW j, MarkedIn(m, j)
        PROVE  MarkedIn(kept, j) \/ Head(grown).job = j
    <3>1. PICK i \in 1 .. n : m[i].job = j
      BY <2>8, <1>1 DEF MarkedIn
    <3>2. CASE i = 1
      BY <3>1, <3>2, <1>2, <1>4
    <3>3. CASE i # 1
      <4>1. i - 1 \in 1 .. n /\ i - 1 # n /\ i - 1 + 1 = i
        BY <3>3, <1>1
      <4>2. kept[i - 1] = m[i]
        BY <4>1, <2>5
      <4> QED
        BY <4>1, <4>2, <3>1, <2>3 DEF MarkedIn
    <3> QED
      BY <3>2, <3>3
  <2>9. Len(kept) < Len(grown)
    BY <2>2, <1>1, <1>2
  <2>10. Len(kept) <= MarkerCapacity
    BY <2>2, <1>7
  <2> QED
    BY <2>2, <2>6, <2>7, <2>8, <2>9, <2>10, <1>5 DEF kept, grown, n
<1>8. n < MarkerCapacity \/ n = MarkerCapacity
  <2>1. Len(m) \in Nat /\ MarkerCapacity \in Nat
    BY LenProperties, BoundsAssumption
  <2> QED
    BY <2>1
<1> QED
  BY <1>6, <1>7, <1>8

\* A marker found for j is a member of the map, and is j's.
LEMMA MarkerOfMarked ==
  ASSUME NEW j, Marked(j)
  PROVE  \E i \in DOMAIN markers : MarkerOf(j) = markers[i] /\ markers[i].job = j
BY DEF Marked, MarkerOf

\* What a handler call does to its slot.
LEMMA ReturnedSlot ==
  ASSUME TypeOK, NEW s \in Slots, slot[s].phase = "fetched", NEW r \in Nat, Return(s, r)
  PROVE  /\ slot[s].job \in Jobs
         /\ slot' \in [Slots -> Slot]
         /\ slot'[s] = [phase |-> "handled", job |-> slot[s].job, result |-> r]
         /\ \A t \in Slots : t # s => slot'[t] = slot[t]
<1>1. slot[s] \in [phase : {"fetched", "handled"}, job : Jobs, result : Nat]
  BY DEF TypeOK, Slot, Idle
<1>2. slot' = [slot EXCEPT ![s] = [phase |-> "handled", job |-> slot[s].job, result |-> r]]
  BY DEF Return
<1> QED
  BY <1>1, <1>2 DEF TypeOK, Slot

\* The three ways a handler call can go.
MemoizedReceipt(s, j, r) ==
  /\ j \in Receipts /\ Marked(j)
  /\ r = MarkerOf(j).result
  /\ UNCHANGED <<effects, markers, evictions>>
SentReceipt(s, j, r) ==
  /\ j \in Receipts /\ ~ Marked(j)
  /\ r = effects[j] + 1
  /\ Perform(j)
  /\ Remember(j, effects[j] + 1)
UnguardedJob(s, j, r) ==
  /\ j \in Jobs \ Receipts
  /\ Perform(j)
  /\ UNCHANGED <<markers, evictions>>

LEMMA HandleCases ==
  ASSUME TypeOK, NEW s \in Slots, Handle(s)
  PROVE  \E r \in Nat :
           LET j == slot[s].job
           IN  /\ j \in Jobs
               /\ slot[s].phase = "fetched"
               /\ Return(s, r)
               /\ \/ MemoizedReceipt(s, j, r)
                  \/ SentReceipt(s, j, r)
                  \/ UnguardedJob(s, j, r)
               /\ UNCHANGED <<redis, proc, restarts>>
<1> DEFINE j == slot[s].job
<1>1. /\ slot[s].phase = "fetched"
      /\ \/ j \in Receipts /\ SendReceipt(s, j)
         \/ j \in Welcomes /\ SendWelcome(s, j)
         \/ j \in Others /\ HandleUnknown(s, j)
      /\ UNCHANGED <<redis, proc, restarts>>
  BY DEF Handle
<1>2. j \in Jobs /\ effects[j] + 1 \in Nat
  BY <1>1 DEF TypeOK, Slot, Idle, Jobs
<1> HIDE DEF j
<1>3. CASE j \in Receipts /\ SendReceipt(s, j) /\ Marked(j)
  <2>1. MarkerOf(j) \in Marker
    <3>1. PICK i \in DOMAIN markers : MarkerOf(j) = markers[i]
      BY <1>3, MarkerOfMarked
    <3>2. DOMAIN markers = 1 .. Len(markers) /\ markers \in Seq(Marker)
      BY LenProperties DEF TypeOK
    <3> QED
      BY <3>1, <3>2, ElementOfSeq
  <2>2. MarkerOf(j).result \in Nat
    BY <2>1 DEF Marker
  <2>3. Return(s, MarkerOf(j).result) /\ MemoizedReceipt(s, j, MarkerOf(j).result)
    BY <1>3 DEF SendReceipt, MemoizedReceipt
  <2> QED
    BY <2>2, <2>3, <1>1, <1>2 DEF j
<1>4. CASE j \in Receipts /\ SendReceipt(s, j) /\ ~ Marked(j)
  <2>1. Return(s, effects[j] + 1) /\ SentReceipt(s, j, effects[j] + 1)
    BY <1>4 DEF SendReceipt, SentReceipt
  <2> QED
    BY <2>1, <1>1, <1>2 DEF j
<1>5. CASE j \in Welcomes /\ SendWelcome(s, j)
  <2>1. Return(s, effects[j] + 1) /\ UnguardedJob(s, j, effects[j] + 1)
    BY <1>5, <1>2, KindsAssumption DEF SendWelcome, UnguardedJob
  <2> QED
    BY <2>1, <1>1, <1>2 DEF j
<1>6. CASE j \in Others /\ HandleUnknown(s, j)
  <2>1. Return(s, 0) /\ UnguardedJob(s, j, 0)
    BY <1>6, <1>2, KindsAssumption DEF HandleUnknown, UnguardedJob
  <2> QED
    BY <2>1, <1>1, <1>2 DEF j
<1> QED
  BY <1>1, <1>3, <1>4, <1>5, <1>6 DEF j

\* What remembering a receipt does to the map and to the eviction counts.
LEMMA RememberTypes ==
  ASSUME TypeOK, NEW j \in Receipts, NEW r \in Nat, Remember(j, r)
  PROVE  /\ markers' \in Seq(Marker)
         /\ Len(markers') <= MarkerCapacity
         /\ evictions' \in [Jobs -> Nat]
<1> DEFINE e == [job |-> j, result |-> r]
           grown == Append(markers, e)
<1>1. e \in Marker
  BY DEF Marker
<1>2. /\ Trimmed(grown) \in Seq(Marker)
      /\ Len(Trimmed(grown)) <= MarkerCapacity
      /\ Head(grown).job \in Receipts
  BY <1>1, TrimmedAppend DEF TypeOK
<1>3. /\ markers' = Trimmed(grown)
      /\ evictions' = IF Len(Trimmed(grown)) < Len(grown)
                      THEN [evictions EXCEPT ![Head(grown).job] = @ + 1]
                      ELSE evictions
  BY DEF Remember
<1> HIDE DEF grown
<1>4. evictions \in [Jobs -> Nat] /\ Head(grown).job \in Jobs
  BY <1>2 DEF TypeOK, Jobs
<1> DEFINE bumped == [evictions EXCEPT ![Head(grown).job] = @ + 1]
<1>5. bumped \in [Jobs -> Nat]
  BY <1>4
<1>6. markers' \in Seq(Marker) /\ Len(markers') <= MarkerCapacity
  BY <1>2, <1>3
<1>7. evictions' \in [Jobs -> Nat]
  <2>1. evictions' = bumped \/ evictions' = evictions
    BY <1>3
  <2> HIDE DEF bumped
  <2> QED
    BY <2>1, <1>4, <1>5
<1> QED
  BY <1>6, <1>7

LEMMA InitAInv == Init => AInv
BY BoundsAssumption, EmptySeq DEF Init, AInv, TypeOK, StallBound, Slot

LEMMA NextAInv == AInv /\ [Next]_vars => AInv'
<1> SUFFICES ASSUME AInv, [Next]_vars PROVE AInv'
  OBVIOUS
<1> USE BoundsAssumption DEF AInv
<1>1. ASSUME NEW j \in Jobs, Enqueue(j) PROVE AInv'
  BY <1>1 DEF Enqueue, history, TypeOK, StallBound
<1>2. ASSUME NEW s \in Slots, NEW j \in Jobs, Fetch(s, j) PROVE AInv'
  <2>1. [phase |-> "fetched", job |-> j, result |-> 0] \in Slot
    BY DEF Slot
  <2> QED
    BY <1>2, <2>1 DEF Fetch, history, TypeOK, StallBound
<1>3. ASSUME NEW s \in Slots, Handle(s) PROVE AInv'
  <2> DEFINE j == slot[s].job
  <2>1. PICK r \in Nat :
          /\ j \in Jobs /\ slot[s].phase = "fetched"
          /\ Return(s, r)
          /\ MemoizedReceipt(s, j, r) \/ SentReceipt(s, j, r) \/ UnguardedJob(s, j, r)
          /\ UNCHANGED <<redis, proc, restarts>>
    BY <1>3, HandleCases
  <2>2. slot' \in [Slots -> Slot]
    BY <2>1, ReturnedSlot
  <2> HIDE DEF j
  <2>3. CASE MemoizedReceipt(s, j, r)
    BY <2>1, <2>2, <2>3 DEF MemoizedReceipt, redis, TypeOK, StallBound
  <2>4. CASE SentReceipt(s, j, r)
    <3>1. effects[j] + 1 \in Nat /\ j \in Receipts /\ Remember(j, effects[j] + 1)
      BY <2>1, <2>4 DEF SentReceipt, TypeOK
    <3>2. /\ markers' \in Seq(Marker)
          /\ Len(markers') <= MarkerCapacity
          /\ evictions' \in [Jobs -> Nat]
      BY <3>1, RememberTypes
    <3>3. effects' \in [Jobs -> Nat]
      BY <2>4 DEF SentReceipt, Perform, TypeOK
    <3> QED
      BY <2>1, <2>2, <3>2, <3>3 DEF redis, TypeOK, StallBound
  <2>5. CASE UnguardedJob(s, j, r)
    BY <2>1, <2>2, <2>5 DEF UnguardedJob, Perform, redis, TypeOK, StallBound
  <2> QED
    BY <2>1, <2>3, <2>4, <2>5
<1>4. ASSUME NEW s \in Slots, Finish(s) PROVE AInv'
  <2>1. slot[s].job \in Jobs /\ slot[s].result \in Nat
    BY <1>4 DEF Finish, TypeOK, Slot, Idle
  <2>2. slot' \in [Slots -> Slot]
    BY <1>4 DEF Finish, TypeOK, Slot
  <2> QED
    BY <1>4, <2>1, <2>2 DEF Finish, Holds, history, TypeOK, StallBound
<1>5. ASSUME NEW j \in Jobs, ExpireLock(j) PROVE AInv'
  BY <1>5 DEF ExpireLock, history, TypeOK, StallBound
<1>6. ASSUME NEW j \in Jobs, StalledCheck(j) PROVE AInv'
  <2>1. stalls[j] \in 0 .. MaxStalledCount /\ stalls[j] + 1 \in 0 .. MaxStalledCount + 1
    BY <1>6 DEF StalledCheck, TypeOK, StallBound
  <2>2. TypeOK'
    BY <1>6, <2>1 DEF StalledCheck, history, TypeOK
  <2>3. ASSUME NEW k \in Jobs, state'[k] # "failed" PROVE stalls'[k] <= MaxStalledCount
    <3>1. CASE k = j
      BY <1>6, <2>1, <2>3, <3>1 DEF StalledCheck, TypeOK
    <3>2. CASE k # j
      BY <1>6, <2>3, <3>2 DEF StalledCheck, TypeOK, StallBound
    <3> QED
      BY <3>1, <3>2
  <2> QED
    BY <2>2, <2>3 DEF StallBound
<1>7. ASSUME Shutdown PROVE AInv'
  BY <1>7 DEF Shutdown, redis, history, TypeOK, StallBound
<1>8. ASSUME Die PROVE AInv'
  BY <1>8, EmptySeq DEF Die, redis, TypeOK, StallBound, Slot
<1>9. ASSUME Boot PROVE AInv'
  BY <1>9 DEF Boot, redis, history, TypeOK, StallBound
<1>10. CASE UNCHANGED vars
  BY <1>10 DEF vars, redis, history, TypeOK, StallBound
<1> QED
  BY <1>1, <1>2, <1>3, <1>4, <1>5, <1>6, <1>7, <1>8, <1>9, <1>10
     DEF Next, ExpireOrphanedLock, ExpireHeldLock, DrainedExit, Crash

LEMMA InvarianceA == Spec => []AInv
BY InitAInv, NextAInv, PTL DEF Spec

\* The state of the queue, of the worker and of the marker map stays within
\* its types; in particular the map never exceeds its capacity.
THEOREM TypeCorrect == Spec => []TypeOK
<1>1. AInv => TypeOK
  BY DEF AInv
<1> QED
  BY <1>1, InvarianceA, PTL

-----------------------------------------------------------------------------
(* Layer 2: effects against deliveries *)

\* The deliveries of a job whose handler has not run yet.
Pending(j) == {s \in Slots : slot[s].phase = "fetched" /\ slot[s].job = j}

\* A job is delivered once more than it stalled while it is active or
\* completed, and as often as it stalled otherwise.
Delivered(j) == stalls[j] + (IF state[j] \in {"active", "completed"} THEN 1 ELSE 0)

Deliveries == \A j \in Jobs : effects[j] + Cardinality(Pending(j)) <= Delivered(j)

LEMMA PendingFinite ==
  ASSUME NEW j
  PROVE  IsFiniteSet(Pending(j)) /\ Cardinality(Pending(j)) \in Nat
<1>1. Pending(j) \subseteq Slots
  BY DEF Pending
<1> QED
  BY <1>1, SlotsAssumption, FS_Subset, FS_CardinalityType

LEMMA InitDeliveries == Init => Deliveries
<1> SUFFICES ASSUME Init, NEW j \in Jobs
             PROVE  effects[j] + Cardinality(Pending(j)) <= Delivered(j)
  BY DEF Deliveries
<1>1. Pending(j) = {}
  BY DEF Init, Idle, Pending
<1> QED
  BY <1>1, FS_EmptySet DEF Init, Delivered

LEMMA NextDeliveries == AInv /\ AInv' /\ Deliveries /\ [Next]_vars => Deliveries'
<1> SUFFICES ASSUME AInv, AInv', Deliveries, [Next]_vars, NEW k \in Jobs
             PROVE  effects'[k] + Cardinality(Pending(k)') <= Delivered(k)'
  BY DEF Deliveries
<1>0. /\ effects[k] \in Nat /\ effects'[k] \in Nat
      /\ stalls[k] \in Nat /\ stalls'[k] \in Nat
      /\ Cardinality(Pending(k)) \in Nat
      /\ Delivered(k) \in Nat /\ Delivered(k)' \in Nat
      /\ effects[k] + Cardinality(Pending(k)) <= Delivered(k)
  <2>1. /\ effects[k] \in Nat /\ effects'[k] \in Nat
        /\ stalls[k] \in Nat /\ stalls'[k] \in Nat
    BY BoundsAssumption DEF AInv, TypeOK
  <2>2. Cardinality(Pending(k)) \in Nat
    BY PendingFinite
  <2>3. Delivered(k) \in Nat /\ Delivered(k)' \in Nat
    BY <2>1 DEF Delivered
  <2>4. effects[k] + Cardinality(Pending(k)) <= Delivered(k)
    BY DEF Deliveries
  <2> QED
    BY <2>1, <2>2, <2>3, <2>4
\* Most steps neither move a slot into or out of Pending nor deliver anything.
<1>a. ASSUME Pending(k)' = Pending(k), effects'[k] = effects[k],
             Delivered(k)' = Delivered(k)
      PROVE  effects'[k] + Cardinality(Pending(k)') <= Delivered(k)'
  BY <1>a, <1>0
<1>1. ASSUME NEW j \in Jobs, Enqueue(j)
      PROVE  effects'[k] + Cardinality(Pending(k)') <= Delivered(k)'
  BY <1>1, <1>a DEF Enqueue, history, Pending, Delivered, AInv, TypeOK
<1>2. ASSUME NEW s \in Slots, NEW j \in Jobs, Fetch(s, j)
      PROVE  effects'[k] + Cardinality(Pending(k)') <= Delivered(k)'
  <2>1. CASE k = j
    <3>1. Pending(k)' = Pending(k) \cup {s} /\ s \notin Pending(k)
      BY <1>2, <2>1 DEF Fetch, Idle, Pending, AInv, TypeOK
    <3>2. Cardinality(Pending(k)') = Cardinality(Pending(k)) + 1
      BY <3>1, PendingFinite, FS_AddElement
    <3>3. effects'[k] = effects[k] /\ Delivered(k)' = Delivered(k) + 1
      BY <1>2, <2>1, <1>0 DEF Fetch, history, Delivered, AInv, TypeOK
    <3> QED
      BY <3>2, <3>3, <1>0
  <2>2. CASE k # j
    BY <1>2, <2>2, <1>a DEF Fetch, Idle, history, Pending, Delivered, AInv, TypeOK
  <2> QED
    BY <2>1, <2>2
<1>3. ASSUME NEW s \in Slots, Handle(s)
      PROVE  effects'[k] + Cardinality(Pending(k)') <= Delivered(k)'
  <2> DEFINE j == slot[s].job
  <2>1. PICK r \in Nat :
          /\ j \in Jobs /\ slot[s].phase = "fetched"
          /\ Return(s, r)
          /\ MemoizedReceipt(s, j, r) \/ SentReceipt(s, j, r) \/ UnguardedJob(s, j, r)
          /\ UNCHANGED <<redis, proc, restarts>>
    BY <1>3, HandleCases DEF AInv
  <2>2. /\ slot'[s] = [phase |-> "handled", job |-> j, result |-> r]
        /\ \A t \in Slots : t # s => slot'[t] = slot[t]
    BY <2>1, ReturnedSlot DEF AInv
  <2>3. Delivered(k)' = Delivered(k)
    BY <2>1 DEF redis, Delivered
  <2> HIDE DEF j
  <2>4. effects' = effects \/ Perform(j)
    BY <2>1 DEF MemoizedReceipt, SentReceipt, UnguardedJob
  <2>5. CASE k = j
    <3>1. Pending(k)' = Pending(k) \ {s} /\ s \in Pending(k)
      BY <2>1, <2>2, <2>5 DEF Pending, j
    <3>2. Cardinality(Pending(k)') = Cardinality(Pending(k)) - 1
      BY <3>1, PendingFinite, FS_RemoveElement
    <3>3. effects'[k] <= effects[k] + 1
      <4>1. CASE effects' = effects
        BY <4>1, <1>0
      <4>2. CASE Perform(j)
        <5>1. effects'[k] = effects[k] + 1
          BY <4>2, <2>5 DEF Perform, AInv, TypeOK
        <5> QED
          BY <5>1, <1>0
      <4> QED
        BY <4>1, <4>2, <2>4
    <3> QED
      BY <3>2, <3>3, <2>3, <1>0
  <2>6. CASE k # j
    <3>1. Pending(k)' = Pending(k)
      BY <2>1, <2>2, <2>6 DEF Pending, j
    <3>2. effects'[k] = effects[k]
      BY <2>4, <2>6 DEF Perform, AInv, TypeOK
    <3> QED
      BY <3>1, <3>2, <2>3, <1>a
  <2> QED
    BY <2>5, <2>6
<1>4. ASSUME NEW s \in Slots, Finish(s)
      PROVE  effects'[k] + Cardinality(Pending(k)') <= Delivered(k)'
  <2>1. Pending(k)' = Pending(k) /\ effects'[k] = effects[k]
    BY <1>4 DEF Finish, Idle, history, Pending, AInv, TypeOK
  <2>2. Delivered(k)' = Delivered(k)
    BY <1>4 DEF Finish, Holds, Delivered, AInv, TypeOK
  <2> QED
    BY <2>1, <2>2, <1>a
<1>5. ASSUME NEW j \in Jobs, ExpireLock(j)
      PROVE  effects'[k] + Cardinality(Pending(k)') <= Delivered(k)'
  BY <1>5, <1>a DEF ExpireLock, history, Pending, Delivered
<1>6. ASSUME NEW j \in Jobs, StalledCheck(j)
      PROVE  effects'[k] + Cardinality(Pending(k)') <= Delivered(k)'
  <2>1. Pending(k)' = Pending(k) /\ effects'[k] = effects[k]
    BY <1>6 DEF StalledCheck, history, Pending
  <2>2. Delivered(k)' = Delivered(k)
    <3>1. CASE k = j
      <4>1. /\ state[k] = "active" /\ state'[k] \in {"failed", "wait"}
            /\ stalls'[k] = stalls[k] + 1
        BY <1>6, <3>1 DEF StalledCheck, AInv, TypeOK
      <4> QED
        BY <4>1, <1>0 DEF Delivered
    <3>2. CASE k # j
      BY <1>6, <3>2 DEF StalledCheck, Delivered, AInv, TypeOK
    <3> QED
      BY <3>1, <3>2
  <2> QED
    BY <2>1, <2>2, <1>a
<1>7. ASSUME Shutdown
      PROVE  effects'[k] + Cardinality(Pending(k)') <= Delivered(k)'
  BY <1>7, <1>a DEF Shutdown, redis, history, Pending, Delivered
<1>8. ASSUME Die
      PROVE  effects'[k] + Cardinality(Pending(k)') <= Delivered(k)'
  <2>1. Pending(k)' = {}
    BY <1>8 DEF Die, Idle, Pending
  <2>2. Cardinality(Pending(k)') = 0
    BY <2>1, FS_EmptySet
  <2>3. effects'[k] = effects[k] /\ Delivered(k)' = Delivered(k)
    BY <1>8 DEF Die, redis, Delivered
  <2> QED
    BY <2>2, <2>3, <1>0
<1>9. ASSUME Boot
      PROVE  effects'[k] + Cardinality(Pending(k)') <= Delivered(k)'
  BY <1>9, <1>a DEF Boot, redis, history, Pending, Delivered
<1>10. CASE UNCHANGED vars
  BY <1>10, <1>a DEF vars, redis, history, Pending, Delivered
<1> QED
  BY <1>1, <1>2, <1>3, <1>4, <1>5, <1>6, <1>7, <1>8, <1>9, <1>10
     DEF Next, ExpireOrphanedLock, ExpireHeldLock, DrainedExit, Crash

\* No mail job, with or without an idempotency marker, has its effect more
\* often than it is delivered, and it is delivered at most MaxStalledCount + 1
\* times, through any number of crashes.
THEOREM EffectsBounded == Spec => []OneEffectPerDelivery
<1>1. AInv /\ Deliveries => OneEffectPerDelivery
  <2> SUFFICES ASSUME AInv, Deliveries, NEW j \in Jobs
               PROVE  effects[j] <= MaxStalledCount + 1
    BY DEF OneEffectPerDelivery
  <2>1. Cardinality(Pending(j)) \in Nat /\ effects[j] \in Nat
    BY PendingFinite DEF AInv, TypeOK
  <2>2. effects[j] + Cardinality(Pending(j)) <= Delivered(j)
    BY DEF Deliveries
  <2>3. Delivered(j) \in Nat /\ Delivered(j) <= MaxStalledCount + 1
    <3>1. /\ stalls[j] \in Nat /\ stalls[j] <= MaxStalledCount + 1
          /\ state[j] # "failed" => stalls[j] <= MaxStalledCount
      BY BoundsAssumption DEF AInv, TypeOK, StallBound
    <3>2. CASE state[j] = "failed"
      BY <3>1, <3>2 DEF Delivered
    <3>3. CASE state[j] # "failed"
      BY <3>1, <3>3, BoundsAssumption DEF Delivered
    <3> QED
      BY <3>2, <3>3
  <2> QED
    BY <2>1, <2>2, <2>3, BoundsAssumption
<1> QED
  BY <1>1, InvarianceA, InitDeliveries, NextDeliveries, PTL DEF Spec

-----------------------------------------------------------------------------
(* Layer 3: receipts against markers *)

\* Every mail for a receipt is paid for by its marker, by an eviction of it or
\* by a process death; a marker stands for a mail that went out.
MarkerAccount ==
  \A r \in Receipts :
    effects[r] <= restarts + evictions[r] + (IF Marked(r) THEN 1 ELSE 0)
MarkersPositive == \A i \in DOMAIN markers : markers[i].result \in Nat \ {0}

\* An outcome waiting to be written back names a mail that went out.
ResultsSent ==
  \A s \in Slots :
    slot[s].phase = "handled" /\ slot[s].job \in Receipts
      => slot[s].result \in 1 .. effects[slot[s].job]

MInv ==
  /\ MarkersRecordLatestSend
  /\ MarkersPositive
  /\ MarkerAccount
  /\ ResultsSent
  /\ CompletedReceiptWasSent

\* The map after sending and remembering a receipt.
LEMMA SentReceiptMap ==
  ASSUME AInv, MInv, NEW s \in Slots, NEW j \in Jobs, NEW r \in Nat, SentReceipt(s, j, r),
         UNCHANGED restarts
  PROVE  MarkersRecordLatestSend' /\ MarkersPositive' /\ MarkerAccount'
<1> DEFINE e == [job |-> j, result |-> effects[j] + 1]
           grown == Append(markers, e)
           kept == Trimmed(grown)
<1>1. /\ j \in Receipts /\ ~ Marked(j) /\ effects[j] \in Nat /\ e \in Marker
      /\ e.job = j /\ e.result = effects[j] + 1
      /\ effects' = [effects EXCEPT ![j] = @ + 1] /\ effects \in [Jobs -> Nat]
  BY DEF SentReceipt, Perform, AInv, TypeOK, Marker
<1>2. /\ kept \in Seq(Marker)
      /\ MarkedIn(kept, e.job)
      /\ \A i \in DOMAIN kept : kept[i] = e \/ \E k \in DOMAIN markers : kept[i] = markers[k]
      /\ \A q : MarkedIn(markers, q) =>
                  MarkedIn(kept, q) \/ (Len(kept) < Len(grown) /\ Head(grown).job = q)
      /\ Head(grown).job \in Receipts
  BY <1>1, TrimmedAppend DEF AInv, TypeOK
<1>3. /\ markers' = kept
      /\ evictions' = IF Len(kept) < Len(grown)
                      THEN [evictions EXCEPT ![Head(grown).job] = @ + 1]
                      ELSE evictions
  BY DEF SentReceipt, Remember
<1> HIDE DEF e, grown, kept
<1>4. \A i \in DOMAIN markers : markers[i].job # j /\ markers[i].job \in Receipts
  <2>1. DOMAIN markers = 1 .. Len(markers)
    BY LenProperties DEF AInv, TypeOK
  <2>2. \A i \in DOMAIN markers : markers[i] \in Marker
    BY <2>1, ElementOfSeq DEF AInv, TypeOK
  <2> QED
    BY <2>2, <1>1 DEF Marked, Marker
<1>5. ASSUME NEW i \in DOMAIN markers'
      PROVE  markers'[i].result = effects'[markers'[i].job] /\ markers'[i].result \in Nat \ {0}
  <2>1. CASE kept[i] = e
    BY <2>1, <1>1, <1>3 DEF Jobs
  <2>2. ASSUME NEW k \in DOMAIN markers, kept[i] = markers[k]
        PROVE  markers'[i].result = effects'[markers'[i].job] /\ markers'[i].result \in Nat \ {0}
    <3>1. effects'[markers[k].job] = effects[markers[k].job]
      BY <1>1, <1>4 DEF Jobs
    <3> QED
      BY <2>2, <3>1, <1>3 DEF MInv, MarkersRecordLatestSend, MarkersPositive
  <2> QED
    BY <2>1, <2>2, <1>2, <1>3, <1>5
<1>6. ASSUME NEW q \in Receipts
      PROVE  effects'[q] <= restarts' + evictions'[q] + (IF Marked(q)' THEN 1 ELSE 0)
  <2>1. /\ effects[q] \in Nat /\ evictions[q] \in Nat /\ restarts \in Nat
        /\ restarts' = restarts /\ evictions'[q] \in Nat
        /\ evictions'[q] >= evictions[q]
    <3>1. /\ effects[q] \in Nat /\ evictions[q] \in Nat /\ restarts \in Nat
          /\ restarts' = restarts
      BY BoundsAssumption DEF AInv, TypeOK, Jobs
    <3>2. evictions'[q] = evictions[q] \/ evictions'[q] = evictions[q] + 1
      BY <1>3 DEF AInv, TypeOK, Jobs
    <3> QED
      BY <3>1, <3>2
  <2>2. effects[q] <= restarts + evictions[q] + (IF Marked(q) THEN 1 ELSE 0)
    BY DEF MInv, MarkerAccount
  <2>3. Marked(q)' <=> MarkedIn(kept, q)
    BY <1>3 DEF Marked, MarkedIn
  <2>4. CASE q = j
    <3>1. ~ Marked(q) /\ Marked(q)' /\ effects'[q] = effects[q] + 1
      BY <2>3, <2>4, <1>1, <1>2
    <3> QED
      BY <3>1, <2>1, <2>2
  <2>5. CASE q # j
    <3>1. effects'[q] = effects[q]
      BY <2>5, <1>1
    <3>2. CASE Marked(q) => Marked(q)'
      BY <3>1, <3>2, <2>1, <2>2
    <3>3. CASE ~ (Marked(q) => Marked(q)')
      <4>1. Len(kept) < Len(grown) /\ Head(grown).job = q
        BY <3>3, <2>3, <1>2 DEF Marked, MarkedIn
      <4>2. evictions'[q] = evictions[q] + 1
        BY <4>1, <1>3 DEF AInv, TypeOK, Jobs
      <4> QED
        BY <3>1, <4>2, <2>1, <2>2
    <3> QED
      BY <3>2, <3>3
  <2> QED
    BY <2>4, <2>5
<1> QED
  BY <1>5, <1>6 DEF MarkersRecordLatestSend, MarkersPositive, MarkerAccount

LEMMA InitMInv == Init => MInv
<1> SUFFICES ASSUME Init PROVE MInv
  OBVIOUS
<1>1. DOMAIN markers = {} /\ \A r : ~ Marked(r)
  BY DEF Init, Marked
<1>2. MarkersRecordLatestSend /\ MarkersPositive
  BY <1>1 DEF MarkersRecordLatestSend, MarkersPositive
<1>3. MarkerAccount
  BY <1>1 DEF Init, MarkerAccount, Jobs
<1>4. ResultsSent /\ CompletedReceiptWasSent
  BY DEF Init, Idle, ResultsSent, CompletedReceiptWasSent, Jobs
<1> QED
  BY <1>2, <1>3, <1>4 DEF MInv

\* Steps that leave the map, the counts and the slots' outcomes alone, and
\* complete no job, preserve every part.
LEMMA QuietStep ==
  ASSUME MInv, UNCHANGED <<markers, effects, evictions, restarts>>,
         \A r \in Receipts : state'[r] = "completed" => state[r] = "completed" /\ returned'[r] = returned[r],
         \A s \in Slots : slot'[s].phase = "handled" => slot'[s] = slot[s]
  PROVE  MInv'
<1>1. MarkersRecordLatestSend' /\ MarkersPositive' /\ MarkerAccount'
  BY DEF MInv, MarkersRecordLatestSend, MarkersPositive, MarkerAccount, Marked
<1>2. ResultsSent' /\ CompletedReceiptWasSent'
  BY DEF MInv, ResultsSent, CompletedReceiptWasSent
<1> QED
  BY <1>1, <1>2 DEF MInv

LEMMA NextMInv == AInv /\ AInv' /\ MInv /\ [Next]_vars => MInv'
<1> SUFFICES ASSUME AInv, AInv', MInv, [Next]_vars PROVE MInv'
  OBVIOUS
<1>1. ASSUME NEW j \in Jobs, Enqueue(j) PROVE MInv'
  BY <1>1, QuietStep DEF Enqueue, history, AInv, TypeOK, Jobs
<1>2. ASSUME NEW s \in Slots, NEW j \in Jobs, Fetch(s, j) PROVE MInv'
  BY <1>2, QuietStep DEF Fetch, history, AInv, TypeOK, Jobs
<1>3. ASSUME NEW s \in Slots, Handle(s) PROVE MInv'
  <2> DEFINE j == slot[s].job
  <2>1. PICK r \in Nat :
          /\ j \in Jobs /\ slot[s].phase = "fetched"
          /\ Return(s, r)
          /\ MemoizedReceipt(s, j, r) \/ SentReceipt(s, j, r) \/ UnguardedJob(s, j, r)
          /\ UNCHANGED <<redis, proc, restarts>>
    BY <1>3, HandleCases DEF AInv
  <2>2. /\ slot'[s] = [phase |-> "handled", job |-> j, result |-> r]
        /\ \A t \in Slots : t # s => slot'[t] = slot[t]
    BY <2>1, ReturnedSlot DEF AInv
  <2>3. UNCHANGED <<state, returned, restarts>>
    BY <2>1 DEF redis
  <2> HIDE DEF j
  <2>4. /\ effects \in [Jobs -> Nat]
        /\ \A k \in Jobs : effects'[k] = effects[k] \/ effects'[k] = effects[k] + 1
    BY <2>1 DEF MemoizedReceipt, SentReceipt, UnguardedJob, Perform, AInv, TypeOK
  \* The outcome of this call, in each of the three cases.
  <2>5. CASE MemoizedReceipt(s, j, r)
    <3>1. r \in 1 .. effects[j]
      <4>1. PICK i \in DOMAIN markers : MarkerOf(j) = markers[i] /\ markers[i].job = j
        BY <2>5, MarkerOfMarked DEF MemoizedReceipt
      <4>2. r = effects[j] /\ r \in Nat \ {0}
        BY <4>1, <2>5 DEF MemoizedReceipt, MInv, MarkersRecordLatestSend, MarkersPositive
      <4> QED
        BY <4>2
    <3>2. UNCHANGED <<effects, markers, evictions>>
      BY <2>5 DEF MemoizedReceipt
    <3>3. MarkersRecordLatestSend' /\ MarkersPositive' /\ MarkerAccount'
      BY <3>2, <2>3 DEF MInv, MarkersRecordLatestSend, MarkersPositive, MarkerAccount, Marked
    <3>4. ResultsSent'
      BY <3>1, <3>2, <2>2 DEF MInv, ResultsSent
    <3>5. CompletedReceiptWasSent'
      BY <3>2, <2>3 DEF MInv, CompletedReceiptWasSent
    <3> QED
      BY <3>3, <3>4, <3>5 DEF MInv
  <2>6. CASE SentReceipt(s, j, r)
    <3>1. MarkersRecordLatestSend' /\ MarkersPositive' /\ MarkerAccount'
      BY <2>1, <2>3, <2>6, SentReceiptMap
    <3>2. r \in 1 .. effects'[j]
      BY <2>1, <2>4, <2>6 DEF SentReceipt, Perform, AInv, TypeOK
    <3>3. ResultsSent'
      <4> SUFFICES ASSUME NEW t \in Slots, slot'[t].phase = "handled",
                          slot'[t].job \in Receipts
                   PROVE  slot'[t].result \in 1 .. effects'[slot'[t].job]
        BY DEF ResultsSent
      <4>1. CASE t = s
        BY <4>1, <3>2, <2>2
      <4>2. CASE t # s
        <5>1. slot'[t] = slot[t] /\ slot[t].result \in 1 .. effects[slot[t].job]
          BY <4>2, <2>2 DEF MInv, ResultsSent
        <5>2. slot[t].job \in Jobs /\ effects[slot[t].job] \in Nat
          BY <5>1, <2>4 DEF Jobs
        <5> QED
          BY <5>1, <5>2, <2>4
      <4> QED
        BY <4>1, <4>2
    <3>4. CompletedReceiptWasSent'
      BY <2>3, <2>4 DEF MInv, CompletedReceiptWasSent, Jobs
    <3> QED
      BY <3>1, <3>3, <3>4 DEF MInv
  <2>7. CASE UnguardedJob(s, j, r)
    <3>1. /\ UNCHANGED <<markers, evictions>>
          /\ \A q \in Receipts : effects'[q] = effects[q]
      BY <2>4, <2>7 DEF UnguardedJob, Perform, Jobs
    <3>2. \A i \in DOMAIN markers : markers[i].job \in Receipts
      <4>1. DOMAIN markers = 1 .. Len(markers)
        BY LenProperties DEF AInv, TypeOK
      <4>2. \A i \in DOMAIN markers : markers[i] \in Marker
        BY <4>1, ElementOfSeq DEF AInv, TypeOK
      <4> QED
        BY <4>2 DEF Marker
    <3>3. MarkersRecordLatestSend' /\ MarkersPositive'
      BY <3>1, <3>2 DEF MInv, MarkersRecordLatestSend, MarkersPositive
    <3>4. MarkerAccount'
      BY <3>1, <2>3 DEF MInv, MarkerAccount, Marked
    <3>5. ResultsSent'
      <4> SUFFICES ASSUME NEW t \in Slots, slot'[t].phase = "handled",
                          slot'[t].job \in Receipts
                   PROVE  slot'[t].result \in 1 .. effects'[slot'[t].job]
        BY DEF ResultsSent
      <4>1. t # s
        BY <2>2, <2>7 DEF UnguardedJob
      <4> QED
        BY <4>1, <3>1, <2>2 DEF MInv, ResultsSent
    <3>6. CompletedReceiptWasSent'
      BY <3>1, <2>3 DEF MInv, CompletedReceiptWasSent
    <3> QED
      BY <3>3, <3>4, <3>5, <3>6 DEF MInv
  <2> QED
    BY <2>1, <2>5, <2>6, <2>7
<1>4. ASSUME NEW s \in Slots, Finish(s) PROVE MInv'
  <2> DEFINE j == slot[s].job
  <2>1. /\ UNCHANGED <<markers, effects, evictions, restarts>>
        /\ slot'[s] = Idle
        /\ \A t \in Slots : t # s => slot'[t] = slot[t]
    BY <1>4 DEF Finish, history, AInv, TypeOK
  <2>2. CASE Holds(s, j)
    <3>1. /\ \A r \in Jobs \ {j} : state'[r] = state[r] /\ returned'[r] = returned[r]
          /\ j \in Jobs /\ returned'[j] = slot[s].result /\ slot[s].phase = "handled"
      BY <1>4, <2>2 DEF Finish, AInv, TypeOK, Slot, Idle
    <3>2. CompletedReceiptWasSent'
      <4> SUFFICES ASSUME NEW r \in Receipts, state'[r] = "completed"
                   PROVE  returned'[r] \in 1 .. effects'[r]
        BY DEF CompletedReceiptWasSent
      <4>1. CASE r = j
        BY <4>1, <3>1, <2>1 DEF MInv, ResultsSent
      <4>2. CASE r # j
        BY <4>2, <3>1, <2>1 DEF MInv, CompletedReceiptWasSent, Jobs
      <4> QED
        BY <4>1, <4>2
    <3>3. ResultsSent'
      BY <2>1 DEF MInv, ResultsSent, Idle
    <3>4. MarkersRecordLatestSend' /\ MarkersPositive' /\ MarkerAccount'
      BY <2>1 DEF MInv, MarkersRecordLatestSend, MarkersPositive, MarkerAccount, Marked
    <3> QED
      BY <3>2, <3>3, <3>4 DEF MInv
  <2>3. CASE ~ Holds(s, j)
    <3>1. UNCHANGED <<state, returned>>
      BY <1>4, <2>3 DEF Finish
    <3> QED
      BY <3>1, <2>1, QuietStep DEF Idle
  <2> QED
    BY <2>2, <2>3
<1>5. ASSUME NEW j \in Jobs, ExpireLock(j) PROVE MInv'
  BY <1>5, QuietStep DEF ExpireLock, history
<1>6. ASSUME NEW j \in Jobs, StalledCheck(j) PROVE MInv'
  <2>1. \A r \in Receipts : state'[r] = "completed" => state[r] = "completed"
    BY <1>6 DEF StalledCheck, AInv, TypeOK, Jobs
  <2> QED
    BY <1>6, <2>1, QuietStep DEF StalledCheck, history
<1>7. ASSUME Shutdown PROVE MInv'
  BY <1>7, QuietStep DEF Shutdown, redis, history
<1>8. ASSUME Die PROVE MInv'
  <2>1. /\ markers' = <<>> /\ UNCHANGED <<effects, evictions, state, returned>>
        /\ restarts' = restarts + 1 /\ restarts \in Nat
        /\ slot' = [s \in Slots |-> Idle]
    BY <1>8, BoundsAssumption DEF Die, redis, AInv, TypeOK
  <2>2. DOMAIN markers' = {}
    BY <2>1
  <2>3. MarkersRecordLatestSend' /\ MarkersPositive'
    BY <2>2 DEF MarkersRecordLatestSend, MarkersPositive
  <2>4. MarkerAccount'
    <3> SUFFICES ASSUME NEW r \in Receipts
                 PROVE  effects'[r] <= restarts' + evictions'[r] + (IF Marked(r)' THEN 1 ELSE 0)
      BY DEF MarkerAccount
    <3>1. effects[r] <= restarts + evictions[r] + (IF Marked(r) THEN 1 ELSE 0)
      BY DEF MInv, MarkerAccount
    <3>2. effects[r] \in Nat /\ evictions[r] \in Nat
      BY DEF AInv, TypeOK, Jobs
    <3> QED
      BY <3>1, <3>2, <2>1
  <2>5. ResultsSent' /\ CompletedReceiptWasSent'
    BY <2>1 DEF MInv, ResultsSent, CompletedReceiptWasSent, Idle
  <2> QED
    BY <2>3, <2>4, <2>5 DEF MInv
<1>9. ASSUME Boot PROVE MInv'
  BY <1>9, QuietStep DEF Boot, redis, history
<1>10. CASE UNCHANGED vars
  BY <1>10, QuietStep DEF vars, redis, history
<1> QED
  BY <1>1, <1>2, <1>3, <1>4, <1>5, <1>6, <1>7, <1>8, <1>9, <1>10
     DEF Next, ExpireOrphanedLock, ExpireHeldLock, DrainedExit, Crash

LEMMA InvarianceM == Spec => []MInv
BY InvarianceA, InitMInv, NextMInv, PTL DEF Spec

\* Beyond the first, every mail for a receipt costs a process death or an
\* eviction of its marker: redeliveries to a process that still holds the
\* marker send nothing, for any interleaving of any number of slots.
THEOREM ReceiptsIdempotent == Spec => []OneSendPerMarkerLife
<1>1. AInv /\ MInv => OneSendPerMarkerLife
  <2> SUFFICES ASSUME AInv, MInv, NEW r \in Receipts
               PROVE  effects[r] <= 1 + restarts + evictions[r]
    BY DEF OneSendPerMarkerLife
  <2>1. effects[r] \in Nat /\ evictions[r] \in Nat /\ restarts \in Nat
    BY BoundsAssumption DEF AInv, TypeOK, Jobs
  <2>2. effects[r] <= restarts + evictions[r] + (IF Marked(r) THEN 1 ELSE 0)
    BY DEF MInv, MarkerAccount
  <2> QED
    BY <2>1, <2>2
<1> QED
  BY <1>1, InvarianceA, InvarianceM, PTL

\* A completed receipt job returns the id of a mail that was sent.
THEOREM CompletedReceiptsSent == Spec => []CompletedReceiptWasSent
<1>1. MInv => CompletedReceiptWasSent
  BY DEF MInv
<1> QED
  BY <1>1, InvarianceM, PTL

\* A marker always holds the result of the latest mail for its receipt.
THEOREM MarkersCurrent == Spec => []MarkersRecordLatestSend
<1>1. MInv => MarkersRecordLatestSend
  BY DEF MInv
<1> QED
  BY <1>1, InvarianceM, PTL

-----------------------------------------------------------------------------
(* Refinement: the processor keeps the mail ledger *)

\* A job that has not completed has returned nothing.
OpenReturnsNothing == \A j \in Jobs : state[j] # "completed" => returned[j] = 0

LEMMA NextOpen ==
  AInv /\ OpenReturnsNothing /\ [Next]_vars => OpenReturnsNothing'
<1> SUFFICES ASSUME AInv, OpenReturnsNothing, [Next]_vars PROVE OpenReturnsNothing'
  OBVIOUS
<1>1. ASSUME NEW j \in Jobs, Enqueue(j) \/ (\E s \in Slots : Fetch(s, j)) \/ StalledCheck(j)
      PROVE  OpenReturnsNothing'
  BY <1>1 DEF OpenReturnsNothing, Enqueue, Fetch, StalledCheck, AInv, TypeOK
<1>2. ASSUME NEW s \in Slots, Finish(s) PROVE OpenReturnsNothing'
  <2>1. CASE Holds(s, slot[s].job)
    BY <1>2, <2>1 DEF Finish, OpenReturnsNothing, AInv, TypeOK
  <2>2. CASE ~ Holds(s, slot[s].job)
    BY <1>2, <2>2 DEF Finish, OpenReturnsNothing
  <2> QED
    BY <2>1, <2>2
<1>3. ASSUME UNCHANGED <<state, returned>> PROVE OpenReturnsNothing'
  BY <1>3 DEF OpenReturnsNothing
<1> QED
  BY <1>1, <1>2, <1>3
     DEF Next, Handle, ExpireLock, ExpireOrphanedLock, ExpireHeldLock, Shutdown, DrainedExit,
         Crash, Die, Boot, vars, redis

\* A step that sends, forgets and reports nothing leaves the ledger alone.
LEMMA LedgerStands ==
  ASSUME \A r \in Receipts : effects'[r] = effects[r] /\ returned'[r] = returned[r],
         UNCHANGED <<evictions, restarts>>
  PROVE  UNCHANGED Ledger!vars
BY DEF Ledger!vars

\* The mail of an unmarked receipt is one the ledger allows: the receipt was
\* forgotten as often as it was mailed, and its marker pushes out at most that
\* of another receipt.
LEMMA SentIsMail ==
  ASSUME AInv, MInv, NEW s \in Slots, NEW j \in Jobs, NEW r \in Nat, SentReceipt(s, j, r),
         UNCHANGED <<returned, restarts>>
  PROVE  Ledger!Next
<1> DEFINE grown == Append(markers, [job |-> j, result |-> effects[j] + 1])
           kept  == Trimmed(grown)
           n     == Len(markers)
<1>1. /\ j \in Receipts /\ ~ Marked(j) /\ effects[j] \in Nat
      /\ effects' = [effects EXCEPT ![j] = @ + 1] /\ effects \in [Jobs -> Nat]
      /\ evictions \in [Jobs -> Nat] /\ restarts \in Nat /\ restarts' = restarts
  BY BoundsAssumption DEF SentReceipt, Perform, AInv, TypeOK
<1>0. evictions' = IF Len(kept) < Len(grown)
                   THEN [evictions EXCEPT ![Head(grown).job] = @ + 1]
                   ELSE evictions
  BY DEF SentReceipt, Remember
<1>2. effects[j] <= restarts + evictions[j]
  BY <1>1 DEF MInv, MarkerAccount, Jobs
<1>3. ASSUME Len(kept) < Len(grown)
      PROVE  Head(grown).job \in Receipts \ {j}
  <2>1. /\ n \in Nat /\ DOMAIN markers = 1 .. n /\ markers \in Seq(Marker)
        /\ \A i \in 1 .. n : markers[i] \in Marker
    BY LenProperties, ElementOfSeq DEF AInv, TypeOK
  <2>2. [job |-> j, result |-> effects[j] + 1] \in Marker
    BY <1>1 DEF Marker
  <2>3. /\ grown \in Seq(Marker) /\ grown # <<>> /\ Len(grown) = n + 1
        /\ \A i \in 1 .. n : grown[i] = markers[i]
    BY <2>1, <2>2, AppendProperties
  <2>4. Len(grown) > MarkerCapacity
    <3>1. Len(grown) > MarkerCapacity \/ kept = grown
      BY DEF Trimmed
    <3> HIDE DEF grown, kept
    <3> QED
      BY <1>3, <2>1, <2>3, <3>1
  <2> HIDE DEF grown, kept
  <2>5. 1 \in 1 .. n
    BY <2>1, <2>3, <2>4, BoundsAssumption DEF n
  <2>6. Head(grown) = markers[1]
    BY <2>3, <2>5, HeadTailProperties
  <2>7. markers[1].job \in Receipts /\ markers[1].job # j
    BY <2>1, <2>5, <1>1 DEF Marked, Marker
  <2> QED
    BY <2>6, <2>7
<1> HIDE DEF grown, kept
<1>4. Jobs = Receipts \cup Welcomes \cup Others
  BY DEF Jobs
<1>5. [q \in Receipts |-> effects'[q]] = [[q \in Receipts |-> effects[q]] EXCEPT ![j] = @ + 1]
  BY <1>1, <1>4
<1>6. \/ [q \in Receipts |-> restarts' + evictions'[q]]
            = [q \in Receipts |-> restarts + evictions[q]]
      \/ \E other \in Receipts \ {j} :
           [q \in Receipts |-> restarts' + evictions'[q]]
             = [q \in Receipts |-> IF q \in {other}
                                  THEN [p \in Receipts |-> restarts + evictions[p]][q] + 1
                                  ELSE [p \in Receipts |-> restarts + evictions[p]][q]]
  <2>1. CASE ~ (Len(kept) < Len(grown))
    BY <2>1, <1>0, <1>1
  <2>2. CASE Len(kept) < Len(grown)
    <3> DEFINE other == Head(grown).job
    <3>1. other \in Receipts \ {j} /\ evictions' = [evictions EXCEPT ![other] = @ + 1]
      BY <2>2, <1>0, <1>3
    <3> HIDE DEF other
    <3>2. \A q \in Receipts :
            evictions[q] \in Nat
            /\ evictions'[q] = IF q \in {other} THEN evictions[q] + 1 ELSE evictions[q]
      BY <3>1, <1>1, <1>4
    <3>3. \A q \in Receipts : restarts' + evictions'[q] =
            IF q \in {other} THEN (restarts + evictions[q]) + 1 ELSE restarts + evictions[q]
      <4> SUFFICES ASSUME NEW q \in Receipts
                   PROVE  restarts' + evictions'[q] =
                            IF q \in {other} THEN (restarts + evictions[q]) + 1
                            ELSE restarts + evictions[q]
        OBVIOUS
      <4>1. CASE q \in {other}
        BY <4>1, <3>2, <1>1
      <4>2. CASE q \notin {other}
        BY <4>2, <3>2, <1>1
      <4> QED
        BY <4>1, <4>2
    <3> QED
      BY <3>1, <3>3
  <2> QED
    BY <2>1, <2>2
<1> QED
  BY <1>1, <1>2, <1>5, <1>6 DEF Ledger!Next, Ledger!Mail, Ledger!Forget

\* A written-back outcome of a receipt is its one report.
LEMMA FinishIsReport ==
  ASSUME AInv, MInv, OpenReturnsNothing, NEW s \in Slots, Finish(s)
  PROVE  Ledger!Next \/ UNCHANGED Ledger!vars
<1> DEFINE j == slot[s].job
<1>1. /\ UNCHANGED <<effects, evictions, restarts>>
      /\ slot[s].phase = "handled" /\ j \in Jobs
  BY DEF Finish, history, AInv, TypeOK, Slot, Idle
<1>2. CASE Holds(s, j) /\ j \in Receipts
  <2>1. /\ returned[j] = 0 /\ slot[s].result \in 1 .. effects[j]
        /\ returned' = [returned EXCEPT ![j] = slot[s].result]
        /\ returned \in [Jobs -> Nat]
    BY <1>1, <1>2
       DEF Finish, Holds, OpenReturnsNothing, MInv, ResultsSent, AInv, TypeOK
  <2>2. [r \in Receipts |-> returned'[r]]
          = [[r \in Receipts |-> returned[r]] EXCEPT ![j] = slot[s].result]
    BY <2>1, <1>2 DEF Jobs
  <2> QED
    BY <1>1, <1>2, <2>1, <2>2 DEF Ledger!Next, Ledger!Report
<1>3. CASE ~ (Holds(s, j) /\ j \in Receipts)
  <2>1. \A r \in Receipts : returned'[r] = returned[r]
    BY <1>3 DEF Finish, AInv, TypeOK, Jobs
  <2> QED
    BY <1>1, <2>1, LedgerStands
<1> QED
  BY <1>2, <1>3

\* Every step of the processor is a step of the ledger, or none.
LEMMA NextLedger ==
  AInv /\ MInv /\ OpenReturnsNothing /\ [Next]_vars => [Ledger!Next]_(Ledger!vars)
<1> SUFFICES ASSUME AInv, MInv, OpenReturnsNothing, [Next]_vars
             PROVE  Ledger!Next \/ UNCHANGED Ledger!vars
  OBVIOUS
<1>1. ASSUME NEW s \in Slots, Handle(s) PROVE Ledger!Next \/ UNCHANGED Ledger!vars
  <2> DEFINE j == slot[s].job
  <2>1. PICK r \in Nat :
          /\ j \in Jobs
          /\ MemoizedReceipt(s, j, r) \/ SentReceipt(s, j, r) \/ UnguardedJob(s, j, r)
          /\ UNCHANGED <<redis, proc, restarts>>
    BY <1>1, HandleCases DEF AInv
  <2>2. UNCHANGED <<returned, restarts>>
    BY <2>1 DEF redis
  <2> HIDE DEF j
  <2>3. CASE MemoizedReceipt(s, j, r)
    BY <2>2, <2>3, LedgerStands DEF MemoizedReceipt
  <2>4. CASE SentReceipt(s, j, r)
    BY <2>1, <2>2, <2>4, SentIsMail
  <2>5. CASE UnguardedJob(s, j, r)
    <3>1. \A q \in Receipts : effects'[q] = effects[q]
      BY <2>5 DEF UnguardedJob, Perform, AInv, TypeOK, Jobs
    <3>2. UNCHANGED evictions
      BY <2>5 DEF UnguardedJob
    <3> QED
      BY <2>2, <3>1, <3>2, LedgerStands
  <2> QED
    BY <2>1, <2>3, <2>4, <2>5
<1>2. ASSUME NEW s \in Slots, Finish(s) PROVE Ledger!Next \/ UNCHANGED Ledger!vars
  BY <1>2, FinishIsReport
<1>3. CASE Die
  <2>1. /\ UNCHANGED <<effects, evictions, returned>> /\ restarts' = restarts + 1
        /\ restarts \in Nat /\ \A r \in Receipts : evictions[r] \in Nat
    BY <1>3, BoundsAssumption DEF Die, redis, AInv, TypeOK, Jobs
  <2>2. \A r \in Receipts : restarts' + evictions'[r] = (restarts + evictions[r]) + 1
    BY <2>1
  <2>3. [r \in Receipts |-> restarts' + evictions'[r]]
          = [r \in Receipts |-> IF r \in Receipts
                               THEN [q \in Receipts |-> restarts + evictions[q]][r] + 1
                               ELSE [q \in Receipts |-> restarts + evictions[q]][r]]
    BY <2>2
  <2>4. Ledger!ForgetAll
    BY <2>1, <2>3 DEF Ledger!ForgetAll, Ledger!Forget
  <2> QED
    BY <2>4 DEF Ledger!Next
<1>4. CASE UNCHANGED <<effects, evictions, restarts, returned>>
  BY <1>4, LedgerStands
<1> QED
  BY <1>1, <1>2, <1>3, <1>4
     DEF Next, Enqueue, Fetch, ExpireLock, ExpireOrphanedLock, ExpireHeldLock, StalledCheck,
         Shutdown, DrainedExit, Crash, Boot, vars, redis, history

\* The email processor implements the mail ledger, for any jobs, slots, marker
\* capacity, stalls and deaths: it repeats a mail only after it has forgotten
\* the first, and no late delivery overturns a report.
THEOREM LedgerKept == Spec => KeepsLedger
<1>1. Init => Ledger!Init /\ OpenReturnsNothing
  BY DEF Init, Ledger!Init, OpenReturnsNothing, Jobs
<1> QED
  BY <1>1, NextOpen, NextLedger, InvarianceA, InvarianceM, PTL DEF Spec, KeepsLedger, Ledger!Spec

=============================================================================
