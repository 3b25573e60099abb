-------------------------- MODULE MonitoringProofs --------------------------
(***************************************************************************)
(* The schedulers and readiness, for every value of the constants.         *)
(*                                                                         *)
(* A served registration is complete because a boot serves only when no    *)
(* upsert is without an answer (Complete).  The page's lists follow, queue *)
(* by queue, from what the page has in hand: the table, the answer on its  *)
(* way, and whether it means to read again (InHand).                       *)
(*                                                                         *)
(* That a probe says "up" only while Redis was reachable within the        *)
(* cache's time needs one fact about the cache: a snapshot is never        *)
(* younger than the outage it outlives.                                    *)
(***************************************************************************)
EXTENDS Schedulers, Readiness, FiniteSetTheorems, SequenceTheorems, TLAPS

-----------------------------------------------------------------------------
(* Types *)

\* A list of a queue as a query or an answer holds it.
ListOf == [loaded : BOOLEAN, rows : SUBSET (Ids \X Schedules), behind : BOOLEAN]

\* Marking lists as missing a write keeps what they hold.
LEMMA BehindFacts ==
  ASSUME NEW qs, NEW list \in [Queues -> ListOf]
  PROVE  /\ Behind(qs, list) \in [Queues -> ListOf]
         /\ \A q \in Queues :
              /\ Behind(qs, list)[q].loaded = list[q].loaded
              /\ Behind(qs, list)[q].rows = list[q].rows
              /\ list[q].behind => Behind(qs, list)[q].behind
              /\ q \in qs /\ list[q].loaded => Behind(qs, list)[q].behind
<1> SUFFICES ASSUME NEW q \in Queues
             PROVE  /\ Behind(qs, list)[q] \in ListOf
                    /\ Behind(qs, list)[q].loaded = list[q].loaded
                    /\ Behind(qs, list)[q].rows = list[q].rows
                    /\ list[q].behind => Behind(qs, list)[q].behind
                    /\ q \in qs /\ list[q].loaded => Behind(qs, list)[q].behind
  BY DEF Behind
<1> DEFINE missing == list[q].behind \/ (q \in qs /\ list[q].loaded)
<1>1. list[q] \in ListOf /\ missing \in BOOLEAN
  BY DEF ListOf
<1>2. Behind(qs, list)[q] = [list[q] EXCEPT !.behind = missing]
  BY DEF Behind
<1>3. missing <=> (list[q].behind \/ (q \in qs /\ list[q].loaded))
  OBVIOUS
<1> HIDE DEF missing
<1>4. /\ Behind(qs, list)[q] \in ListOf
      /\ Behind(qs, list)[q].loaded = list[q].loaded
      /\ Behind(qs, list)[q].rows = list[q].rows
      /\ Behind(qs, list)[q].behind = missing
  BY <1>1, <1>2 DEF ListOf
<1> QED
  BY <1>3, <1>4

\* Nothing read, and a list just read.
LEMMA ListFacts ==
  ASSUME TypeOK
  PROVE  /\ Nothing \in ListOf /\ ~ Nothing.loaded
         /\ answered \in [Queues -> ListOf] /\ table \in [Queues -> ListOf]
         /\ \A q \in Queues : Rows(q) \subseteq Ids \X Schedules
         /\ QueueOf \in [Ids -> Queues]
BY QueuesAssumption DEF TypeOK, ListOf, Nothing, Rows, Registered, IdsOf

\* The library's two writes keep the types of what Redis holds.
LEMMA LoosenTypes ==
  ASSUME TypeOK, NEW i \in Ids, Loosen(i)
  PROVE  loose' \in [Ids -> Nat]
BY DEF TypeOK, Loosen

LEMMA WriteTypes ==
  ASSUME TypeOK, NEW i \in Ids, NEW schedule \in Schedules, Upsert(i, schedule) \/ Remove(i)
  PROVE  scheduler' \in [Ids -> Schedules] /\ loose' \in [Ids -> Nat]
<1>1. Loosen(i)
  BY DEF Upsert, Remove
<1>2. loose' \in [Ids -> Nat]
  BY <1>1, LoosenTypes
<1>3. "none" \in Schedules
  BY DEF Schedules
<1> QED
  BY <1>2, <1>3 DEF TypeOK, Upsert, Remove

\* A death keeps the types: what ran is left to run again.
LEMMA DieTypes ==
  ASSUME TypeOK, Die
  PROVE  /\ app' = "down" /\ awaited' = {} /\ calls' = {}
         /\ ticks' \in Seq(Ids) /\ Len(ticks') <= TicksCapacity
         /\ loose' \in [Ids -> Nat] /\ running' \in [Slots -> Ids \cup {Idle}]
         /\ table' \in [Queues -> ListOf] /\ answered' \in [Queues -> ListOf]
<1>1. \A i \in Ids : Cardinality({s \in Slots : running[s] = i}) \in Nat
  <2> SUFFICES ASSUME NEW i \in Ids PROVE Cardinality({s \in Slots : running[s] = i}) \in Nat
    OBVIOUS
  <2> DEFINE slots == {s \in Slots : running[s] = i}
  <2>1. slots \subseteq Slots
    OBVIOUS
  <2> HIDE DEF slots
  <2>2. Cardinality(slots) \in Nat
    BY <2>1, SlotsAssumption, FS_Subset, FS_CardinalityType
  <2> QED
    BY <2>2 DEF slots
<1>2. loose' \in [Ids -> Nat]
  <2> DEFINE n(i) == Cardinality({s \in Slots : running[s] = i})
  <2>1. loose' = [i \in Ids |-> loose[i] + n(i)] /\ \A i \in Ids : n(i) \in Nat
    BY <1>1 DEF Die
  <2> HIDE DEF n
  <2> QED
    BY <2>1 DEF TypeOK
<1>3. ticks' \in Seq(Ids) /\ Len(ticks') = 0
  BY EmptySeq DEF Die
<1>4. table' \in [Queues -> ListOf] /\ answered' \in [Queues -> ListOf]
  BY ListFacts, BehindFacts DEF Die
<1> QED
  BY <1>2, <1>3, <1>4, BoundsAssumption DEF Die

\* HeartbeatTicks keeps at most its capacity.
LEMMA TickTypes ==
  ASSUME TypeOK, NEW s \in Slots, Tick(s)
  PROVE  ticks' \in Seq(Ids) /\ Len(ticks') <= TicksCapacity
<1> DEFINE grown == ticks \o <<running[s]>>
<1>1. running[s] \in Ids
  BY DEF TypeOK, Tick
<1>2. <<running[s]>> \in Seq(Ids) /\ Len(<<running[s]>>) = 1
  BY <1>1
<1>3. /\ grown \in Seq(Ids) /\ Len(grown) = Len(ticks) + 1 /\ Len(ticks) \in Nat
  BY <1>2, ConcatProperties, LenProperties DEF TypeOK
<1>4. ticks' = IF Len(grown) > TicksCapacity THEN Tail(grown) ELSE grown
  BY DEF Tick, Recorded, Kept
<1>5. Len(ticks) <= TicksCapacity /\ TicksCapacity \in Nat \ {0}
  BY BoundsAssumption DEF TypeOK
<1> HIDE DEF grown
<1>6. grown # <<>>
  BY <1>3, EmptySeq
<1>7. Tail(grown) \in Seq(Ids) /\ Len(Tail(grown)) = Len(grown) - 1
  BY <1>3, <1>6, HeadTailProperties
<1> QED
  BY <1>3, <1>4, <1>5, <1>7

\* Before the first boot everything is typed.
LEMMA InitTypes == Init => TypeOK
<1> SUFFICES ASSUME Init PROVE TypeOK
  OBVIOUS
<1>1. ticks \in Seq(Ids) /\ Len(ticks) = 0
  BY EmptySeq DEF Init
<1>2. Nothing \in ListOf /\ "none" \in Schedules
  BY DEF Nothing, ListOf, Schedules
<1>3. answered \in [Queues -> ListOf] /\ table \in [Queues -> ListOf]
  BY <1>2 DEF Init
<1> QED
  BY <1>1, <1>2, <1>3, BoundsAssumption DEF Init, TypeOK, ListOf

\* Every step keeps the types.
LEMMA NextTypes == TypeOK /\ [Next]_vars => TypeOK'
<1> SUFFICES ASSUME TypeOK, [Next]_vars PROVE TypeOK'
  OBVIOUS
<1>0. /\ answered \in [Queues -> ListOf] /\ table \in [Queues -> ListOf]
      /\ Nothing \in ListOf /\ ~ Nothing.loaded
      /\ \A i \in Ids : QueueOf[i] \in Queues
      /\ {MaxEdits, MaxFaults, MaxLives} \subseteq Nat
  BY ListFacts, BoundsAssumption
<1> DEFINE Lists == answered' \in [Queues -> ListOf] /\ table' \in [Queues -> ListOf]
<1>1. CASE Boot
  BY <1>0, <1>1 DEF TypeOK, Boot, redis, page, lists
<1>2. ASSUME NEW b \in Boots, RegisterBoot(b) PROVE TypeOK'
  <2>1. scheduler' \in [Ids -> Schedules] /\ loose' \in [Ids -> Nat]
    BY <1>2, WriteTypes, IdsAssumption DEF RegisterBoot, BootId, Schedules
  <2>2. Lists
    BY <1>0, <1>2, BehindFacts DEF RegisterBoot, WrittenElsewhere
  <2> QED
    BY <1>2, <2>1, <2>2 DEF TypeOK, RegisterBoot, history, ListOf
<1>3. ASSUME NEW b \in Boots, FailBoot(b) PROVE TypeOK'
  BY <1>0, <1>3, DieTypes DEF TypeOK, FailBoot, ListOf
<1>4. CASE Serve
  BY <1>4 DEF TypeOK, Serve, redis, page, lists, history
<1>5. CASE Crash
  BY <1>5, DieTypes DEF TypeOK, Crash, history, ListOf
<1>6. ASSUME NEW i \in Ids, Start(i) PROVE TypeOK'
  <2>1. loose' \in [Ids -> Nat]
    <3>1. loose \in [Ids -> Nat] /\ loose[i] \in Nat
      BY DEF TypeOK
    <3>2. loose' = loose \/ (loose[i] > 0 /\ loose' = [loose EXCEPT ![i] = @ - 1])
      BY <1>6 DEF Start
    <3>3. CASE loose[i] > 0 /\ loose' = [loose EXCEPT ![i] = @ - 1]
      <4>1. loose[i] - 1 \in Nat
        BY <3>1, <3>3
      <4> QED
        BY <3>1, <3>3, <4>1
    <3> QED
      BY <3>1, <3>2, <3>3
  <2>2. running' \in [Slots -> Ids \cup {Idle}]
    BY <1>6 DEF TypeOK, Start
  <2> QED
    BY <1>6, <2>1, <2>2 DEF TypeOK, Start, page, lists, history
<1>7. ASSUME NEW i \in Ids, EditElsewhere(i) PROVE TypeOK'
  <2>1. scheduler' \in [Ids -> Schedules] /\ loose' \in [Ids -> Nat]
    BY <1>7, WriteTypes DEF EditElsewhere, Schedules
  <2>2. Lists
    BY <1>0, <1>7, BehindFacts DEF EditElsewhere, WrittenElsewhere
  <2>3. edits' \in 0 .. MaxEdits /\ touched' \subseteq Ids
    BY <1>0, <1>7 DEF TypeOK, EditElsewhere, Edit
  <2> QED
    BY <1>7, <2>1, <2>2, <2>3 DEF TypeOK, EditElsewhere, process, ListOf
<1>8. ASSUME NEW i \in Ids, NEW op \in {"save", "delete"}, Send(op, i) PROVE TypeOK'
  <2>1. [op |-> op, id |-> i, state |-> "sent"] \in Call
    BY DEF Call
  <2>2. calls' \subseteq Call
    BY <1>8, <2>1 DEF TypeOK, Send
  <2>3. edits' \in 0 .. MaxEdits
    BY <1>0, <1>8 DEF TypeOK, Send
  <2> QED
    BY <1>8, <2>2, <2>3 DEF TypeOK, Send, redis, process, lists
<1>9. ASSUME NEW s \in Slots, Tick(s) PROVE TypeOK'
  BY <1>9, TickTypes DEF TypeOK, Tick, redis, page, lists, history
<1>10. ASSUME NEW c \in calls, Apply(c) PROVE TypeOK'
  <2>1. c \in Call /\ c.id \in Ids
    BY DEF TypeOK, Call
  <2>2. scheduler' \in [Ids -> Schedules] /\ loose' \in [Ids -> Nat]
    BY <1>10, <2>1, WriteTypes DEF Apply, Schedules
  <2>3. [c EXCEPT !.state = "applied"] \in Call
    BY <2>1 DEF Call
  <2>4. calls' \subseteq Call /\ touched' \subseteq Ids
    BY <1>10, <2>1, <2>3 DEF TypeOK, Apply, Applied, Edit
  <2> QED
    BY <1>10, <2>2, <2>4 DEF TypeOK, Apply, process, lists
<1>11. ASSUME NEW c \in calls, Refuse(c) PROVE TypeOK'
  BY <1>11 DEF TypeOK, Refuse, redis, process, lists, history
<1>12. ASSUME NEW c \in calls, OnSuccess(c) PROVE TypeOK'
  <2> DEFINE q == Invalidated(c)
             again == q = shown /\ table[q].loaded
  <2>1. q \in Queues
    BY <1>0 DEF TypeOK, Call, Invalidated
  <2>2. /\ calls' = calls \ {c}
        /\ dirty' = [dirty EXCEPT ![q] = TRUE]
        /\ fetch' = [fetch EXCEPT ![q] = IF again \/ (q = shown /\ @ = "idle") THEN "asked" ELSE @]
        /\ answered' = [answered EXCEPT ![q] =
                          IF again THEN Nothing
                          ELSE IF fetch[q] = "answered" THEN [@ EXCEPT !.behind = TRUE] ELSE @]
        /\ UNCHANGED <<redis, process, shown, table, history>>
    BY <1>12 DEF OnSuccess
  <2> HIDE DEF q, again
  <2>3. [answered[q] EXCEPT !.behind = TRUE] \in ListOf
    BY <1>0, <2>1 DEF ListOf
  <2>4. answered' \in [Queues -> ListOf]
    BY <1>0, <2>1, <2>2, <2>3
  <2>5. fetch' \in [Queues -> {"idle", "asked", "answered"}] /\ dirty' \in [Queues -> BOOLEAN]
    BY <2>1, <2>2 DEF TypeOK
  <2> QED
    BY <2>2, <2>4, <2>5 DEF TypeOK, redis, process, history, ListOf
<1>13. ASSUME NEW q \in Queues, ServeList(q) PROVE TypeOK'
  <2>1. Rows(q) \in SUBSET (Ids \X Schedules)
    BY ListFacts
  <2>2. answered' \in [Queues -> ListOf]
    <3> DEFINE rows == Rows(q)
    <3>1. rows \in SUBSET (Ids \X Schedules)
          /\ answered' = [answered EXCEPT ![q] = [loaded |-> TRUE, rows |-> rows, behind |-> FALSE]]
      BY <1>13, <2>1 DEF ServeList
    <3> HIDE DEF rows
    <3> QED
      BY <1>0, <3>1 DEF ListOf
  <2> QED
    BY <1>13, <2>2 DEF TypeOK, ServeList, redis, process, history, ListOf
<1>14. ASSUME NEW q \in Queues, FailList(q) PROVE TypeOK'
  <2>1. table' \in [Queues -> ListOf]
    BY <1>0, <1>14, BehindFacts DEF FailList
  <2>2. faults' \in 0 .. MaxFaults
    BY <1>0, <1>14 DEF TypeOK, FailList
  <2> QED
    BY <1>14, <2>1, <2>2 DEF TypeOK, FailList, redis, process, ListOf
<1>15. ASSUME NEW q \in Queues, ShowList(q) PROVE TypeOK'
  <2>1. Lists
    BY <1>0, <1>15 DEF ShowList
  <2> QED
    BY <1>15, <2>1 DEF TypeOK, ShowList, redis, process, history, ListOf
<1>16. ASSUME NEW q \in Queues, SelectQueue(q) PROVE TypeOK'
  <2>1. fetch' \in [Queues -> {"idle", "asked", "answered"}]
    BY <1>16 DEF TypeOK, SelectQueue
  <2> QED
    BY <1>16, <2>1 DEF TypeOK, SelectQueue, redis, process, history
<1>17. CASE UNCHANGED vars
  BY <1>17 DEF TypeOK, vars, redis, process, page, lists, history
<1> QED
  BY <1>1, <1>2, <1>3, <1>4, <1>5, <1>6, <1>7, <1>8, <1>9, <1>10, <1>11, <1>12, <1>13, <1>14,
     <1>15, <1>16, <1>17 DEF Next, ClickSave, ClickDelete

\* Type correctness of the schedulers, for every value of the constants.
THEOREM SchedulerTypes == Spec => []TypeOK
BY InitTypes, NextTypes, PTL DEF Spec

-----------------------------------------------------------------------------
(* Boots *)

\* While the process lives, every boot schedule it has an answer for, and that
\* nobody has edited since the boot, is in force; it serves once it has them all.
Complete ==
  /\ app = "serving" => awaited = {}
  /\ app # "down" => \A b \in Boots \ (awaited \cup touched) : scheduler[b] = b

\* Every step keeps it.
LEMMA NextComplete == TypeOK /\ Complete /\ [Next]_vars => Complete'
<1> SUFFICES ASSUME TypeOK, Complete, [Next]_vars PROVE Complete'
  OBVIOUS
<1> USE IdsAssumption
<1>1. CASE Boot
  BY <1>1 DEF Complete, Boot
<1>2. ASSUME NEW b \in Boots, RegisterBoot(b) PROVE Complete'
  <2>1. /\ scheduler' = [scheduler EXCEPT ![b] = b] /\ awaited' = awaited \ {b}
        /\ app = "booting" /\ UNCHANGED <<app, touched>>
    BY <1>2 DEF RegisterBoot, Upsert, BootId, history
  <2> QED
    BY <2>1 DEF TypeOK, Complete
<1>3. ASSUME (\E b \in Boots : FailBoot(b)) \/ Crash PROVE Complete'
  BY <1>3 DEF Complete, FailBoot, Crash, Die
<1>4. CASE Serve
  BY <1>4 DEF Complete, Serve, redis, history
<1>5. ASSUME NEW i \in Ids, Upsert(i, "edited") \/ Remove(i), Edit(i), UNCHANGED process
      PROVE  Complete'
  <2>1. /\ \A b \in Ids \ {i} : scheduler'[b] = scheduler[b]
        /\ UNCHANGED <<app, awaited>>
    BY <1>5 DEF TypeOK, Upsert, Remove, process
  <2>2. touched' = touched \cup {i}
    BY <1>5 DEF Edit
  <2> QED
    BY <2>1, <2>2 DEF Complete
<1>6. ASSUME NEW i \in Ids, EditElsewhere(i) PROVE Complete'
  BY <1>5, <1>6 DEF EditElsewhere
<1>7. ASSUME NEW c \in calls, Apply(c) PROVE Complete'
  <2>1. c.id \in Ids
    BY DEF TypeOK, Call
  <2> QED
    BY <1>5, <1>7, <2>1 DEF Apply
<1>8. ASSUME \/ \E i \in Ids : Start(i) \/ ClickSave(i) \/ ClickDelete(i)
             \/ \E s \in Slots : Tick(s)
             \/ \E c \in calls : Refuse(c) \/ OnSuccess(c)
             \/ \E q \in Queues : ServeList(q) \/ FailList(q) \/ ShowList(q) \/ SelectQueue(q)
             \/ UNCHANGED vars
      PROVE  Complete'
  <2>1. UNCHANGED <<scheduler, app, awaited, touched>>
    BY <1>8 DEF Start, ClickSave, ClickDelete, Send, Tick, Refuse, OnSuccess, ServeList,
       FailList, ShowList, SelectQueue, vars, redis, process, history
  <2> QED
    BY <2>1 DEF Complete
<1> QED
  BY <1>1, <1>2, <1>3, <1>4, <1>6, <1>7, <1>8 DEF Next

\* Requests are served over a complete registration, for any boot schedules.
THEOREM ServedSchedules == Spec => []ServingMeansScheduled
<1>1. Init => Complete
  BY DEF Init, Complete
<1>2. Complete => ServingMeansScheduled
  BY DEF Complete, ServingMeansScheduled
<1> QED
  BY <1>1, <1>2, InitTypes, NextTypes, NextComplete, PTL DEF Spec

-----------------------------------------------------------------------------
(* The page *)

\* No write of the page to q waits to be told to it.
NoneApplied(q) == \A c \in calls : c.state = "applied" => QueueOf[c.id] # q

\* A list that is not known to miss a write misses none.
Current(list, q) == list.loaded /\ ~ list.behind => list.rows = Rows(q)

\* As long as the page has been told of all its writes, the answer on its way
\* misses nothing it does not know of, nor does the table unless the page means
\* to read it again; of the queue on screen it reads again what it means to.
InHand(q) ==
  /\ answered[q].loaded => fetch[q] = "answered"
  /\ NoneApplied(q) => Current(answered[q], q) /\ (dirty[q] \/ Current(table[q], q))
  /\ q = shown /\ dirty[q] /\ fetch[q] = "idle" => ~ table[q].loaded \/ table[q].behind

ListsInv == \A q \in Queues : InHand(q)

\* A write about one id leaves what is registered on the other queues.
LEMMA OtherRows ==
  ASSUME TypeOK, NEW i \in Ids, NEW schedule,
         scheduler' = [scheduler EXCEPT ![i] = schedule],
         NEW q \in Queues, q # QueueOf[i]
  PROVE  Rows(q)' = Rows(q)
<1>1. \A j \in IdsOf(q) : j # i /\ j \in Ids
  BY DEF IdsOf
<1>2. \A j \in IdsOf(q) : scheduler'[j] = scheduler[j]
  BY <1>1 DEF TypeOK
<1>3. Registered(q)' = Registered(q) /\ Registered(q) \subseteq IdsOf(q)
  BY <1>2 DEF Registered, IdsOf
<1> QED
  BY <1>2, <1>3 DEF Rows

\* A step that takes nothing from the lists of q but their good name, and
\* neither registers on q nor takes back an applied write.
LEMMA QuietKeeps ==
  ASSUME NEW q \in Queues, InHand(q),
         UNCHANGED <<shown, fetch>>, dirty'[q] = dirty[q],
         Rows(q)' = Rows(q), NoneApplied(q)' => NoneApplied(q),
         answered'[q].loaded = answered[q].loaded, answered'[q].rows = answered[q].rows,
         answered[q].behind => answered'[q].behind,
         table'[q].loaded = table[q].loaded, table'[q].rows = table[q].rows,
         table[q].behind => table'[q].behind
  PROVE  InHand(q)'
BY DEF InHand, Current

\* A step that marks both lists of q as missing a write.
LEMMA MarkedKeeps ==
  ASSUME NEW q \in Queues, InHand(q), UNCHANGED fetch,
         answered'[q].loaded = answered[q].loaded, answered'[q].loaded => answered'[q].behind,
         table'[q].loaded = table[q].loaded, table'[q].loaded => table'[q].behind
  PROVE  InHand(q)'
BY DEF InHand, Current

\* A write the page is not told of marks the lists of its queue.
LEMMA ElsewhereKeeps ==
  ASSUME TypeOK, ListsInv, NEW i \in Ids, NEW schedule,
         Upsert(i, schedule) \/ Remove(i), WrittenElsewhere(QueueOf[i]),
         UNCHANGED <<shown, calls, fetch, dirty>>
  PROVE  ListsInv'
<1>1. \E s : scheduler' = [scheduler EXCEPT ![i] = s]
  BY DEF Upsert, Remove
<1>2. table' = Behind({QueueOf[i]}, table) /\ answered' = Behind({QueueOf[i]}, answered)
  BY DEF WrittenElsewhere
<1> SUFFICES ASSUME NEW q \in Queues PROVE InHand(q)'
  BY DEF ListsInv
<1>3. /\ table'[q].loaded = table[q].loaded /\ table'[q].rows = table[q].rows
      /\ table[q].behind => table'[q].behind
      /\ answered'[q].loaded = answered[q].loaded /\ answered'[q].rows = answered[q].rows
      /\ answered[q].behind => answered'[q].behind
      /\ q = QueueOf[i] => /\ table[q].loaded => table'[q].behind
                           /\ answered[q].loaded => answered'[q].behind
  BY <1>2, ListFacts, BehindFacts
<1>4. InHand(q)
  BY DEF ListsInv
<1>5. CASE q = QueueOf[i]
  BY <1>3, <1>4, <1>5, MarkedKeeps
<1>6. CASE q # QueueOf[i]
  <2>1. Rows(q)' = Rows(q)
    BY <1>1, <1>6, OtherRows
  <2>2. NoneApplied(q)' = NoneApplied(q)
    BY DEF NoneApplied
  <2> QED
    BY <1>3, <1>4, <2>1, <2>2, QuietKeeps
<1> QED
  BY <1>5, <1>6

\* A death marks the lists of every queue.
LEMMA DieKeeps ==
  ASSUME TypeOK, ListsInv, Die, UNCHANGED fetch
  PROVE  ListsInv'
<1> SUFFICES ASSUME NEW q \in Queues PROVE InHand(q)'
  BY DEF ListsInv
<1>1. /\ table'[q].loaded = table[q].loaded /\ (table[q].loaded => table'[q].behind)
      /\ answered'[q].loaded = answered[q].loaded /\ (answered[q].loaded => answered'[q].behind)
  BY ListFacts, BehindFacts DEF Die
<1> QED
  BY <1>1, MarkedKeeps DEF ListsInv

\* A step that touches neither the lists nor what is registered, nor takes back
\* an applied write.
LEMMA AsideKeeps ==
  ASSUME ListsInv, UNCHANGED <<scheduler, shown, lists>>,
         \A c \in calls : c.state = "applied" => c \in calls'
  PROVE  ListsInv'
<1> SUFFICES ASSUME NEW q \in Queues PROVE InHand(q)'
  BY DEF ListsInv
<1>1. Rows(q)' = Rows(q)
  BY DEF Rows, Registered
<1>2. NoneApplied(q)' => NoneApplied(q)
  BY DEF NoneApplied
<1> QED
  BY <1>1, <1>2, QuietKeeps DEF ListsInv, lists

\* An endpoint's write marks nothing, but the page is still to be told of it.
LEMMA ApplyKeeps ==
  ASSUME TypeOK, ListsInv, NEW c \in calls, Apply(c)
  PROVE  ListsInv'
<1>0. c \in Call /\ c.id \in Ids
  BY DEF TypeOK, Call
<1>1. /\ \E s : scheduler' = [scheduler EXCEPT ![c.id] = s]
      /\ c.state = "sent" /\ calls' = (calls \ {c}) \cup {[c EXCEPT !.state = "applied"]}
      /\ UNCHANGED <<shown, fetch, answered, table, dirty>>
  BY DEF Apply, Upsert, Remove, Applied, lists
<1>2. /\ [c EXCEPT !.state = "applied"].state = "applied"
      /\ [c EXCEPT !.state = "applied"].id = c.id
  BY <1>0 DEF Call
<1> SUFFICES ASSUME NEW q \in Queues PROVE InHand(q)'
  BY DEF ListsInv
<1>3. CASE q = QueueOf[c.id]
  <2>1. ~ NoneApplied(q)'
    BY <1>1, <1>2, <1>3 DEF NoneApplied
  <2> QED
    BY <1>1, <2>1 DEF ListsInv, InHand
<1>4. CASE q # QueueOf[c.id]
  <2>1. Rows(q)' = Rows(q)
    BY <1>0, <1>1, <1>4, OtherRows
  <2>2. NoneApplied(q)' => NoneApplied(q)
    BY <1>1 DEF NoneApplied
  <2> QED
    BY <1>1, <2>1, <2>2, QuietKeeps DEF ListsInv
<1> QED
  BY <1>3, <1>4

\* The page is told of a write: the answer it has may miss it, and it means to
\* read the table again.
LEMMA OnSuccessKeeps ==
  ASSUME TypeOK, ListsInv, NEW c \in calls, OnSuccess(c)
  PROVE  ListsInv'
<1> DEFINE p == QueueOf[c.id]
           again == p = shown /\ table[p].loaded
<1>0. c.id \in Ids /\ p \in Queues
  BY QueuesAssumption DEF TypeOK, Call
<1>1. /\ calls' = calls \ {c} /\ c.state = "applied"
      /\ dirty' = [dirty EXCEPT ![p] = TRUE]
      /\ fetch' = [fetch EXCEPT ![p] = IF again \/ (p = shown /\ @ = "idle") THEN "asked" ELSE @]
      /\ answered' = [answered EXCEPT ![p] =
                        IF again THEN Nothing
                        ELSE IF fetch[p] = "answered" THEN [@ EXCEPT !.behind = TRUE] ELSE @]
      /\ UNCHANGED <<scheduler, shown, table>>
  BY DEF OnSuccess, Invalidated, redis
<1> SUFFICES ASSUME NEW q \in Queues PROVE InHand(q)'
  BY DEF ListsInv
<1>2. InHand(q) /\ Rows(q)' = Rows(q)
  BY <1>1 DEF ListsInv, Rows, Registered
<1>3. CASE q = p
  <2>1. /\ dirty'[q] = TRUE
        /\ fetch'[q] = IF again \/ (q = shown /\ fetch[q] = "idle") THEN "asked" ELSE fetch[q]
        /\ answered'[q] = IF again THEN Nothing
                          ELSE IF fetch[q] = "answered" THEN [answered[q] EXCEPT !.behind = TRUE]
                          ELSE answered[q]
    BY <1>0, <1>1, <1>3, ListFacts DEF TypeOK
  <2>2. answered[q] \in ListOf /\ ~ Nothing.loaded
    BY ListFacts
  <2>3. /\ [answered[q] EXCEPT !.behind = TRUE].behind = TRUE
        /\ [answered[q] EXCEPT !.behind = TRUE].loaded = answered[q].loaded
    BY <2>2 DEF ListOf
  <2>4. answered'[q].loaded => fetch'[q] = "answered" /\ answered'[q].behind
    BY <1>2, <2>1, <2>2, <2>3 DEF InHand
  <2>5. ~ (q = shown /\ fetch'[q] = "idle")
    BY <2>1
  <2> QED
    BY <1>1, <2>1, <2>4, <2>5 DEF InHand, Current
<1>4. CASE q # p
  <2>1. dirty'[q] = dirty[q] /\ fetch'[q] = fetch[q] /\ answered'[q] = answered[q]
    BY <1>0, <1>1, <1>4, ListFacts DEF TypeOK
  <2>2. NoneApplied(q)' => NoneApplied(q)
    BY <1>1, <1>4 DEF NoneApplied
  <2> QED
    BY <1>1, <1>2, <2>1, <2>2 DEF InHand, Current
<1> QED
  BY <1>3, <1>4

\* A read is answered with what is registered.
LEMMA ServeListKeeps ==
  ASSUME TypeOK, ListsInv, NEW q \in Queues, ServeList(q)
  PROVE  ListsInv'
<1> DEFINE rows == Rows(q)
<1>1. /\ fetch' = [fetch EXCEPT ![q] = "answered"]
      /\ answered' = [answered EXCEPT ![q] = [loaded |-> TRUE, rows |-> rows, behind |-> FALSE]]
      /\ UNCHANGED <<scheduler, shown, calls, table, dirty>>
  BY DEF ServeList, redis
<1>2. rows = Rows(q)
  OBVIOUS
<1> HIDE DEF rows
<1> SUFFICES ASSUME NEW p \in Queues PROVE InHand(p)'
  BY DEF ListsInv
<1>3. InHand(p) /\ Rows(p)' = Rows(p) /\ NoneApplied(p)' = NoneApplied(p)
  BY <1>1 DEF ListsInv, Rows, Registered, NoneApplied
<1>4. CASE p = q
  <2>1. fetch'[p] = "answered" /\ answered'[p].rows = Rows(p)
    BY <1>1, <1>2, <1>4, ListFacts DEF TypeOK
  <2> QED
    BY <1>1, <1>3, <2>1 DEF InHand, Current
<1>5. CASE p # q
  <2>1. fetch'[p] = fetch[p] /\ answered'[p] = answered[p]
    BY <1>1, <1>5, ListFacts DEF TypeOK
  <2> QED
    BY <1>1, <1>3, <2>1 DEF InHand, Current
<1> QED
  BY <1>4, <1>5

\* A read fails for good: the table stays, and misses what it was to bring.
LEMMA FailListKeeps ==
  ASSUME TypeOK, ListsInv, NEW q \in Queues, FailList(q)
  PROVE  ListsInv'
<1>1. /\ fetch[q] = "asked" /\ fetch' = [fetch EXCEPT ![q] = "idle"]
      /\ table' = Behind({q}, table)
      /\ UNCHANGED <<scheduler, shown, calls, answered, dirty>>
  BY DEF FailList, redis
<1> SUFFICES ASSUME NEW p \in Queues PROVE InHand(p)'
  BY DEF ListsInv
<1>2. InHand(p) /\ Rows(p)' = Rows(p) /\ NoneApplied(p)' = NoneApplied(p)
  BY <1>1 DEF ListsInv, Rows, Registered, NoneApplied
<1>3. /\ table'[p].loaded = table[p].loaded /\ table'[p].rows = table[p].rows
      /\ table[p].behind => table'[p].behind
      /\ p = q => (table[p].loaded => table'[p].behind)
  BY <1>1, ListFacts, BehindFacts
<1>4. /\ p = q => fetch[p] = "asked" /\ fetch'[p] = "idle"
      /\ p # q => fetch'[p] = fetch[p]
  BY <1>1 DEF TypeOK
<1> QED
  BY <1>1, <1>2, <1>3, <1>4 DEF InHand, Current

\* The answer becomes the table.
LEMMA ShowListKeeps ==
  ASSUME TypeOK, ListsInv, NEW q \in Queues, ShowList(q)
  PROVE  ListsInv'
<1>1. /\ fetch' = [fetch EXCEPT ![q] = "idle"] /\ table' = [table EXCEPT ![q] = answered[q]]
      /\ answered' = [answered EXCEPT ![q] = Nothing] /\ dirty' = [dirty EXCEPT ![q] = FALSE]
      /\ UNCHANGED <<scheduler, shown, calls>>
  BY DEF ShowList, redis
<1> SUFFICES ASSUME NEW p \in Queues PROVE InHand(p)'
  BY DEF ListsInv
<1>2. InHand(p) /\ Rows(p)' = Rows(p) /\ NoneApplied(p)' = NoneApplied(p)
  BY <1>1 DEF ListsInv, Rows, Registered, NoneApplied
<1>3. CASE p = q
  <2>1. dirty'[p] = FALSE /\ table'[p] = answered[p] /\ ~ answered'[p].loaded
    BY <1>1, <1>3, ListFacts DEF TypeOK
  <2> QED
    BY <1>2, <2>1 DEF InHand, Current
<1>4. CASE p # q
  <2>1. /\ fetch'[p] = fetch[p] /\ answered'[p] = answered[p]
        /\ table'[p] = table[p] /\ dirty'[p] = dirty[p]
    BY <1>1, <1>4, ListFacts DEF TypeOK
  <2> QED
    BY <1>1, <1>2, <2>1 DEF InHand, Current
<1> QED
  BY <1>3, <1>4

\* A tab is selected: what the page means to read again it reads.
LEMMA SelectKeeps ==
  ASSUME TypeOK, ListsInv, NEW q \in Queues, SelectQueue(q)
  PROVE  ListsInv'
<1>1. PICK f \in {"asked", "idle"} :
        /\ f = "idle" => ~ dirty[q]
        /\ fetch' = [fetch EXCEPT ![q] = IF @ = "idle" THEN f ELSE @]
  BY DEF SelectQueue, MayReuse
<1>2. shown' = q /\ UNCHANGED <<scheduler, calls, answered, table, dirty>>
  BY DEF SelectQueue, redis
<1> SUFFICES ASSUME NEW p \in Queues PROVE InHand(p)'
  BY DEF ListsInv
<1>3. InHand(p) /\ Rows(p)' = Rows(p) /\ NoneApplied(p)' = NoneApplied(p)
  BY <1>2 DEF ListsInv, Rows, Registered, NoneApplied
<1>4. /\ p = q => fetch'[p] = IF fetch[p] = "idle" THEN f ELSE fetch[p]
      /\ p # q => fetch'[p] = fetch[p]
  BY <1>1 DEF TypeOK
<1> QED
  BY <1>1, <1>2, <1>3, <1>4 DEF InHand, Current

\* Every step keeps what the page has in hand.
LEMMA NextLists == TypeOK /\ ListsInv /\ [Next]_vars => ListsInv'
<1> SUFFICES ASSUME TypeOK, ListsInv, [Next]_vars PROVE ListsInv'
  OBVIOUS
<1>1. ASSUME NEW b \in Boots, RegisterBoot(b) PROVE ListsInv'
  BY <1>1, ElsewhereKeeps, IdsAssumption DEF RegisterBoot, BootId
<1>2. ASSUME NEW b \in Boots, FailBoot(b) PROVE ListsInv'
  BY <1>2, DieKeeps DEF FailBoot
<1>3. CASE Crash
  BY <1>3, DieKeeps DEF Crash
<1>4. ASSUME NEW i \in Ids, EditElsewhere(i) PROVE ListsInv'
  <2>1. /\ Upsert(i, "edited") \/ Remove(i)
        /\ WrittenElsewhere(QueueOf[i]) /\ UNCHANGED <<shown, calls, fetch, dirty>>
    BY <1>4 DEF EditElsewhere
  <2> QED
    BY <2>1, ElsewhereKeeps
<1>5. ASSUME NEW i \in Ids, NEW op, Send(op, i) PROVE ListsInv'
  BY <1>5, AsideKeeps DEF Send, redis
<1>6. ASSUME NEW c \in calls, Refuse(c) PROVE ListsInv'
  <2>1. \A d \in calls : d.state = "applied" => d \in calls'
    BY <1>6 DEF Refuse
  <2> QED
    BY <1>6, <2>1, AsideKeeps DEF Refuse, redis
<1>7. ASSUME Boot \/ Serve \/ (\E s \in Slots : Tick(s)) \/ UNCHANGED vars PROVE ListsInv'
  BY <1>7, AsideKeeps DEF Boot, Serve, Tick, vars, redis, page
<1>8. ASSUME NEW i \in Ids, Start(i) PROVE ListsInv'
  BY <1>8, AsideKeeps DEF Start, page
<1> QED
  BY <1>1, <1>2, <1>3, <1>4, <1>5, <1>6, <1>7, <1>8, ApplyKeeps, OnSuccessKeeps, ServeListKeeps,
     FailListKeeps, ShowListKeeps, SelectKeeps DEF Next, ClickSave, ClickDelete

\* A list on screen that has settled is what is registered, for any queues,
\* ids, operators and deaths.
THEOREM SettledLists == Spec => []SettledListIsTheRegistry
<1>1. Init => ListsInv
  BY ListFacts, InitTypes DEF Init, ListsInv, InHand, Current
<1>2. TypeOK /\ ListsInv => SettledListIsTheRegistry
  BY DEF TypeOK, ListsInv, InHand, Current, NoneApplied, SettledListIsTheRegistry
<1> QED
  BY <1>1, <1>2, InitTypes, NextTypes, NextLists, PTL DEF Spec

-----------------------------------------------------------------------------
(* Readiness *)

\* The types without the bounds that only keep the model finite.
Probe == [stage : {"idle", "get", "getAll"}, awaits : SUBSET Cached, elapsed : 0 .. Timeout]

\* A step of the cache or of the environment leaves the probes well-formed.
LEMMA IdleIsProbe == NoProbe \in Probe
BY TimesAssumption DEF NoProbe, Asking, Probe

\* Initially everything has its type.
LEMMA InitHealthTypes == HealthInit => HealthTypeOK
<1> SUFFICES ASSUME HealthInit PROVE HealthTypeOK
  OBVIOUS
<1> USE TimesAssumption, FaultsAssumption DEF HealthInit
<1>1. probes \in [Chips -> Probe] /\ \A c \in Chips : probes[c].awaits = {} => probes[c] = NoProbe
  BY IdleIsProbe
<1> QED
  BY <1>1 DEF HealthTypeOK, Absent, Expired, Probe

\* Ending a probe, and telling its chip, keeps the types.
LEMMA EndTypes ==
  ASSUME HealthTypeOK, NEW c \in Chips, Ended(c),
         Succeed(c) \/ Fail(c)
  PROVE  /\ probes' \in [Chips -> Probe]
         /\ \A d \in Chips : probes'[d].awaits = {} => probes'[d] = NoProbe
         /\ data' \subseteq Chips /\ error' \subseteq Chips /\ upDuring' \in 0 .. Expired
<1>1. probes' \in [Chips -> Probe]
  BY IdleIsProbe DEF HealthTypeOK, Ended, Probe
<1>2. \A d \in Chips : probes'[d].awaits = {} => probes'[d] = NoProbe
  BY DEF HealthTypeOK, Ended
<1>3. CASE Succeed(c)
  BY <1>1, <1>2, <1>3 DEF HealthTypeOK, Succeed
<1>4. CASE Fail(c)
  BY <1>1, <1>2, <1>4 DEF HealthTypeOK, Fail
<1> QED
  BY <1>3, <1>4

\* Every step keeps the types.
LEMMA NextHealthTypes == HealthTypeOK /\ [HealthNext]_healthVars => HealthTypeOK'
<1> SUFFICES ASSUME HealthTypeOK, [HealthNext]_healthVars PROVE HealthTypeOK'
  OBVIOUS
<1> USE TimesAssumption, FaultsAssumption, ProbedAssumption
<1>1. ASSUME NEW c \in Chips, Poll(c) PROVE HealthTypeOK'
  <2>1. CASE api = "down"
    BY <1>1, <2>1 DEF HealthTypeOK, Poll, Fail, cache, bounds
  <2>2. CASE api = "up" /\ Fresh(Probed) /\ Stale(Cached) = {}
    BY <1>1, <2>2 DEF HealthTypeOK, Poll, Succeed, cache, bounds
  <2>3. CASE api = "up" /\ ~ (Fresh(Probed) /\ Stale(Cached) = {})
    <3>1. /\ data' = data /\ upDuring' = upDuring /\ error' \subseteq Chips
          /\ UNCHANGED <<link, outage, api, cache, bounds>>
      BY <1>1, <2>3 DEF HealthTypeOK, Poll, Refetching
    <3>2. PICK stage \in {"get", "getAll"}, qs \in SUBSET Cached :
            /\ qs # {}
            /\ probes' = [probes EXCEPT ![c] = Asking(stage, qs)]
      <4>1. CASE Fresh(Probed)
        <5>1. Stale(Cached) \in SUBSET Cached /\ Stale(Cached) # {}
          BY <2>3, <4>1 DEF Stale
        <5>2. probes' = [probes EXCEPT ![c] = Asking("getAll", Stale(Cached))]
          BY <1>1, <2>3, <4>1 DEF Poll
        <5> QED
          BY <5>1, <5>2
      <4>2. CASE ~ Fresh(Probed)
        <5>1. probes' = [probes EXCEPT ![c] = Asking("get", {Probed})]
          BY <1>1, <2>3, <4>2 DEF Poll
        <5> QED
          BY <5>1
      <4> QED
        BY <4>1, <4>2
    <3>3. Asking(stage, qs) \in Probe /\ Asking(stage, qs).awaits # {}
      BY <3>2 DEF Asking, Probe
    <3>4. /\ probes' \in [Chips -> Probe]
          /\ \A d \in Chips : probes'[d].awaits = {} => probes'[d] = NoProbe
      BY <3>2, <3>3 DEF HealthTypeOK, Probe
    <3> QED
      BY <3>1, <3>4 DEF HealthTypeOK, cache, bounds, Probe
  <2> QED
    BY <2>1, <2>2, <2>3 DEF HealthTypeOK
<1>2. ASSUME NEW c \in Chips, Rejected(c) PROVE HealthTypeOK'
  BY <1>2, EndTypes DEF HealthTypeOK, Rejected, Probe, bounds
<1>3. ASSUME NEW c \in Chips, TimedOut(c) PROVE HealthTypeOK'
  BY <1>3, EndTypes DEF HealthTypeOK, TimedOut, Abandon, Probe, bounds
<1>4. ASSUME NEW c \in Chips, NEW q \in Cached, Fetched(c, q) PROVE HealthTypeOK'
  <2>1. /\ age' \in [Cached -> 0 .. Absent]
        /\ UNCHANGED <<link, outage, api, fetches, bounds>>
    BY <1>4 DEF HealthTypeOK, Fetched, Absent
  <2>2. CASE Ended(c) /\ Succeed(c)
    BY <2>1, <2>2, EndTypes DEF HealthTypeOK, Probe, bounds
  <2>3. CASE probes[c].awaits # {q}
    <3>1. probes' = [probes EXCEPT ![c].awaits = @ \ {q}] /\ UNCHANGED query
      BY <1>4, <2>3 DEF Fetched
    <3>2. q \in probes[c].awaits
      BY <1>4 DEF Fetched
    <3> QED
      BY <2>1, <2>3, <3>1, <3>2 DEF HealthTypeOK, query, bounds
  <2>4. ASSUME NEW missing \in SUBSET Cached, missing # {}, UNCHANGED query,
               probes' = [probes EXCEPT ![c].stage = "getAll", ![c].awaits = missing]
        PROVE  HealthTypeOK'
    <3>1. probes' \in [Chips -> Probe]
      BY <2>4 DEF HealthTypeOK, Probe
    <3>2. \A d \in Chips : probes'[d].awaits = {} => probes'[d] = NoProbe
      BY <2>4 DEF HealthTypeOK
    <3> QED
      BY <2>1, <2>4, <3>1, <3>2 DEF HealthTypeOK, Probe, query, bounds
  <2>5. CASE probes[c].awaits = {q} /\ probes[c].stage = "get" /\ ~ (Ended(c) /\ Succeed(c))
    <3> DEFINE missing == {p \in Cached \ {Probed} : p \notin {r \in Cached : Fresh(r)}}
    <3>1. /\ missing # {} /\ UNCHANGED query
          /\ probes' = [probes EXCEPT ![c].stage = "getAll", ![c].awaits = missing]
      BY <1>4, <2>5 DEF Fetched, GetAll
    <3> QED
      BY <2>4, <3>1
  <2> QED
    BY <1>4, <2>2, <2>3, <2>5 DEF Fetched
<1>5. ASSUME NEW q \in Cached, FetchedLate(q) PROVE HealthTypeOK'
  BY <1>5 DEF HealthTypeOK, FetchedLate, Stale, Absent, query, bounds
<1>6. ASSUME NEW qs \in SUBSET Cached, InvalidateMetrics(qs) PROVE HealthTypeOK'
  BY <1>6 DEF HealthTypeOK, InvalidateMetrics, Absent, query, bounds
<1>7. ASSUME NEW qs \in SUBSET Cached, Collect(qs) PROVE HealthTypeOK'
  BY <1>7 DEF HealthTypeOK, Collect, Stale, query, bounds
<1>8. CASE LoseRedis
  BY <1>8 DEF HealthTypeOK, LoseRedis, cache, query
<1>9. CASE RegainRedis
  BY <1>9 DEF HealthTypeOK, RegainRedis, Expired, cache, query, bounds
<1>10. CASE ApiDies
  <2>1. /\ probes' \in [Chips -> Probe]
        /\ \A c \in Chips : probes'[c].awaits = {} => probes'[c] = NoProbe
    BY <1>10, IdleIsProbe DEF ApiDies
  <2> QED
    BY <1>10, <2>1 DEF HealthTypeOK, ApiDies, Absent, Probe
<1>11. CASE Restart
  BY <1>11 DEF HealthTypeOK, Restart, cache, query, bounds
<1>12. CASE TimePasses
  <2>1. \A c \in Chips : probes'[c] \in Probe /\ (probes'[c].awaits = {} => probes'[c] = NoProbe)
    <3>1. SUFFICES ASSUME NEW c \in Chips
                   PROVE  probes'[c] \in Probe /\ (probes'[c].awaits = {} => probes'[c] = NoProbe)
      OBVIOUS
    <3>2. probes[c] \in Probe /\ (probes[c].awaits = {} => probes[c] = NoProbe)
      BY DEF HealthTypeOK, Probe
    <3>3. CASE probes[c] = NoProbe \/ probes[c].elapsed = Timeout
      BY <1>12, <3>2, <3>3 DEF TimePasses
    <3>4. CASE ~ (probes[c] = NoProbe \/ probes[c].elapsed = Timeout)
      <4>1. probes'[c] = Waited(probes[c])
        BY <1>12, <3>4 DEF TimePasses
      <4>2. probes[c].awaits # {} /\ probes[c].elapsed + 1 \in 0 .. Timeout
        BY <3>2, <3>4 DEF Probe
      <4> QED
        BY <3>2, <4>1, <4>2 DEF Waited, Probe
    <3> QED
      BY <3>3, <3>4
  <2>2. /\ outage' \in 0 .. Expired /\ link' = link
        /\ link = "up" => outage' = 0
    <3>1. outage' = IF link = "up" \/ outage = Expired THEN outage ELSE outage + 1
      BY <1>12 DEF TimePasses
    <3> QED
      BY <1>12, <3>1 DEF HealthTypeOK, TimePasses, Expired
  <2>3. age' \in [Cached -> 0 .. Absent]
    BY <1>12 DEF HealthTypeOK, TimePasses, Absent
  <2> QED
    <3>1. probes' \in [Chips -> Probe]
      BY <1>12, <2>1 DEF TimePasses
    <3> QED
      BY <1>12, <2>1, <2>2, <2>3, <3>1 DEF HealthTypeOK, TimePasses, Probe, query, bounds
<1>13. CASE UNCHANGED healthVars
  BY <1>13 DEF HealthTypeOK, healthVars, cache, query, bounds
<1> QED
  BY <1>1, <1>2, <1>3, <1>4, <1>5, <1>6, <1>7, <1>8, <1>9, <1>10, <1>11, <1>12, <1>13
     DEF HealthNext, ReadOne, ReadMetrics, OverviewPage, FreshnessMeter, InvalidateCache,
        InvalidateAll

\* Type correctness of readiness, for every value of the constants.
THEOREM ReadinessTypes == HealthSpec => []HealthTypeOK
BY InitHealthTypes, NextHealthTypes, PTL DEF HealthSpec

-----------------------------------------------------------------------------

\* No snapshot in the cache is younger than the outage under way: during one,
\* nothing is collected, and both age alike.
CacheOutlivesOutage == \A q \in Cached : outage <= age[q]

HealthInv == HealthTypeOK /\ CacheOutlivesOutage /\ FailsClosed

\* The invariant holds initially.
LEMMA InitHealth == HealthInit => HealthInv
<1> SUFFICES ASSUME HealthInit PROVE HealthInv
  OBVIOUS
<1>1. HealthTypeOK
  BY InitHealthTypes
<1> QED
  BY <1>1, TimesAssumption DEF HealthInit, HealthInv, CacheOutlivesOutage, FailsClosed, Absent

\* An answer "up" while Redis is reachable, or from a fresh snapshot, keeps
\* the promise.
LEMMA SucceedKeeps ==
  ASSUME HealthTypeOK, CacheOutlivesOutage, FailsClosed, NEW c \in Chips, Succeed(c),
         link = "up" \/ \E q \in Cached : Fresh(q)
  PROVE  FailsClosed'
BY TimesAssumption DEF HealthTypeOK, CacheOutlivesOutage, FailsClosed, Succeed, Fresh, Expired,
   Absent

\* Every step keeps the invariant.
LEMMA NextHealth == HealthInv /\ [HealthNext]_healthVars => HealthInv'
<1> SUFFICES ASSUME HealthInv, [HealthNext]_healthVars PROVE HealthInv'
  OBVIOUS
<1> USE TimesAssumption, ProbedAssumption
<1>0. HealthTypeOK /\ HealthTypeOK' /\ CacheOutlivesOutage /\ FailsClosed
  BY NextHealthTypes DEF HealthInv
<1> SUFFICES CacheOutlivesOutage' /\ FailsClosed'
  BY <1>0 DEF HealthInv
<1>1. ASSUME NEW c \in Chips, Poll(c) PROVE CacheOutlivesOutage' /\ FailsClosed'
  <2>1. CacheOutlivesOutage'
    BY <1>0, <1>1 DEF CacheOutlivesOutage, Poll, cache
  <2>2. FailsClosed' \/ (Succeed(c) /\ Fresh(Probed))
    BY <1>0, <1>1 DEF Poll, Fail, FailsClosed
  <2> QED
    BY <1>0, <2>1, <2>2, SucceedKeeps
<1>2. ASSUME NEW c \in Chips, Rejected(c) \/ TimedOut(c) PROVE CacheOutlivesOutage' /\ FailsClosed'
  BY <1>0, <1>2 DEF CacheOutlivesOutage, FailsClosed, Rejected, TimedOut, Fail
<1>3. ASSUME NEW c \in Chips, NEW q \in Cached, Fetched(c, q)
      PROVE  CacheOutlivesOutage' /\ FailsClosed'
  <2>1. link = "up" /\ outage = 0 /\ outage' = outage
    BY <1>0, <1>3 DEF HealthTypeOK, Fetched
  <2>2. CacheOutlivesOutage'
    BY <1>0, <2>1 DEF CacheOutlivesOutage, HealthTypeOK
  <2>3. FailsClosed' \/ Succeed(c)
    BY <1>0, <1>3 DEF Fetched, GetAll, FailsClosed, query
  <2> QED
    BY <1>0, <2>1, <2>2, <2>3, SucceedKeeps
<1>4. ASSUME NEW q \in Cached, FetchedLate(q) PROVE CacheOutlivesOutage' /\ FailsClosed'
  BY <1>0, <1>4 DEF CacheOutlivesOutage, FailsClosed, FetchedLate, HealthTypeOK, query
<1>5. ASSUME NEW qs \in SUBSET Cached, InvalidateMetrics(qs)
      PROVE  CacheOutlivesOutage' /\ FailsClosed'
  BY <1>0, <1>5 DEF CacheOutlivesOutage, FailsClosed, InvalidateMetrics, HealthTypeOK, Absent,
     Expired, query
<1>6. ASSUME \/ \E qs \in SUBSET Cached : Collect(qs)
             \/ LoseRedis \/ Restart \/ UNCHANGED healthVars
      PROVE  CacheOutlivesOutage' /\ FailsClosed'
  BY <1>0, <1>6 DEF CacheOutlivesOutage, FailsClosed, Collect, LoseRedis, Restart, healthVars,
     cache, query
<1>7. CASE RegainRedis
  BY <1>0, <1>7 DEF CacheOutlivesOutage, FailsClosed, RegainRedis, HealthTypeOK, cache, query
<1>8. CASE ApiDies
  BY <1>0, <1>8 DEF CacheOutlivesOutage, FailsClosed, ApiDies, HealthTypeOK, Absent, Expired
<1>9. CASE TimePasses
  BY <1>0, <1>9 DEF CacheOutlivesOutage, FailsClosed, TimePasses, HealthTypeOK, Absent, Expired,
     query
<1> QED
  BY <1>1, <1>2, <1>3, <1>4, <1>5, <1>6, <1>7, <1>8, <1>9
     DEF HealthNext, ReadOne, ReadMetrics, OverviewPage, FreshnessMeter, InvalidateCache,
        InvalidateAll

\* Readiness fails closed for every cache time, timeout and set of queues: an
\* "up" is never given in an outage older than the cache's time.
THEOREM ReadinessFailsClosed == HealthSpec => []FailsClosed
<1>1. HealthInv => FailsClosed
  BY DEF HealthInv
<1> QED
  BY <1>1, InitHealth, NextHealth, PTL DEF HealthSpec

=============================================================================
