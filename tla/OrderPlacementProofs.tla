------------------------- MODULE OrderPlacementProofs -------------------------
(***************************************************************************)
(* Placing, reminding and campaigns for any number of orders and labs, any *)
(* capacity of the repository and any bounds: the types, the jobs behind   *)
(* every answer, and the orders the repository keeps.                      *)
(*                                                                         *)
(* The steps fall into three parts that hardly touch each other: orders    *)
(* with the labs that hold them, campaigns, and the repository with the    *)
(* history of what it stored.                                              *)
(***************************************************************************)
EXTENDS OrderPlacement, SequenceTheorems, TLAPS

USE BoundsAssumption

-----------------------------------------------------------------------------
(* The invariant *)

\* Where the request is decides which of the order's jobs exist.
OrderInv(o) ==
  /\ placing[o] \in {"none", "receipt"} => receipts[o] = 0 /\ webhooks[o] = 0
  /\ placing[o] = "webhook" => receipts[o] = 1 /\ webhooks[o] = 0
  /\ placing[o] = "placed" => receipts[o] = 1 /\ webhooks[o] = 1
  /\ webhooks[o] = 1 => receipts[o] = 1

\* An order belongs to the one lab that placed it.
Holds(l, o) == o # NoOrder /\ o \in {lab[l].placing, lab[l].last, lab[l].reminding}

Owned ==
  /\ \A l \in OrderLabs, o \in Orders : Holds(l, o) => placing[o] # "none"
  /\ \A l, m \in OrderLabs, o \in Orders : Holds(l, o) /\ Holds(m, o) => l = m

\* A reminder is in Redis or at its enqueue only if it was asked for.
Reminding(o)   == \E l \in OrderLabs : lab[l].reminding = o
ReminderInv(o) == reminders[o] + (IF Reminding(o) THEN 1 ELSE 0) <= asked[o]

CampaignInv(c) ==
  /\ campaign[c].state = "sent" => batches[c] = campaign[c].count
  /\ campaign[c].state = "refused" => batches[c] = 0

\* The repository is the end of what was stored, position by position.
RepositoryInv ==
  /\ Len(repository) = IF Len(saved) < MaxOrders THEN Len(saved) ELSE MaxOrders
  /\ \A i \in 1 .. Len(repository) :
       repository[i] = saved[Len(saved) - Len(repository) + i]

Inv ==
  /\ TypeOK /\ Owned /\ RepositoryInv
  /\ \A o \in Orders : OrderInv(o) /\ ReminderInv(o)
  /\ \A c \in CampaignLabs : CampaignInv(c)

\* The types, part by part.
OrderTypes ==
  /\ placing \in [Orders -> Answers \cup {"none", "receipt", "webhook"}]
  /\ lab \in [OrderLabs -> Lab]
  /\ receipts \in [Orders -> 0 .. 1]
  /\ webhooks \in [Orders -> 0 .. 1]

ReminderTypes ==
  /\ reminders \in [Orders -> 0 .. MaxReminders]
  /\ asked \in [Orders -> 0 .. MaxReminders]

CampaignTypes ==
  /\ campaign \in [CampaignLabs -> Campaign]
  /\ batches \in [CampaignLabs -> 0 .. MaxBulk]

RepositoryTypes ==
  /\ repository \in Seq(Orders) /\ Len(repository) <= MaxOrders
  /\ saved \in Seq(Orders)

Counters == faults \in 0 .. MaxFaults /\ crashes \in 0 .. MaxCrashes

OrderPart ==
  /\ OrderTypes /\ ReminderTypes /\ Owned
  /\ \A o \in Orders : OrderInv(o) /\ ReminderInv(o)
CampaignPart   == CampaignTypes /\ \A c \in CampaignLabs : CampaignInv(c)
RepositoryPart == RepositoryTypes /\ RepositoryInv

LEMMA Parts == Inv <=> OrderPart /\ CampaignPart /\ RepositoryPart /\ Counters
BY DEF Inv, TypeOK, OrderTypes, ReminderTypes, CampaignTypes, RepositoryTypes, Counters, OrderPart,
   CampaignPart, RepositoryPart

LEMMA PartsNext == Inv' <=> OrderPart' /\ CampaignPart' /\ RepositoryPart' /\ Counters'
BY DEF Inv, TypeOK, OrderTypes, ReminderTypes, CampaignTypes, RepositoryTypes, Counters, OrderPart,
   CampaignPart, RepositoryPart

-----------------------------------------------------------------------------
(* The repository *)

\* A stored order is the newest, and at capacity the oldest goes.
LEMMA StoredKeeps ==
  ASSUME RepositoryPart, NEW o \in Orders, repository' = Saved(o), saved' = Append(saved, o)
  PROVE  RepositoryPart'
<1> DEFINE n == Len(repository)
           k == Len(saved)
<1>1. /\ repository \in Seq(Orders) /\ saved \in Seq(Orders) /\ n \in Nat /\ k \in Nat
      /\ n = IF k < MaxOrders THEN k ELSE MaxOrders
      /\ \A i \in 1 .. n : repository[i] = saved[k - n + i]
  BY LenProperties DEF RepositoryPart, RepositoryTypes, RepositoryInv
<1>2. /\ saved' \in Seq(Orders) /\ Len(saved') = k + 1
      /\ \A i \in 1 .. k : saved'[i] = saved[i]
      /\ saved'[k + 1] = o
  BY <1>1, AppendProperties
<1>3. MaxOrders \in Nat /\ MaxOrders > 0
  OBVIOUS
<1>4. CASE ~ (n >= MaxOrders)
  <2>1. repository' = Append(repository, o)
    BY <1>4 DEF Saved
  <2>2. /\ repository' \in Seq(Orders) /\ Len(repository') = n + 1
        /\ \A i \in 1 .. n : repository'[i] = repository[i]
        /\ repository'[n + 1] = o
    BY <1>1, <2>1, AppendProperties
  <2>3. n = k /\ n < MaxOrders
    <3> HIDE DEF n, k
    <3> QED
      BY <1>1, <1>3, <1>4
  <2>4. Len(repository') = IF Len(saved') < MaxOrders THEN Len(saved') ELSE MaxOrders
    <3> HIDE DEF n, k
    <3> QED
      BY <1>1, <1>2, <1>3, <2>2, <2>3
  <2>5. ASSUME NEW i \in 1 .. Len(repository')
        PROVE  repository'[i] = saved'[Len(saved') - Len(repository') + i]
    <3> HIDE DEF n, k
    <3>1. Len(saved') - Len(repository') + i = i
      BY <1>1, <1>2, <2>2, <2>3
    <3>2. CASE i = n + 1
      BY <1>2, <2>2, <2>3, <3>1, <3>2
    <3>3. CASE i \in 1 .. n
      <4>1. k - n + i = i
        BY <1>1, <2>3, <3>3
      <4> QED
        BY <1>1, <1>2, <2>2, <2>3, <3>1, <3>3, <4>1
    <3>4. i = n + 1 \/ i \in 1 .. n
      BY <1>1, <2>2
    <3> QED
      BY <3>2, <3>3, <3>4
  <2> QED
    BY <1>2, <1>3, <2>2, <2>3, <2>4, <2>5 DEF RepositoryPart, RepositoryTypes, RepositoryInv
<1>5. CASE n >= MaxOrders
  <2> DEFINE tl == Tail(repository)
  <2>1. repository' = Append(tl, o)
    BY <1>5 DEF Saved
  <2>2. n = MaxOrders /\ MaxOrders <= k
    <3> HIDE DEF n, k
    <3> QED
      BY <1>1, <1>3, <1>5
  <2>3. repository # <<>>
    BY <1>3, <2>2, EmptySeq
  <2>4. /\ tl \in Seq(Orders) /\ Len(tl) = n - 1
        /\ \A i \in 1 .. Len(tl) : tl[i] = repository[i + 1]
    BY <1>1, <2>3, HeadTailProperties
  <2> HIDE DEF tl
  <2>5. /\ repository' \in Seq(Orders) /\ Len(repository') = Len(tl) + 1
        /\ \A i \in 1 .. Len(tl) : repository'[i] = tl[i]
        /\ repository'[Len(tl) + 1] = o
    BY <2>1, <2>4, AppendProperties
  <2>6. Len(repository') = n
    <3> HIDE DEF n, k
    <3> QED
      BY <1>1, <2>4, <2>5
  <2>7. Len(repository') = IF Len(saved') < MaxOrders THEN Len(saved') ELSE MaxOrders
    <3> HIDE DEF n, k
    <3> QED
      BY <1>1, <1>2, <1>3, <2>2, <2>6
  <2>8. ASSUME NEW i \in 1 .. Len(repository')
        PROVE  repository'[i] = saved'[Len(saved') - Len(repository') + i]
    <3> HIDE DEF n, k
    <3>1. Len(saved') - Len(repository') + i = k - n + (i + 1) /\ i \in 1 .. n
      BY <1>1, <1>2, <2>6
    <3>2. CASE i = n
      <4>1. repository'[i] = o /\ k - n + (i + 1) = k + 1
        BY <1>1, <2>4, <2>5, <3>2
      <4> QED
        BY <1>2, <3>1, <4>1
    <3>3. CASE i # n
      <4>1. i \in 1 .. Len(tl) /\ i + 1 \in 1 .. n /\ k - n + (i + 1) \in 1 .. k
        BY <1>1, <1>3, <2>2, <2>4, <3>1, <3>3
      <4>2. repository'[i] = repository[i + 1]
        BY <2>4, <2>5, <4>1
      <4>3. repository[i + 1] = saved[k - n + (i + 1)]
        BY <1>1, <4>1
      <4> QED
        BY <1>2, <3>1, <4>1, <4>2, <4>3
    <3> QED
      BY <3>2, <3>3
  <2> QED
    BY <1>2, <1>3, <2>2, <2>5, <2>6, <2>7, <2>8 DEF RepositoryPart, RepositoryTypes, RepositoryInv
<1> QED
  BY <1>4, <1>5

\* An empty repository, at the start of a process.
LEMMA EmptyRepository ==
  ASSUME repository = <<>>, saved = <<>> PROVE RepositoryPart
<1>1. <<>> \in Seq(Orders) /\ Len(<<>>) = 0
  BY EmptySeq
<1>2. MaxOrders \in Nat /\ MaxOrders > 0
  OBVIOUS
<1> QED
  BY <1>1, <1>2 DEF RepositoryPart, RepositoryTypes, RepositoryInv

LEMMA EmptiedRepository ==
  ASSUME repository' = <<>>, saved' = <<>> PROVE RepositoryPart'
<1>1. <<>> \in Seq(Orders) /\ Len(<<>>) = 0
  BY EmptySeq
<1>2. MaxOrders \in Nat /\ MaxOrders > 0
  OBVIOUS
<1> QED
  BY <1>1, <1>2 DEF RepositoryPart, RepositoryTypes, RepositoryInv

\* What the position-wise invariant says of the sequences.
LEMMA SuffixOfSaved == ASSUME RepositoryPart PROVE RepositoryKeepsNewest
<1> DEFINE n == Len(repository)
           k == Len(saved)
           r == Reverse(repository)
           s == Reverse(saved)
<1>1. /\ repository \in Seq(Orders) /\ saved \in Seq(Orders) /\ n \in Nat /\ k \in Nat
      /\ n = IF k < MaxOrders THEN k ELSE MaxOrders
      /\ \A i \in 1 .. n : repository[i] = saved[k - n + i]
  BY LenProperties DEF RepositoryPart, RepositoryTypes, RepositoryInv
<1>2. n <= k
  <2> HIDE DEF n, k
  <2> QED
    BY <1>1
<1>3. Len(r) = n /\ Len(s) = k
  BY <1>1 DEF Reverse
<1>4. \A i \in 1 .. n : r[i] = s[i]
  <2>1. ASSUME NEW i \in 1 .. n PROVE r[i] = s[i]
    <3>1. r[i] = repository[n - i + 1] /\ s[i] = saved[k - i + 1]
      BY <1>1, <1>2 DEF Reverse
    <3> HIDE DEF n, k
    <3>2. n - i + 1 \in 1 .. n /\ k - n + (n - i + 1) = k - i + 1
      BY <1>1
    <3> QED
      BY <1>1, <3>1, <3>2
  <2> QED
    BY <2>1
<1>5. SubSeq(r, 1, Len(r)) = SubSeq(s, 1, Len(r))
  <2> HIDE DEF r, s, n, k
  <2>1. SubSeq(r, 1, Len(r)) = [i \in 1 .. n |-> r[i]] /\ SubSeq(s, 1, Len(r)) = [i \in 1 .. n |-> s[i]]
    BY <1>1, <1>3
  <2> QED
    BY <1>4, <2>1
<1>6. IsPrefix(r, s)
  BY <1>2, <1>3, <1>5 DEF IsPrefix
<1> QED
  BY <1>6 DEF RepositoryKeepsNewest, IsSuffix, RepositoryPart, RepositoryInv

-----------------------------------------------------------------------------
(* Campaigns *)

LEMMA BuildJobsType ==
  ASSUME NEW n \in Nat PROVE BuildJobs(n) \in 0 .. MaxBulk /\ BuildJobs(n) \in {0, n}
BY DEF BuildJobs

\* The state and size of a lab's campaign.
LEMMA CampaignNumbers ==
  ASSUME CampaignTypes, NEW c \in CampaignLabs
  PROVE  /\ campaign[c] \in Campaign /\ campaign[c].count \in Nat
         /\ campaign[c].count \in 0 .. MaxCampaignSize + 1
         /\ batches[c] \in 0 .. MaxBulk
BY DEF CampaignTypes, Campaign

\* A step that moves one lab's campaign to a new state.
LEMMA CampaignMoves ==
  ASSUME CampaignPart, NEW c \in CampaignLabs, NEW e \in Campaign, NEW b \in 0 .. MaxBulk,
         campaign' = [campaign EXCEPT ![c] = e], batches' = [batches EXCEPT ![c] = b],
         e.state = "sent" => b = e.count, e.state = "refused" => b = 0
  PROVE  CampaignPart'
<1>1. CampaignTypes /\ \A d \in CampaignLabs : CampaignInv(d)
  BY DEF CampaignPart
<1>2. CampaignTypes'
  BY <1>1 DEF CampaignTypes
<1>3. ASSUME NEW d \in CampaignLabs PROVE CampaignInv(d)'
  <2>1. CASE d = c
    <3>1. campaign'[d] = e /\ batches'[d] = b
      BY <1>1, <2>1 DEF CampaignTypes
    <3> QED
      BY <3>1 DEF CampaignInv
  <2>2. CASE d # c
    <3>1. campaign'[d] = campaign[d] /\ batches'[d] = batches[d]
      BY <1>1, <2>2 DEF CampaignTypes
    <3> QED
      BY <1>1, <3>1 DEF CampaignInv
  <2> QED
    BY <2>1, <2>2
<1> QED
  BY <1>2, <1>3 DEF CampaignPart

\* A request, within the endpoint's cap or refused.
LEMMA SendCampaignKeeps ==
  ASSUME CampaignPart, NEW c \in CampaignLabs, NEW n \in 1 .. MaxCampaignSize + 1,
         SendCampaign(c, n)
  PROVE  CampaignPart'
<1> DEFINE e == [state |-> IF Parsed(n) THEN "open" ELSE "refused", count |-> n]
<1>1. e \in Campaign /\ e.state # "sent" /\ 0 \in 0 .. MaxBulk
  BY DEF Campaign
<1>2. campaign' = [campaign EXCEPT ![c] = e] /\ batches' = [batches EXCEPT ![c] = 0]
  BY DEF SendCampaign
<1> HIDE DEF e
<1> QED
  BY <1>1, <1>2, CampaignMoves

\* The library takes the whole batch or nothing.
LEMMA EnqueueBulkKeeps ==
  ASSUME CampaignPart, NEW c \in CampaignLabs, EnqueueBulk(c)
  PROVE  CampaignPart'
<1> DEFINE b == BuildJobs(campaign[c].count)
           e == [campaign[c] EXCEPT !.state = IF b = 0 THEN "refused" ELSE "sent"]
<1>1. campaign[c] \in Campaign /\ campaign[c].count \in Nat
  BY CampaignNumbers DEF CampaignPart
<1>2. b \in 0 .. MaxBulk /\ b \in {0, campaign[c].count}
  BY <1>1, BuildJobsType
<1>3. campaign' = [campaign EXCEPT ![c] = e] /\ batches' = [batches EXCEPT ![c] = b]
  BY DEF EnqueueBulk
<1> HIDE DEF b
<1>4. /\ e \in Campaign /\ e.count = campaign[c].count
      /\ e.state = IF b = 0 THEN "refused" ELSE "sent"
  BY <1>1 DEF Campaign
<1> HIDE DEF e
<1> QED
  BY <1>2, <1>3, <1>4, CampaignMoves

LEMMA FailBulkKeeps ==
  ASSUME CampaignPart, NEW c \in CampaignLabs, FailBulk(c)
  PROVE  CampaignPart'
<1> DEFINE e == [campaign[c] EXCEPT !.state = "error"]
<1>1. campaign[c] \in Campaign /\ campaign[c].count \in Nat
  BY CampaignNumbers DEF CampaignPart
<1>2. PICK b \in {0, BuildJobs(campaign[c].count)} : batches' = [batches EXCEPT ![c] = b]
  BY DEF FailBulk
<1>3. b \in 0 .. MaxBulk
  BY <1>1, <1>2, BuildJobsType
<1>4. campaign' = [campaign EXCEPT ![c] = e]
  BY DEF FailBulk
<1>5. e \in Campaign /\ e.state = "error"
  BY <1>1 DEF Campaign
<1> HIDE DEF e
<1> QED
  BY <1>2, <1>3, <1>4, <1>5, CampaignMoves

\* A crash leaves the open campaigns without an answer, applied or not.
LEMMA CampaignsCrash == ASSUME CampaignPart, Crash PROVE CampaignPart'
<1>1. CampaignTypes /\ \A d \in CampaignLabs : CampaignInv(d)
  BY DEF CampaignPart
<1>2. campaign' = [c \in CampaignLabs |->
                     IF campaign[c].state = "open" THEN [campaign[c] EXCEPT !.state = "lost"]
                     ELSE campaign[c]]
  BY DEF Crash
<1>3. PICK applied \in SUBSET {c \in CampaignLabs : campaign[c].state = "open"} :
        batches' = [c \in CampaignLabs |->
                      IF c \in applied THEN BuildJobs(campaign[c].count) ELSE batches[c]]
  BY DEF Crash
<1>4. ASSUME NEW c \in CampaignLabs
      PROVE  campaign'[c] \in Campaign /\ batches'[c] \in 0 .. MaxBulk /\ CampaignInv(c)'
  <2>1. /\ campaign[c] \in Campaign /\ campaign[c].count \in Nat /\ batches[c] \in 0 .. MaxBulk
        /\ BuildJobs(campaign[c].count) \in 0 .. MaxBulk
    BY <1>1, CampaignNumbers, BuildJobsType
  <2>2. batches'[c] = IF c \in applied THEN BuildJobs(campaign[c].count) ELSE batches[c]
    BY <1>3
  <2>3. CASE campaign[c].state = "open"
    <3>1. campaign'[c] = [campaign[c] EXCEPT !.state = "lost"]
      BY <1>2, <2>3
    <3>2. campaign'[c] \in Campaign /\ campaign'[c].state = "lost"
      BY <2>1, <3>1 DEF Campaign
    <3> QED
      BY <2>1, <2>2, <3>2 DEF CampaignInv
  <2>4. CASE campaign[c].state # "open"
    <3>1. campaign'[c] = campaign[c] /\ batches'[c] = batches[c]
      BY <1>2, <1>3, <2>2, <2>4
    <3> QED
      BY <1>1, <2>1, <3>1 DEF CampaignInv
  <2> QED
    BY <2>3, <2>4
<1>5. CampaignTypes'
  BY <1>2, <1>3, <1>4 DEF CampaignTypes
<1> QED
  BY <1>4, <1>5 DEF CampaignPart

-----------------------------------------------------------------------------
(* Orders *)

\* What a lab holds.
LEMMA LabTypes ==
  ASSUME OrderTypes, NEW l \in OrderLabs
  PROVE  /\ lab[l] \in Lab
         /\ {lab[l].placing, lab[l].last, lab[l].reminding} \subseteq Orders \cup {NoOrder}
BY DEF OrderTypes, Lab

\* The numbers of an order.
LEMMA OrderNumbers ==
  ASSUME OrderTypes, ReminderTypes, NEW o \in Orders
  PROVE  /\ receipts[o] \in {0, 1} /\ webhooks[o] \in {0, 1}
         /\ reminders[o] \in Nat /\ asked[o] \in Nat /\ asked[o] <= MaxReminders /\ o # NoOrder
BY DEF OrderTypes, ReminderTypes

\* Labs that come to hold nothing new keep to their own orders.
LEMMA OwnedShrinks ==
  ASSUME Owned,
         \A l \in OrderLabs, o \in Orders : Holds(l, o)' => Holds(l, o),
         \A o \in Orders : placing[o] # "none" => placing'[o] # "none"
  PROVE  Owned'
BY DEF Owned

\* The lab of an answered request lets go of it, or remembers the order.
LEMMA ToldLabs ==
  ASSUME OrderTypes, NEW o \in Orders, NEW placed \in BOOLEAN, Told(o, placed)
  PROVE  /\ lab' \in [OrderLabs -> Lab]
         /\ \A l \in OrderLabs : lab'[l].reminding = lab[l].reminding
         /\ \A l \in OrderLabs, p \in Orders : Holds(l, p)' => Holds(l, p)
<1>1. ASSUME NEW l \in OrderLabs
      PROVE  /\ lab'[l] \in Lab /\ lab'[l].reminding = lab[l].reminding
             /\ \A p \in Orders : Holds(l, p)' => Holds(l, p)
  <2>1. lab[l] \in Lab
    BY LabTypes
  <2>2. CASE lab[l].placing # o
    <3>1. lab'[l] = lab[l]
      BY <2>2 DEF Told
    <3> QED
      BY <2>1, <3>1 DEF Holds
  <2>3. CASE lab[l].placing = o
    <3>1. lab'[l] = [lab[l] EXCEPT !.placing = NoOrder, !.last = IF placed THEN o ELSE @]
      BY <2>3 DEF Told
    <3>2. /\ lab'[l] \in Lab /\ lab'[l].placing = NoOrder /\ lab'[l].reminding = lab[l].reminding
          /\ lab'[l].last \in {o, lab[l].last}
      BY <2>1, <3>1 DEF Lab
    <3> QED
      BY <2>3, <3>2 DEF Holds
  <2> QED
    BY <2>2, <2>3
<1>2. lab' = [l \in OrderLabs |-> lab'[l]]
  BY DEF Told
<1> QED
  BY <1>1, <1>2

\* Reminders do not depend on the rest of a lab.
LEMMA ReminderFrame ==
  ASSUME NEW o \in Orders, ReminderInv(o), reminders' = reminders, asked' = asked,
         \A l \in OrderLabs : lab'[l].reminding = lab[l].reminding
  PROVE  ReminderInv(o)'
BY DEF ReminderInv, Reminding

\* A fresh order comes into one lab's hands.
LEMMA PlaceKeeps ==
  ASSUME OrderPart, NEW l \in OrderLabs, NEW o \in Orders, Place(l, o)
  PROVE  OrderPart'
<1>1. /\ OrderTypes /\ ReminderTypes /\ Owned /\ o # NoOrder
      /\ \A p \in Orders : OrderInv(p) /\ ReminderInv(p)
  BY DEF OrderPart
<1>2. /\ placing[o] = "none" /\ placing' = [placing EXCEPT ![o] = "receipt"]
      /\ lab[l].placing = NoOrder /\ lab' = [lab EXCEPT ![l] = [lab[l] EXCEPT !.placing = o]]
      /\ receipts' = receipts /\ webhooks' = webhooks /\ reminders' = reminders /\ asked' = asked
  BY DEF Place, Stored, redis
<1>3. /\ lab[l] \in Lab /\ [lab[l] EXCEPT !.placing = o] \in Lab
      /\ [lab[l] EXCEPT !.placing = o].placing = o
      /\ [lab[l] EXCEPT !.placing = o].last = lab[l].last
      /\ [lab[l] EXCEPT !.placing = o].reminding = lab[l].reminding
  BY <1>1, LabTypes DEF Lab
<1>4. /\ lab' \in [OrderLabs -> Lab] /\ lab'[l].placing = o /\ lab'[l].last = lab[l].last
      /\ lab'[l].reminding = lab[l].reminding
      /\ \A m \in OrderLabs : m # l => lab'[m] = lab[m]
  BY <1>1, <1>2, <1>3 DEF OrderTypes
<1>5. /\ placing' \in [Orders -> Answers \cup {"none", "receipt", "webhook"}]
      /\ placing'[o] = "receipt" /\ \A p \in Orders : p # o => placing'[p] = placing[p]
  BY <1>1, <1>2 DEF OrderTypes
<1>6. OrderTypes' /\ ReminderTypes'
  BY <1>1, <1>2, <1>4, <1>5 DEF OrderTypes, ReminderTypes
<1>7. Owned'
  <2>1. \A m \in OrderLabs, p \in Orders : Holds(m, p)' => Holds(m, p) \/ (m = l /\ p = o)
    BY <1>2, <1>4 DEF Holds
  <2>2. \A m \in OrderLabs : ~ Holds(m, o)
    BY <1>1, <1>2 DEF Owned
  <2>3. ASSUME NEW m \in OrderLabs, NEW p \in Orders, Holds(m, p)' PROVE placing'[p] # "none"
    <3>1. CASE p = o
      BY <1>5, <3>1
    <3>2. CASE p # o
      BY <1>1, <1>5, <2>1, <2>3, <3>2 DEF Owned
    <3> QED
      BY <3>1, <3>2
  <2>4. ASSUME NEW m \in OrderLabs, NEW k \in OrderLabs, NEW p \in Orders, Holds(m, p)', Holds(k, p)'
        PROVE  m = k
    <3>1. CASE p = o
      BY <2>1, <2>2, <2>4, <3>1
    <3>2. CASE p # o
      BY <1>1, <2>1, <2>4, <3>2 DEF Owned
    <3> QED
      BY <3>1, <3>2
  <2> QED
    BY <2>3, <2>4 DEF Owned
<1>8. ASSUME NEW p \in Orders PROVE OrderInv(p)' /\ ReminderInv(p)'
  <2>1. OrderInv(p)'
    <3>1. OrderInv(p) /\ (placing'[p] = placing[p] \/ (placing[p] = "none" /\ placing'[p] = "receipt"))
      BY <1>1, <1>2, <1>5
    <3> QED
      BY <1>2, <3>1 DEF OrderInv
  <2>2. ReminderInv(p)'
    BY <1>1, <1>2, <1>4, ReminderFrame
  <2> QED
    BY <2>1, <2>2
<1> QED
  BY <1>6, <1>7, <1>8 DEF OrderPart

\* A step of one request: its order's jobs and place change, the labs may be told.
Moves(o, q, r, w) ==
  /\ placing[o] # "none" /\ placing' = [placing EXCEPT ![o] = q]
  /\ receipts' = [receipts EXCEPT ![o] = r] /\ webhooks' = [webhooks EXCEPT ![o] = w]
  /\ reminders' = reminders /\ asked' = asked
  /\ lab' = lab \/ \E placed \in BOOLEAN : Told(o, placed)
  /\ q = "webhook" => r = 1 /\ w = 0
  /\ q = "placed" => r = 1 /\ w = 1
  /\ w = 1 => r = 1

LEMMA RequestMoves ==
  ASSUME OrderPart, NEW o \in Orders, NEW q \in Answers \cup {"webhook"},
         NEW r \in {0, 1}, NEW w \in {0, 1}, Moves(o, q, r, w)
  PROVE  OrderPart'
<1> USE DEF Moves
<1>1. /\ OrderTypes /\ ReminderTypes /\ Owned
      /\ \A p \in Orders : OrderInv(p) /\ ReminderInv(p)
  BY DEF OrderPart
<1>2. /\ lab' \in [OrderLabs -> Lab]
      /\ \A l \in OrderLabs : lab'[l].reminding = lab[l].reminding
      /\ \A l \in OrderLabs, p \in Orders : Holds(l, p)' => Holds(l, p)
  <2>1. CASE lab' = lab
    BY <1>1, <2>1 DEF OrderTypes, Holds
  <2>2. CASE \E placed \in BOOLEAN : Told(o, placed)
    BY <1>1, <2>2, ToldLabs
  <2> QED
    BY <2>1, <2>2
<1>3. /\ placing' \in [Orders -> Answers \cup {"none", "receipt", "webhook"}]
      /\ receipts' \in [Orders -> 0 .. 1] /\ webhooks' \in [Orders -> 0 .. 1]
      /\ placing'[o] = q /\ receipts'[o] = r /\ webhooks'[o] = w
      /\ \A p \in Orders : p # o => /\ placing'[p] = placing[p] /\ receipts'[p] = receipts[p]
                                    /\ webhooks'[p] = webhooks[p]
  BY <1>1 DEF OrderTypes
<1>4. OrderTypes' /\ ReminderTypes'
  BY <1>1, <1>2, <1>3 DEF OrderTypes, ReminderTypes
<1>5. q \notin {"none", "receipt"}
  BY DEF Answers
<1>6. Owned'
  <2>1. \A p \in Orders : placing[p] # "none" => placing'[p] # "none"
    BY <1>3, <1>5
  <2> QED
    BY <1>1, <1>2, <2>1, OwnedShrinks
<1>7. ASSUME NEW p \in Orders PROVE OrderInv(p)' /\ ReminderInv(p)'
  <2>1. OrderInv(p)'
    <3>1. CASE p = o
      BY <1>3, <1>5, <3>1 DEF OrderInv
    <3>2. CASE p # o
      BY <1>1, <1>3, <3>2 DEF OrderInv
    <3> QED
      BY <3>1, <3>2
  <2>2. ReminderInv(p)'
    BY <1>1, <1>2, ReminderFrame
  <2> QED
    BY <2>1, <2>2
<1> QED
  BY <1>4, <1>6, <1>7 DEF OrderPart

LEMMA EnqueueReceiptKeeps ==
  ASSUME OrderPart, NEW o \in Orders, EnqueueReceipt(o) PROVE OrderPart'
<1>1. /\ placing[o] = "receipt" /\ placing' = [placing EXCEPT ![o] = "webhook"]
      /\ receipts' = [receipts EXCEPT ![o] = @ + 1]
      /\ webhooks' = webhooks /\ reminders' = reminders /\ asked' = asked /\ lab' = lab
  BY DEF EnqueueReceipt, history
<1>2. OrderTypes /\ receipts[o] = 0 /\ webhooks[o] = 0
  BY <1>1 DEF OrderPart, OrderInv
<1>3. receipts' = [receipts EXCEPT ![o] = 1] /\ webhooks' = [webhooks EXCEPT ![o] = 0]
  BY <1>1, <1>2 DEF OrderTypes
<1>4. Moves(o, "webhook", 1, 0)
  BY <1>1, <1>3 DEF Moves
<1> QED
  BY <1>4, RequestMoves

LEMMA EnqueueWebhookKeeps ==
  ASSUME OrderPart, NEW o \in Orders, EnqueueWebhook(o) PROVE OrderPart'
<1>1. /\ placing[o] = "webhook" /\ placing' = [placing EXCEPT ![o] = "placed"]
      /\ webhooks' = [webhooks EXCEPT ![o] = @ + 1] /\ Told(o, TRUE)
      /\ receipts' = receipts /\ reminders' = reminders /\ asked' = asked
  BY DEF EnqueueWebhook, history
<1>2. OrderTypes /\ receipts[o] = 1 /\ webhooks[o] = 0
  BY <1>1 DEF OrderPart, OrderInv
<1>3. receipts' = [receipts EXCEPT ![o] = 1] /\ webhooks' = [webhooks EXCEPT ![o] = 1]
  BY <1>1, <1>2 DEF OrderTypes
<1>4. "placed" \in Answers /\ \E placed \in BOOLEAN : Told(o, placed)
  BY <1>1 DEF Answers
<1>5. Moves(o, "placed", 1, 1)
  BY <1>1, <1>3, <1>4 DEF Moves
<1> QED
  BY <1>4, <1>5, RequestMoves

\* What was done before a failed enqueue stays, and the enqueue may count.
LEMMA FailEnqueueKeeps ==
  ASSUME OrderPart, NEW o \in Orders, FailEnqueue(o) PROVE OrderPart'
<1>1. PICK applied \in {0, 1} :
        IF placing[o] = "receipt"
        THEN receipts' = [receipts EXCEPT ![o] = applied] /\ webhooks' = webhooks
        ELSE webhooks' = [webhooks EXCEPT ![o] = applied] /\ receipts' = receipts
  BY DEF FailEnqueue
<1>2. /\ placing[o] \in {"receipt", "webhook"} /\ placing' = [placing EXCEPT ![o] = "error"]
      /\ Told(o, FALSE) /\ reminders' = reminders /\ asked' = asked
  BY DEF FailEnqueue
<1>3. "error" \in Answers /\ (\E placed \in BOOLEAN : Told(o, placed)) /\ OrderTypes /\ OrderInv(o)
  BY <1>2 DEF Answers, OrderPart
<1>4. CASE placing[o] = "receipt"
  <2>1. webhooks[o] = 0 /\ receipts' = [receipts EXCEPT ![o] = applied]
        /\ webhooks' = [webhooks EXCEPT ![o] = 0]
    BY <1>1, <1>3, <1>4 DEF OrderInv, OrderTypes
  <2>2. Moves(o, "error", applied, 0)
    BY <1>2, <1>3, <2>1 DEF Moves
  <2> QED
    BY <1>3, <2>2, RequestMoves
<1>5. CASE placing[o] = "webhook"
  <2>1. receipts[o] = 1 /\ webhooks' = [webhooks EXCEPT ![o] = applied]
        /\ receipts' = [receipts EXCEPT ![o] = 1]
    BY <1>1, <1>3, <1>5 DEF OrderInv, OrderTypes
  <2>2. Moves(o, "error", 1, applied)
    BY <1>2, <1>3, <2>1 DEF Moves
  <2> QED
    BY <1>3, <2>2, RequestMoves
<1> QED
  BY <1>2, <1>4, <1>5

-----------------------------------------------------------------------------
(* Reminders *)

\* The lab's slot for a reminder changes, nothing else of the labs does.
Reslots(l, r) ==
  /\ placing' = placing /\ receipts' = receipts /\ webhooks' = webhooks
  /\ lab' = [lab EXCEPT ![l].reminding = r]

LEMMA ReslotLabs ==
  ASSUME OrderPart, NEW l \in OrderLabs, NEW r \in {NoOrder, lab[l].last}, Reslots(l, r)
  PROVE  /\ OrderTypes' /\ Owned' /\ \A o \in Orders : OrderInv(o)'
         /\ lab'[l].reminding = r
         /\ \A m \in OrderLabs : m # l => lab'[m] = lab[m]
<1>1. OrderTypes /\ Owned /\ \A o \in Orders : OrderInv(o)
  BY DEF OrderPart
<1>2. lab[l] \in Lab /\ r \in Orders \cup {NoOrder}
  BY <1>1, LabTypes
<1> DEFINE e == [lab[l] EXCEPT !.reminding = r]
<1>3. /\ e \in Lab /\ e.placing = lab[l].placing /\ e.last = lab[l].last /\ e.reminding = r
  BY <1>2 DEF Lab
<1>4. lab' = [lab EXCEPT ![l] = e]
  BY DEF Reslots
<1> HIDE DEF e
<1>5. /\ lab' \in [OrderLabs -> Lab] /\ lab'[l] = e
      /\ \A m \in OrderLabs : m # l => lab'[m] = lab[m]
  BY <1>1, <1>3, <1>4 DEF OrderTypes
<1>6. OrderTypes'
  BY <1>1, <1>5 DEF Reslots, OrderTypes
<1>7. \A m \in OrderLabs, o \in Orders : Holds(m, o)' => Holds(m, o)
  BY <1>3, <1>5 DEF Holds
<1>8. Owned'
  BY <1>1, <1>7, OwnedShrinks DEF Reslots
<1>9. \A o \in Orders : OrderInv(o)'
  BY <1>1 DEF Reslots, OrderInv
<1> QED
  BY <1>3, <1>5, <1>6, <1>8, <1>9

\* Asking for an unknown order leaves only the count.
LEMMA RemindUnknownKeeps ==
  ASSUME OrderPart, NEW l \in OrderLabs, RemindUnknown(l) PROVE OrderPart'
<1>1. OrderTypes /\ ReminderTypes /\ Owned /\ \A o \in Orders : OrderInv(o) /\ ReminderInv(o)
  BY DEF OrderPart
<1> DEFINE p == lab[l].last
<1>2. /\ p # NoOrder /\ asked[p] < MaxReminders /\ asked' = [asked EXCEPT ![p] = @ + 1]
      /\ placing' = placing /\ lab' = lab /\ receipts' = receipts /\ webhooks' = webhooks
      /\ reminders' = reminders
  BY DEF RemindUnknown, CanAsk, redis
<1>3. p \in Orders
  BY <1>1, <1>2, LabTypes
<1> HIDE DEF p
<1>4. /\ asked' \in [Orders -> 0 .. MaxReminders] /\ asked'[p] = asked[p] + 1
      /\ \A o \in Orders : o # p => asked'[o] = asked[o]
  BY <1>1, <1>2, <1>3 DEF ReminderTypes
<1>5. OrderTypes' /\ ReminderTypes' /\ Owned' /\ \A o \in Orders : OrderInv(o)'
  BY <1>1, <1>2, <1>4 DEF OrderTypes, ReminderTypes, Owned, Holds, OrderInv
<1>6. ASSUME NEW o \in Orders PROVE ReminderInv(o)'
  <2>1. ReminderInv(o) /\ asked[o] \in Nat /\ reminders[o] \in Nat /\ asked[o] <= asked'[o] /\ asked'[o] \in Nat
    BY <1>1, <1>4, OrderNumbers
  <2>2. Reminding(o)' <=> Reminding(o)
    BY <1>2 DEF Reminding
  <2> QED
    BY <1>2, <2>1, <2>2 DEF ReminderInv
<1> QED
  BY <1>5, <1>6 DEF OrderPart

\* An order found is on its way to its reminder.
LEMMA RemindKeeps ==
  ASSUME OrderPart, NEW l \in OrderLabs, Remind(l) PROVE OrderPart'
<1>1. OrderTypes /\ ReminderTypes /\ Owned /\ \A o \in Orders : OrderInv(o) /\ ReminderInv(o)
  BY DEF OrderPart
<1> DEFINE p == lab[l].last
<1>2. /\ p # NoOrder /\ lab[l].reminding = NoOrder
      /\ asked[p] < MaxReminders /\ asked' = [asked EXCEPT ![p] = @ + 1]
      /\ reminders' = reminders /\ Reslots(l, p)
  BY DEF Remind, CanAsk, redis, Reslots
<1>3. p \in Orders
  BY <1>1, <1>2, LabTypes
<1>4. /\ OrderTypes' /\ Owned' /\ \A o \in Orders : OrderInv(o)'
      /\ lab'[l].reminding = p /\ \A m \in OrderLabs : m # l => lab'[m] = lab[m]
  BY <1>2, ReslotLabs
<1>5. ~ Reminding(p)
  <2>1. ASSUME NEW m \in OrderLabs, lab[m].reminding = p PROVE FALSE
    <3>1. Holds(m, p) /\ Holds(l, p)
      BY <1>2, <2>1 DEF Holds
    <3>2. m = l
      BY <1>1, <1>3, <3>1 DEF Owned
    <3> QED
      BY <1>2, <2>1, <3>2
  <2> QED
    BY <2>1 DEF Reminding
<1> HIDE DEF p
<1>6. /\ asked' \in [Orders -> 0 .. MaxReminders] /\ asked'[p] = asked[p] + 1
      /\ \A o \in Orders : o # p => asked'[o] = asked[o]
  BY <1>1, <1>2, <1>3 DEF ReminderTypes
<1>7. ReminderTypes'
  BY <1>1, <1>2, <1>6 DEF ReminderTypes
<1>8. ASSUME NEW o \in Orders PROVE ReminderInv(o)'
  <2>1. ReminderInv(o) /\ asked[o] \in Nat /\ reminders[o] \in Nat
    BY <1>1, OrderNumbers
  <2>2. CASE o = p
    <3>1. reminders[p] <= asked[p]
      BY <1>5, <2>1, <2>2 DEF ReminderInv
    <3> QED
      BY <1>2, <1>6, <2>1, <2>2, <3>1 DEF ReminderInv
  <2>3. CASE o # p
    <3>1. Reminding(o)' => Reminding(o)
      BY <1>4, <2>3 DEF Reminding
    <3> QED
      BY <1>2, <1>6, <2>1, <2>3, <3>1 DEF ReminderInv
  <2> QED
    BY <2>2, <2>3
<1> QED
  BY <1>4, <1>7, <1>8 DEF OrderPart

\* The reminder is enqueued, or its enqueue fails, applied or not.
LEMMA ReminderLands ==
  ASSUME OrderPart, NEW l \in OrderLabs, lab[l].reminding # NoOrder, Reslots(l, NoOrder),
         asked' = asked,
         reminders' \in {reminders, [reminders EXCEPT ![lab[l].reminding] = @ + 1]}
  PROVE  OrderPart'
<1>1. OrderTypes /\ ReminderTypes /\ Owned /\ \A o \in Orders : OrderInv(o) /\ ReminderInv(o)
  BY DEF OrderPart
<1>2. PICK p \in Orders : lab[l].reminding = p
  BY <1>1, LabTypes
<1>3. /\ OrderTypes' /\ Owned' /\ \A o \in Orders : OrderInv(o)'
      /\ lab'[l].reminding = NoOrder /\ \A m \in OrderLabs : m # l => lab'[m] = lab[m]
  BY ReslotLabs
<1>4. Reminding(p)
  BY <1>2 DEF Reminding
<1>5. \A m \in OrderLabs : lab'[m].reminding # p
  <2>1. ASSUME NEW m \in OrderLabs, lab'[m].reminding = p PROVE FALSE
    <3>1. m # l
      BY <1>2, <1>3, <2>1
    <3>2. lab[m].reminding = p
      BY <1>3, <2>1, <3>1
    <3>3. Holds(m, p) /\ Holds(l, p)
      BY <1>2, <3>2 DEF Holds
    <3> QED
      BY <1>1, <3>1, <3>3 DEF Owned
  <2> QED
    BY <2>1
<1>6. ~ Reminding(p)'
  BY <1>5 DEF Reminding
<1>7. \A o \in Orders : Reminding(o)' => Reminding(o)
  BY <1>3 DEF Reminding
<1>8. /\ reminders[p] + 1 <= asked[p] /\ reminders[p] \in Nat /\ asked[p] \in Nat
      /\ asked[p] <= MaxReminders
  <2>1. reminders[p] + (IF Reminding(p) THEN 1 ELSE 0) <= asked[p]
    BY <1>1 DEF ReminderInv
  <2> QED
    BY <1>1, <1>4, <2>1, OrderNumbers
<1>9. /\ reminders' \in [Orders -> 0 .. MaxReminders]
      /\ reminders'[p] \in {reminders[p], reminders[p] + 1}
      /\ \A o \in Orders : o # p => reminders'[o] = reminders[o]
  <2>1. reminders' = reminders \/ reminders' = [reminders EXCEPT ![p] = @ + 1]
    BY <1>2
  <2>2. reminders[p] + 1 \in 0 .. MaxReminders
    BY <1>8
  <2> QED
    BY <1>1, <2>1, <2>2 DEF ReminderTypes
<1>10. ReminderTypes'
  BY <1>1, <1>9 DEF ReminderTypes
<1>11. ASSUME NEW o \in Orders PROVE ReminderInv(o)'
  <2>1. CASE o = p
    BY <1>6, <1>8, <1>9, <2>1 DEF ReminderInv
  <2>2. CASE o # p
    <3>1. reminders[o] \in Nat /\ asked[o] \in Nat /\ ReminderInv(o)
      BY <1>1, OrderNumbers
    <3> QED
      BY <1>7, <1>9, <2>2, <3>1 DEF ReminderInv
  <2> QED
    BY <2>1, <2>2
<1> QED
  BY <1>3, <1>10, <1>11 DEF OrderPart

LEMMA EnqueueReminderKeeps ==
  ASSUME OrderPart, NEW l \in OrderLabs, EnqueueReminder(l) \/ FailReminder(l)
  PROVE  OrderPart'
<1>1. /\ lab[l].reminding # NoOrder /\ asked' = asked
      /\ reminders' \in {reminders, [reminders EXCEPT ![lab[l].reminding] = @ + 1]}
  BY DEF EnqueueReminder, FailReminder, history
<1>2. Reslots(l, NoOrder)
  BY DEF EnqueueReminder, FailReminder, Reslots
<1> QED
  BY <1>1, <1>2, ReminderLands

-----------------------------------------------------------------------------
(* The death of the process *)

LEMMA OrdersCrash == ASSUME OrderPart, Crash PROVE OrderPart'
<1>1. OrderTypes /\ ReminderTypes /\ Owned /\ \A o \in Orders : OrderInv(o) /\ ReminderInv(o)
  BY DEF OrderPart
<1>2. /\ lab' = [l \in OrderLabs |-> [lab[l] EXCEPT !.placing = NoOrder, !.reminding = NoOrder]]
      /\ placing' = [o \in Orders |->
                       IF placing[o] \in {"receipt", "webhook"} THEN "lost" ELSE placing[o]]
      /\ asked' = asked
  BY DEF Crash
<1>3. PICK applied \in SUBSET {o \in Orders : placing[o] \in {"receipt", "webhook"}} :
        /\ receipts' = [o \in Orders |->
                          IF o \in applied /\ placing[o] = "receipt" THEN 1 ELSE receipts[o]]
        /\ webhooks' = [o \in Orders |->
                          IF o \in applied /\ placing[o] = "webhook" THEN 1 ELSE webhooks[o]]
  BY DEF Crash
<1>4. PICK sent \in SUBSET ({lab[l].reminding : l \in OrderLabs} \ {NoOrder}) :
        reminders' = [o \in Orders |-> reminders[o] + IF o \in sent THEN 1 ELSE 0]
  BY DEF Crash
<1>5. ASSUME NEW l \in OrderLabs
      PROVE  /\ lab'[l] \in Lab /\ lab'[l].reminding = NoOrder
             /\ \A o \in Orders : Holds(l, o)' => Holds(l, o)
  <2>1. lab[l] \in Lab
    BY <1>1, LabTypes
  <2>2. lab'[l] = [lab[l] EXCEPT !.placing = NoOrder, !.reminding = NoOrder]
    BY <1>2
  <2>3. lab'[l] \in Lab /\ lab'[l].placing = NoOrder /\ lab'[l].reminding = NoOrder
        /\ lab'[l].last = lab[l].last
    BY <2>1, <2>2 DEF Lab
  <2> QED
    BY <2>3 DEF Holds
<1>6. ASSUME NEW o \in Orders
      PROVE  /\ placing'[o] \in Answers \cup {"none", "receipt", "webhook"}
             /\ receipts'[o] \in 0 .. 1 /\ webhooks'[o] \in 0 .. 1
             /\ placing[o] # "none" => placing'[o] # "none"
             /\ OrderInv(o)'
  <2>1. receipts[o] \in {0, 1} /\ webhooks[o] \in {0, 1} /\ OrderInv(o)
        /\ placing[o] \in Answers \cup {"none", "receipt", "webhook"}
    BY <1>1, OrderNumbers DEF OrderTypes
  <2>2. CASE placing[o] \in {"receipt", "webhook"}
    <3>1. placing'[o] = "lost"
      BY <1>2, <2>2
    <3>2. receipts'[o] \in {0, 1} /\ webhooks'[o] \in {0, 1} /\ (webhooks'[o] = 1 => receipts'[o] = 1)
      BY <1>3, <2>1, <2>2 DEF OrderInv
    <3> QED
      BY <3>1, <3>2 DEF OrderInv, Answers
  <2>3. CASE placing[o] \notin {"receipt", "webhook"}
    <3>1. placing'[o] = placing[o] /\ receipts'[o] = receipts[o] /\ webhooks'[o] = webhooks[o]
      BY <1>2, <1>3, <2>3
    <3> QED
      BY <2>1, <3>1 DEF OrderInv
  <2> QED
    BY <2>2, <2>3
<1>7. OrderTypes'
  BY <1>2, <1>3, <1>5, <1>6 DEF OrderTypes
<1>8. Owned'
  BY <1>1, <1>5, <1>6, OwnedShrinks
<1>9. ASSUME NEW o \in Orders PROVE reminders'[o] \in 0 .. MaxReminders /\ ReminderInv(o)'
  <2>1. /\ ReminderInv(o) /\ reminders[o] \in Nat /\ asked[o] \in Nat /\ asked[o] <= MaxReminders
    BY <1>1, OrderNumbers
  <2>2. ~ Reminding(o)'
    BY <1>5 DEF Reminding
  <2>3. o \in sent => Reminding(o)
    BY <1>4 DEF Reminding
  <2>4. reminders'[o] = reminders[o] + IF o \in sent THEN 1 ELSE 0
    BY <1>4
  <2>5. reminders'[o] <= asked[o] /\ reminders'[o] \in Nat
    <3>1. CASE o \in sent
      BY <2>1, <2>3, <2>4, <3>1 DEF ReminderInv
    <3>2. CASE o \notin sent
      <4>1. reminders'[o] = reminders[o] + 0
        BY <2>4, <3>2
      <4>2. reminders[o] <= asked[o]
        BY <2>1 DEF ReminderInv
      <4> QED
        BY <2>1, <4>1, <4>2
    <3> QED
      BY <3>1, <3>2
  <2>6. asked' = asked
    BY <1>2
  <2>7. reminders'[o] \in 0 .. MaxReminders
    BY <2>1, <2>5
  <2>8. reminders'[o] + 0 <= asked'[o]
    BY <2>5, <2>6
  <2> QED
    BY <2>2, <2>7, <2>8 DEF ReminderInv
<1>10. ReminderTypes'
  BY <1>1, <1>2, <1>4, <1>9 DEF ReminderTypes
<1> QED
  BY <1>6, <1>7, <1>8, <1>9, <1>10 DEF OrderPart

-----------------------------------------------------------------------------
(* The invariant *)

LEMMA InitInv == Init => Inv
<1> SUFFICES ASSUME Init PROVE Inv
  OBVIOUS
<1>1. RepositoryPart
  BY EmptyRepository DEF Init
<1>2. Counters
  BY DEF Init, Counters
<1>3. CampaignPart
  <2>1. [state |-> "none", count |-> 0] \in Campaign
    BY DEF Campaign
  <2> QED
    BY <2>1 DEF Init, CampaignPart, CampaignTypes, CampaignInv
<1>4. OrderPart
  <2>1. [placing |-> NoOrder, last |-> NoOrder, reminding |-> NoOrder] \in Lab
    BY DEF Lab
  <2>2. OrderTypes /\ ReminderTypes
    BY <2>1 DEF Init, OrderTypes, ReminderTypes
  <2>3. \A l \in OrderLabs, o \in Orders : ~ Holds(l, o)
    BY DEF Init, Holds
  <2>4. Owned
    BY <2>3 DEF Owned
  <2>5. ASSUME NEW o \in Orders PROVE OrderInv(o) /\ ReminderInv(o)
    <3>1. placing[o] = "none" /\ receipts[o] = 0 /\ webhooks[o] = 0 /\ reminders[o] = 0 /\ asked[o] = 0
      BY DEF Init
    <3>2. ~ Reminding(o)
      BY DEF Init, Reminding
    <3> QED
      BY <3>1, <3>2 DEF OrderInv, ReminderInv
  <2> QED
    BY <2>2, <2>4, <2>5 DEF OrderPart
<1> QED
  BY <1>1, <1>2, <1>3, <1>4, Parts

\* What the steps leave alone.
LEMMA OrderFrame == ASSUME OrderPart, UNCHANGED <<placing, lab, redis, asked>> PROVE OrderPart'
BY DEF OrderPart, OrderTypes, ReminderTypes, Owned, Holds, OrderInv, ReminderInv, Reminding, redis

LEMMA CampaignFrame == ASSUME CampaignPart, UNCHANGED bulk PROVE CampaignPart'
BY DEF CampaignPart, CampaignTypes, CampaignInv, bulk

LEMMA RepositoryFrame ==
  ASSUME RepositoryPart, UNCHANGED <<repository, saved>> PROVE RepositoryPart'
BY DEF RepositoryPart, RepositoryTypes, RepositoryInv

LEMMA NextInv == Inv /\ [Next]_vars => Inv'
<1> SUFFICES ASSUME Inv, [Next]_vars PROVE Inv'
  OBVIOUS
<1>1. OrderPart /\ CampaignPart /\ RepositoryPart /\ Counters
  BY Parts
<1>2. ASSUME NEW l \in OrderLabs, NEW o \in Orders, Place(l, o) PROVE Inv'
  <2>1. OrderPart'
    BY <1>1, <1>2, PlaceKeeps
  <2>2. CampaignPart' /\ RepositoryPart' /\ Counters'
    BY <1>1, <1>2, CampaignFrame, StoredKeeps DEF Place, Stored, Counters
  <2> QED
    BY <2>1, <2>2, PartsNext
<1>3. ASSUME NEW o \in Orders, EnqueueReceipt(o) \/ EnqueueWebhook(o) PROVE Inv'
  <2>1. OrderPart'
    BY <1>1, <1>3, EnqueueReceiptKeeps, EnqueueWebhookKeeps
  <2>2. CampaignPart' /\ RepositoryPart' /\ Counters'
    BY <1>1, <1>3, CampaignFrame, RepositoryFrame DEF EnqueueReceipt, EnqueueWebhook, history, Counters
  <2> QED
    BY <2>1, <2>2, PartsNext
<1>4. ASSUME NEW o \in Orders, FailEnqueue(o) PROVE Inv'
  <2>1. OrderPart'
    BY <1>1, <1>4, FailEnqueueKeeps
  <2>2. CampaignPart' /\ RepositoryPart'
    BY <1>1, <1>4, CampaignFrame, RepositoryFrame DEF FailEnqueue
  <2>3. Counters'
    BY <1>1, <1>4 DEF FailEnqueue, Counters
  <2> QED
    BY <2>1, <2>2, <2>3, PartsNext
<1>5. ASSUME NEW l \in OrderLabs, RemindUnknown(l) \/ Remind(l) PROVE Inv'
  <2>1. OrderPart'
    BY <1>1, <1>5, RemindUnknownKeeps, RemindKeeps
  <2>2. CampaignPart' /\ RepositoryPart' /\ Counters'
    BY <1>1, <1>5, CampaignFrame, RepositoryFrame DEF RemindUnknown, Remind, Counters
  <2> QED
    BY <2>1, <2>2, PartsNext
<1>6. ASSUME NEW l \in OrderLabs, EnqueueReminder(l) \/ FailReminder(l) PROVE Inv'
  <2>1. OrderPart'
    BY <1>1, <1>6, EnqueueReminderKeeps
  <2>2. CampaignPart' /\ RepositoryPart'
    BY <1>1, <1>6, CampaignFrame, RepositoryFrame DEF EnqueueReminder, FailReminder, history
  <2>3. Counters'
    BY <1>1, <1>6 DEF EnqueueReminder, FailReminder, history, Counters
  <2> QED
    BY <2>1, <2>2, <2>3, PartsNext
<1>7. ASSUME NEW c \in CampaignLabs, NEW n \in 1 .. MaxCampaignSize + 1, SendCampaign(c, n) PROVE Inv'
  <2>1. OrderPart' /\ RepositoryPart' /\ Counters'
    BY <1>1, <1>7, OrderFrame, RepositoryFrame DEF SendCampaign, history, Counters
  <2> QED
    BY <1>1, <1>7, <2>1, SendCampaignKeeps, PartsNext
<1>8. ASSUME NEW c \in CampaignLabs, EnqueueBulk(c) \/ FailBulk(c) PROVE Inv'
  <2>1. OrderPart' /\ RepositoryPart'
    BY <1>1, <1>8, OrderFrame, RepositoryFrame DEF EnqueueBulk, FailBulk, history
  <2>2. Counters'
    BY <1>1, <1>8 DEF EnqueueBulk, FailBulk, history, Counters
  <2>3. CampaignPart'
    BY <1>1, <1>8, EnqueueBulkKeeps, FailBulkKeeps
  <2> QED
    BY <2>1, <2>2, <2>3, PartsNext
<1>9. ASSUME Crash PROVE Inv'
  <2>1. OrderPart' /\ CampaignPart'
    BY <1>1, <1>9, OrdersCrash, CampaignsCrash
  <2>2. repository' = <<>> /\ saved' = <<>>
        /\ crashes < MaxCrashes /\ crashes' = crashes + 1 /\ faults' = faults
    BY <1>9 DEF Crash
  <2>3. RepositoryPart'
    BY <2>2, EmptiedRepository
  <2>4. Counters'
    BY <1>1, <2>2 DEF Counters
  <2> QED
    BY <2>1, <2>3, <2>4, PartsNext
<1>10. ASSUME UNCHANGED vars PROVE Inv'
  BY <1>1, <1>10, OrderFrame, CampaignFrame, RepositoryFrame, PartsNext
  DEF vars, history, Counters
<1> QED
  BY <1>2, <1>3, <1>4, <1>5, <1>6, <1>7, <1>8, <1>9, <1>10 DEF Next

-----------------------------------------------------------------------------
(* Theorems *)

\* Every variable keeps its type: no order is enqueued twice, no reminder is
\* sent that was not asked for.
THEOREM TypeCorrect == Spec => []TypeOK
<1>1. Inv => TypeOK
  BY DEF Inv
<1> QED
  BY <1>1, InitInv, NextInv, PTL DEF Spec

\* An answer has its jobs behind it, a refused campaign none.
THEOREM AnswersBacked == Spec => []JobsBackTheAnswer
<1>1. Inv => JobsBackTheAnswer
  BY DEF Inv, OrderInv, CampaignInv, JobsBackTheAnswer
<1> QED
  BY <1>1, InitInv, NextInv, PTL DEF Spec

\* The repository holds the newest orders of this life, in order.
THEOREM NewestKept == Spec => []RepositoryKeepsNewest
<1>1. Inv => RepositoryKeepsNewest
  BY Parts, SuffixOfSaved
<1> QED
  BY <1>1, InitInv, NextInv, PTL DEF Spec

=============================================================================
