--------------------------- MODULE OrderPlacement ---------------------------
(***************************************************************************)
(* Placing orders, reminding about them, and sending bulk receipt          *)
(* campaigns (apps/api/src/orders), from the labs of the playground page:  *)
(* each open tab has one of every kind.                                    *)
(*                                                                         *)
(* place() stores the order in the bounded in-memory repository, awaits    *)
(* the receipt's enqueue, then the webhook's, and answers.  Requests       *)
(* overlap at the two awaits.  Redis may refuse an enqueue, or apply it    *)
(* and lose the reply; the caller then gets an error.  The process may die *)
(* at either await: Redis keeps the jobs, the repository is gone.  A       *)
(* campaign is one bulk enqueue, refused before Redis if it is too large.  *)
(***************************************************************************)
EXTENDS Naturals, Sequences, SequencesExt

CONSTANTS
  Orders,         \* order ids; each request draws a fresh one
  NoOrder,        \* no order
  OrderLabs,      \* the order labs open in tabs
  CampaignLabs,   \* the campaign labs open in tabs
  MaxOrders,      \* MAX_ORDERS
  MaxReminders,   \* bound on reminders asked for an order, one at a time
  MaxBulk,        \* MAX_BULK_SIZE of the library
  MaxCampaignSize,  \* MAX_CAMPAIGN_SIZE, above it
  MaxFaults,      \* bound on failed enqueues
  MaxCrashes      \* bound on process deaths

ASSUME BoundsAssumption ==
  /\ NoOrder \notin Orders
  /\ MaxOrders \in Nat \ {0}
  /\ MaxReminders \in Nat /\ MaxFaults \in Nat /\ MaxCrashes \in Nat
  /\ MaxBulk \in Nat \ {0} /\ MaxCampaignSize \in Nat /\ MaxBulk < MaxCampaignSize

VARIABLES
  \* the API process
  repository,   \* stored order ids, oldest first
  placing,      \* where the request that placed the order is
  \* the page, one of each lab per tab
  lab,          \* the order being placed, the last one placed, the one whose
                \* reminder is at its enqueue
  campaign,     \* how far the lab's latest campaign request got, and its size
  \* Redis
  receipts,     \* receipt jobs of the order
  webhooks,     \* webhook jobs of the order
  reminders,    \* delayed reminder jobs of the order
  batches,      \* receipt jobs of the lab's latest campaign
  \* history
  saved,        \* orders stored since the process started, in order
  asked,        \* reminders asked for so far
  faults, crashes

redis   == <<receipts, webhooks, reminders>>
bulk    == <<campaign, batches>>
history == <<saved, asked, faults, crashes>>
vars    == <<repository, placing, lab, redis, bulk, history>>

Answers  == {"placed", "error", "lost"}
Lab      == [placing : Orders \cup {NoOrder}, last : Orders \cup {NoOrder},
             reminding : Orders \cup {NoOrder}]
Campaign == [state : {"none", "open", "sent", "refused", "error", "lost"},
             count : 0 .. MaxCampaignSize + 1]

TypeOK ==
  /\ repository \in Seq(Orders) /\ Len(repository) <= MaxOrders
  /\ placing \in [Orders -> Answers \cup {"none", "receipt", "webhook"}]
  /\ lab \in [OrderLabs -> Lab]
  /\ receipts \in [Orders -> 0 .. 1]
  /\ webhooks \in [Orders -> 0 .. 1]
  /\ reminders \in [Orders -> 0 .. MaxReminders]
  /\ campaign \in [CampaignLabs -> Campaign]
  /\ batches \in [CampaignLabs -> 0 .. MaxBulk]
  /\ saved \in Seq(Orders)
  /\ asked \in [Orders -> 0 .. MaxReminders]
  /\ faults \in 0 .. MaxFaults
  /\ crashes \in 0 .. MaxCrashes

Init ==
  /\ repository = <<>>
  /\ placing = [o \in Orders |-> "none"]
  /\ lab = [l \in OrderLabs |-> [placing |-> NoOrder, last |-> NoOrder, reminding |-> NoOrder]]
  /\ receipts = [o \in Orders |-> 0]
  /\ webhooks = [o \in Orders |-> 0]
  /\ reminders = [o \in Orders |-> 0]
  /\ campaign = [c \in CampaignLabs |-> [state |-> "none", count |-> 0]]
  /\ batches = [c \in CampaignLabs |-> 0]
  /\ saved = <<>>
  /\ asked = [o \in Orders |-> 0]
  /\ faults = 0
  /\ crashes = 0

-----------------------------------------------------------------------------
(* Placing *)

SavedOverNewest(o) ==
  IF Len(repository) >= MaxOrders
  THEN Append(SubSeq(repository, 1, Len(repository) - 1), o)
  ELSE Append(repository, o)

\* save(): at capacity the oldest order goes first.
Saved(o) ==
  Append(IF Len(repository) >= MaxOrders THEN Tail(repository) ELSE repository, o)

\* place() up to its first await, under an order id no other request drew.
Stored(o) ==
  /\ placing[o] = "none"
  /\ repository' = Saved(o)
  /\ saved' = Append(saved, o)
  /\ placing' = [placing EXCEPT ![o] = "receipt"]

\* OrderLab: one placement at a time.
Place(l, o) ==
  /\ lab[l].placing = NoOrder
  /\ lab' = [lab EXCEPT ![l].placing = o]
  /\ Stored(o)
  /\ UNCHANGED <<bulk, redis, asked, faults, crashes>>

\* A lab whose request is answered with an order remembers it, one that is
\* answered with an error does not.
Told(o, placed) ==
  lab' = [l \in OrderLabs |->
            IF lab[l].placing # o THEN lab[l]
            ELSE [lab[l] EXCEPT !.placing = NoOrder, !.last = IF placed THEN o ELSE @]]

\* Seeded fault: the answer does not wait for the webhook.
EnqueueReceiptAndAnswer(o) ==
  /\ placing[o] = "receipt"
  /\ receipts' = [receipts EXCEPT ![o] = @ + 1]
  /\ placing' = [placing EXCEPT ![o] = "placed"]
  /\ Told(o, TRUE)
  /\ UNCHANGED <<bulk, repository, webhooks, reminders, history>>

\* The receipt's enqueue is answered; the webhook's is sent.
EnqueueReceipt(o) ==
  /\ placing[o] = "receipt"
  /\ receipts' = [receipts EXCEPT ![o] = @ + 1]
  /\ placing' = [placing EXCEPT ![o] = "webhook"]
  /\ UNCHANGED <<bulk, repository, lab, webhooks, reminders, history>>

\* The webhook's enqueue is answered, and so is the lab.
EnqueueWebhook(o) ==
  /\ placing[o] = "webhook"
  /\ webhooks' = [webhooks EXCEPT ![o] = @ + 1]
  /\ placing' = [placing EXCEPT ![o] = "placed"]
  /\ Told(o, TRUE)
  /\ UNCHANGED <<bulk, repository, receipts, reminders, history>>

\* An enqueue throws, having been applied or not: the request ends in error,
\* and what was done before stays.
FailEnqueue(o) ==
  /\ placing[o] \in {"receipt", "webhook"}
  /\ faults < MaxFaults
  /\ faults' = faults + 1
  /\ \E applied \in 0 .. 1 :
       IF placing[o] = "receipt"
       THEN receipts' = [receipts EXCEPT ![o] = applied] /\ UNCHANGED webhooks
       ELSE webhooks' = [webhooks EXCEPT ![o] = applied] /\ UNCHANGED receipts
  /\ placing' = [placing EXCEPT ![o] = "error"]
  /\ Told(o, FALSE)
  /\ UNCHANGED <<bulk, repository, reminders, saved, asked, crashes>>

-----------------------------------------------------------------------------
(* Reminding *)

\* OrderReminderButton: of the last order placed in the tab, one at a time.
CanAsk(l) ==
  /\ lab[l].last # NoOrder /\ lab[l].reminding = NoOrder
  /\ asked[lab[l].last] < MaxReminders

\* remind(): not found ...
RemindUnknown(l) ==
  /\ CanAsk(l)
  /\ ~ Contains(repository, lab[l].last)
  /\ asked' = [asked EXCEPT ![lab[l].last] = @ + 1]
  /\ UNCHANGED <<bulk, repository, placing, lab, redis, saved, faults, crashes>>

\* ... or found; the order is read before the await ...
Remind(l) ==
  /\ CanAsk(l)
  /\ Contains(repository, lab[l].last)
  /\ asked' = [asked EXCEPT ![lab[l].last] = @ + 1]
  /\ lab' = [lab EXCEPT ![l].reminding = lab[l].last]
  /\ UNCHANGED <<bulk, repository, placing, redis, saved, faults, crashes>>

\* ... and its reminder enqueued, whatever happened to the order since.
EnqueueReminder(l) ==
  /\ lab[l].reminding # NoOrder
  /\ lab' = [lab EXCEPT ![l].reminding = NoOrder]
  /\ reminders' = [reminders EXCEPT ![lab[l].reminding] = @ + 1]
  /\ UNCHANGED <<bulk, repository, placing, receipts, webhooks, history>>

\* ... or its enqueue throws.
FailReminder(l) ==
  /\ lab[l].reminding # NoOrder
  /\ faults < MaxFaults
  /\ faults' = faults + 1
  /\ lab' = [lab EXCEPT ![l].reminding = NoOrder]
  /\ reminders' \in {reminders, [reminders EXCEPT ![lab[l].reminding] = @ + 1]}
  /\ UNCHANGED <<bulk, repository, placing, receipts, webhooks, saved, asked, crashes>>

-----------------------------------------------------------------------------
(* Campaigns *)

\* campaignSchema: the endpoint refuses more than MaxCampaignSize.
Parsed(n) == n <= MaxCampaignSize

\* CampaignLab: a batch of any size, one at a time.
SendCampaign(c, n) ==
  /\ campaign[c].state # "open"
  /\ batches' = [batches EXCEPT ![c] = 0]
  /\ campaign' = [campaign EXCEPT ![c] =
                    [state |-> IF Parsed(n) THEN "open" ELSE "refused", count |-> n]]
  /\ UNCHANGED <<repository, placing, lab, redis, history>>

\* buildJobs(): as many as asked for; the library takes all or, over its cap,
\* none of them.
BuildJobs(n) == IF n <= MaxBulk THEN n ELSE 0

\* sendReceipts(): one roundtrip.
EnqueueBulk(c) ==
  /\ campaign[c].state = "open"
  /\ LET made == BuildJobs(campaign[c].count)
     IN  /\ batches' = [batches EXCEPT ![c] = made]
         /\ campaign' = [campaign EXCEPT ![c].state = IF made = 0 THEN "refused" ELSE "sent"]
  /\ UNCHANGED <<repository, placing, lab, redis, history>>

\* The roundtrip fails, having been applied as a whole or not at all.
FailBulk(c) ==
  /\ campaign[c].state = "open" /\ faults < MaxFaults
  /\ faults' = faults + 1
  /\ campaign' = [campaign EXCEPT ![c].state = "error"]
  /\ \E made \in {0, BuildJobs(campaign[c].count)} : batches' = [batches EXCEPT ![c] = made]
  /\ UNCHANGED <<repository, placing, lab, redis, saved, asked, crashes>>

-----------------------------------------------------------------------------

\* The process dies and is restarted: open requests are lost, an enqueue on its
\* way applied or not, and the repository is empty.
Crash ==
  /\ crashes < MaxCrashes
  /\ crashes' = crashes + 1
  /\ repository' = <<>>
  /\ saved' = <<>>
  /\ lab' = [l \in OrderLabs |-> [lab[l] EXCEPT !.placing = NoOrder, !.reminding = NoOrder]]
  /\ placing' = [o \in Orders |->
                   IF placing[o] \in {"receipt", "webhook"} THEN "lost" ELSE placing[o]]
  /\ campaign' = [c \in CampaignLabs |->
                    IF campaign[c].state = "open" THEN [campaign[c] EXCEPT !.state = "lost"]
                    ELSE campaign[c]]
  /\ \E applied \in SUBSET {o \in Orders : placing[o] \in {"receipt", "webhook"}} :
       /\ receipts' = [o \in Orders |->
                         IF o \in applied /\ placing[o] = "receipt" THEN 1 ELSE receipts[o]]
       /\ webhooks' = [o \in Orders |->
                         IF o \in applied /\ placing[o] = "webhook" THEN 1 ELSE webhooks[o]]
  /\ \E applied \in SUBSET {c \in CampaignLabs : campaign[c].state = "open"} :
       batches' = [c \in CampaignLabs |->
                     IF c \in applied THEN BuildJobs(campaign[c].count) ELSE batches[c]]
  /\ \E applied \in SUBSET ({lab[l].reminding : l \in OrderLabs} \ {NoOrder}) :
       reminders' = [o \in Orders |-> reminders[o] + IF o \in applied THEN 1 ELSE 0]
  /\ UNCHANGED <<asked, faults>>

Next ==
  \/ \E l \in OrderLabs, o \in Orders : Place(l, o)
  \/ \E o \in Orders : EnqueueReceipt(o)
  \/ \E o \in Orders : EnqueueWebhook(o)
  \/ \E o \in Orders : FailEnqueue(o)
  \/ \E l \in OrderLabs : RemindUnknown(l)
  \/ \E l \in OrderLabs : Remind(l)
  \/ \E l \in OrderLabs : EnqueueReminder(l)
  \/ \E l \in OrderLabs : FailReminder(l)
  \/ \E c \in CampaignLabs, n \in 1 .. MaxCampaignSize + 1 : SendCampaign(c, n)
  \/ \E c \in CampaignLabs : EnqueueBulk(c) \/ FailBulk(c)
  \/ Crash

Spec == Init /\ [][Next]_vars

-----------------------------------------------------------------------------
(* Properties *)

\* An order is answered as placed only with both its jobs in Redis, whatever
\* was refused, half-applied or crashed around it; and a webhook, which tells
\* others of the order, never goes out for an order without a receipt.  A
\* campaign is answered with the number of its jobs, and a refused one has none.
JobsBackTheAnswer ==
  /\ \A o \in Orders :
       /\ placing[o] = "placed" => receipts[o] = 1 /\ webhooks[o] = 1
       /\ webhooks[o] = 1 => receipts[o] = 1
  /\ \A c \in CampaignLabs :
       /\ campaign[c].state = "sent" => batches[c] = campaign[c].count
       /\ campaign[c].state = "refused" => batches[c] = 0

\* Within a process life the repository holds the newest orders stored, as
\* many as it may, in the order they were stored: overlapping placements and
\* failed ones included.
RepositoryKeepsNewest ==
  /\ IsSuffix(repository, saved)
  /\ Len(repository) = IF Len(saved) < MaxOrders THEN Len(saved) ELSE MaxOrders

=============================================================================
