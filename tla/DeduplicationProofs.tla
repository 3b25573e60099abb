-------------------------- MODULE DeduplicationProofs --------------------------
(***************************************************************************)
(* The deduplicated enqueues for any number of tabs, users, terms, clicks  *)
(* and losses: the types, what the answers promise against the jobs that   *)
(* are made, and the number of jobs a key lets in.                         *)
(***************************************************************************)
EXTENDS Deduplication, FiniteSetTheorems, SequenceTheorems, TLAPS

USE BoundsAssumption

-----------------------------------------------------------------------------
(* Types *)

\* The sequence of jobs after an enqueue, with the holder replaced or not.
LEMMA AppendedJobs ==
  ASSUME NEW kept \in Seq(Job), NEW job \in Job
  PROVE  /\ Append(kept, job) \in Seq(Job) /\ Len(Append(kept, job)) = Len(kept) + 1
         /\ \A i \in 1 .. Len(kept) : Append(kept, job)[i] = kept[i]
         /\ Append(kept, job)[Len(kept) + 1] = job
BY AppendProperties

\* A job taken out of the queue leaves the others as they are.
LEMMA RemovedJob ==
  ASSUME NEW js \in Seq(Job), NEW h \in 1 .. Len(js)
  PROVE  LET kept == [js EXCEPT ![h].state = "removed"]
         IN  /\ kept \in Seq(Job) /\ Len(kept) = Len(js)
             /\ kept[h].state = "removed"
             /\ \A i \in 1 .. Len(js) : /\ kept[i].term = js[i].term
                                        /\ i # h => kept[i] = js[i]
<1> DEFINE job == [js[h] EXCEPT !.state = "removed"]
           kept == [js EXCEPT ![h].state = "removed"]
<1>1. js[h] \in Job
  BY ElementOfSeq
<1>2. job \in Job /\ job.term = js[h].term /\ job.state = "removed"
  BY <1>1 DEF Job
<1>3. kept = [js EXCEPT ![h] = job]
  OBVIOUS
<1>4. kept \in Seq(Job) /\ Len(kept) = Len(js) /\ kept[h] = job
      /\ \A i \in 1 .. Len(js) : i # h => kept[i] = js[i]
  BY <1>2, <1>3, ExceptSeq
<1> QED
  BY <1>2, <1>4

\* Counting up.
LEMMA OneType == ASSUME NEW P PROVE One(P) \in {0, 1}
BY DEF One

LEMMA PlusType ==
  ASSUME NEW S, NEW f \in [S -> Nat], NEW s \in S, NEW n \in Nat
  PROVE  /\ Plus(f, s, n) \in [S -> Nat] /\ Plus(f, s, n)[s] = f[s] + n
         /\ \A x \in S : x # s => Plus(f, s, n)[x] = f[x]
BY DEF Plus

\* An answer is told or lost.
LEMMA AnswerTypes ==
  ASSUME TypeOK, NEW s \in Subjects, NEW P, Answer(s, P)
  PROVE  /\ told' \in [Subjects -> Nat] /\ lost' \in 0 .. MaxLost
         /\ \A x \in Subjects : x # s => told'[x] = told[x]
         /\ \/ told'[s] = told[s] + One(P) /\ lost' = lost
            \/ told'[s] = told[s] /\ lost' = lost + 1
<1> DEFINE n == One(P)
<1>0. n \in Nat
  BY OneType
<1>1. CASE told' = Plus(told, s, n) /\ lost' = lost
  <2> HIDE DEF n
  <2>1. told \in [Subjects -> Nat] /\ lost \in 0 .. MaxLost
    BY DEF TypeOK
  <2>2. told' \in [Subjects -> Nat] /\ told'[s] = told[s] + n
        /\ \A x \in Subjects : x # s => told'[x] = told[x]
    BY <1>0, <1>1, <2>1, PlusType
  <2> QED
    BY <1>1, <2>1, <2>2 DEF n
<1>2. CASE lost < MaxLost /\ lost' = lost + 1 /\ told' = told
  BY <1>2 DEF TypeOK
<1> QED
  BY <1>1, <1>2 DEF Answer

\* A click is counted, and so is an overlap.
LEMMA ClickTypes ==
  ASSUME TypeOK, NEW s \in Subjects, NEW P, Click(P, s)
  PROVE  /\ overlaps' \in [Subjects -> Nat] /\ clicks' \in 0 .. MaxClicks
         /\ overlaps'[s] = overlaps[s] + One(P)
         /\ \A x \in Subjects : x # s => overlaps'[x] = overlaps[x]
<1> DEFINE n == One(P)
<1>1. n \in Nat
  BY OneType
<1>2. overlaps' = Plus(overlaps, s, n) /\ clicks' = clicks + 1 /\ clicks < MaxClicks
  BY DEF Click
<1> HIDE DEF n
<1>3. overlaps \in [Subjects -> Nat] /\ clicks \in 0 .. MaxClicks
  BY DEF TypeOK
<1>4. overlaps' \in [Subjects -> Nat] /\ overlaps'[s] = overlaps[s] + n
      /\ \A x \in Subjects : x # s => overlaps'[x] = overlaps[x]
  BY <1>1, <1>2, <1>3, PlusType
<1> QED
  BY <1>2, <1>3, <1>4 DEF n

\* What an enqueue leaves: the jobs and the key of its term.
LEMMA EnqueueTypes ==
  ASSUME TypeOK, NEW c \in reindexing, Enqueue(c)
  PROVE  /\ jobs' \in Seq(Job) /\ Len(jobs) <= Len(jobs') /\ keys' \in [Terms -> Key]
         /\ \A t \in Terms : keys'[t] = NoKey \/ keys'[t].job \in Live(t)'
         /\ made' \in [Subjects -> Nat] /\ told' \in [Subjects -> Nat] /\ lost' \in 0 .. MaxLost
<1>1. c \in Reindexing /\ c.term \in Terms /\ c.term \in Subjects /\ Holder(c.term) = keys[c.term].job
  BY DEF TypeOK, Reindexing, Subjects, Holder, DedupId
<1>2. told' \in [Subjects -> Nat] /\ lost' \in 0 .. MaxLost
  <2>1. \E P \in BOOLEAN : Answer(c.term, P)
    <3>1. Enqueue(c) => \/ Answer(c.term, ~ Deduplicated(c.existing, Len(jobs) + 1))
                        \/ Answer(c.term, ~ Deduplicated(c.existing, Holder(c.term)))
      BY DEF Enqueue, Add
    <3> QED
      BY <3>1
  <2> QED
    BY <1>1, <2>1, AnswerTypes
<1>3. CASE UNCHANGED <<jobs, keys, made>>
  BY <1>2, <1>3 DEF TypeOK, Live, Ids
<1>4. ASSUME NEW kept \in Seq(Job), Len(kept) = Len(jobs), Add(c, kept),
             \A i \in Ids : /\ kept[i].term = jobs[i].term
                            /\ i # Holder(c.term) => kept[i] = jobs[i]
      PROVE  /\ jobs' \in Seq(Job) /\ Len(jobs) <= Len(jobs') /\ keys' \in [Terms -> Key]
             /\ \A t \in Terms : keys'[t] = NoKey \/ keys'[t].job \in Live(t)'
             /\ made' \in [Subjects -> Nat]
  <2> DEFINE job == [term |-> c.term, state |-> IF Replaces(c.mode) THEN "delayed" ELSE "waiting"]
             id  == Len(jobs) + 1
  <2>1. job \in Job /\ Len(jobs) \in Nat
    BY <1>1 DEF Job, TypeOK
  <2>2. jobs' = Append(kept, job) /\ keys' = [keys EXCEPT ![c.term] = [job |-> id, timed |-> Timed(c.mode)]]
        /\ made' = Plus(made, c.term, 1)
    BY <1>4 DEF Add, DedupId
  <2>3. /\ jobs' \in Seq(Job) /\ Len(jobs') = id /\ jobs'[id] = job
        /\ \A i \in Ids : jobs'[i] = kept[i]
    BY <1>4, <2>1, <2>2, AppendedJobs DEF Ids
  <2>4. keys' \in [Terms -> Key] /\ made' \in [Subjects -> Nat]
    <3>1. [job |-> id, timed |-> Timed(c.mode)] \in Key
      BY <2>1 DEF Key, Timed
    <3>2. Plus(made, c.term, 1) \in [Subjects -> Nat]
      BY <1>1, PlusType DEF TypeOK
    <3> QED
      BY <1>1, <2>2, <3>1, <3>2 DEF TypeOK
  <2>5. ASSUME NEW t \in Terms PROVE keys'[t] = NoKey \/ keys'[t].job \in Live(t)'
    <3>1. CASE t = c.term
      <4>1. keys'[t].job = id
        BY <2>2, <3>1 DEF TypeOK
      <4>2. id \in Live(t)'
        BY <2>1, <2>3, <3>1 DEF Live, Ids, Job
      <4> QED
        BY <4>1, <4>2
    <3>2. CASE t # c.term
      <4>1. keys'[t] = keys[t]
        BY <2>2, <3>2 DEF TypeOK
      <4>2. ASSUME keys[t].job \in Live(t) PROVE keys[t].job \in Live(t)'
        <5>0. jobs[keys[t].job].term = t
          BY <4>2 DEF Live
        <5>1. keys[t].job # Holder(c.term) \/ Holder(c.term) = NoJob
          <6>1. keys[c.term] = NoKey \/ keys[c.term].job \in Live(c.term)
            BY <1>1 DEF TypeOK
          <6>2. CASE keys[c.term] = NoKey
            BY <1>1, <6>2 DEF NoKey
          <6>3. CASE keys[c.term].job \in Live(c.term)
            <7>1. jobs[keys[c.term].job].term = c.term
              BY <6>3 DEF Live
            <7> QED
              BY <1>1, <3>2, <5>0, <7>1
          <6> QED
            BY <6>1, <6>2, <6>3
        <5>2. keys[t].job \in Ids /\ keys[t].job # NoJob
          BY <4>2 DEF Live, Ids, NoJob
        <5> QED
          BY <1>4, <2>1, <2>3, <4>2, <5>1, <5>2 DEF Live, Ids
      <4> QED
        BY <4>1, <4>2 DEF TypeOK
    <3> QED
      BY <3>1, <3>2
  <2> QED
    BY <1>2, <2>1, <2>3, <2>4, <2>5
<1>5. CASE Holder(c.term) = NoJob /\ Add(c, jobs)
  <2>1. jobs \in Seq(Job)
    BY DEF TypeOK
  <2> QED
    BY <1>2, <1>4, <1>5, <2>1
<1>6. CASE Replaceable(c) /\ Add(c, Replaced(Holder(c.term)))
  <2>1. Holder(c.term) \in 1 .. Len(jobs)
    BY <1>1, <1>6 DEF Replaceable, TypeOK, Live, Ids, NoKey
  <2> QED
    <3>1. jobs \in Seq(Job)
      BY DEF TypeOK
    <3>2. /\ Replaced(Holder(c.term)) \in Seq(Job) /\ Len(Replaced(Holder(c.term))) = Len(jobs)
          /\ \A i \in Ids : /\ Replaced(Holder(c.term))[i].term = jobs[i].term
                            /\ i # Holder(c.term) => Replaced(Holder(c.term))[i] = jobs[i]
      BY <2>1, <3>1, RemovedJob DEF Replaced, Ids
    <3> QED
      BY <1>2, <1>4, <1>6, <3>2
<1> QED
  BY <1>3, <1>5, <1>6 DEF Enqueue

\* Initially everything has its type.
LEMMA InitTypes == Init => TypeOK
BY DEF Init, TypeOK, Key, NoKey, NoJob, Job, Live, Ids

\* Every step keeps the types.
LEMMA NextTypes == TypeOK /\ [Next]_vars => TypeOK'
<1> SUFFICES ASSUME TypeOK, [Next]_vars PROVE TypeOK'
  OBVIOUS
<1> USE DEF NoJob, Key, NoKey
<1>1. ASSUME NEW tab \in Tabs, NEW u \in Users, Onboard(tab, u) PROVE TypeOK'
  <2>1. clicks' \in 0 .. MaxClicks /\ overlaps' \in [Subjects -> Nat]
    <3>1. u \in Subjects /\ \E P \in BOOLEAN : Click(P, u)
      BY <1>1 DEF Onboard, Subjects
    <3> QED
      BY <3>1, ClickTypes
  <2>2. onboarding' \subseteq Onboarding
    <3>1. \A b \in BOOLEAN : [tab |-> tab, user |-> u, found |-> b] \in Onboarding
      BY DEF Onboarding
    <3>2. [tab |-> tab, user |-> u, found |-> u \in welcomed] \in Onboarding
      <4>1. (u \in welcomed) \in BOOLEAN
        OBVIOUS
      <4> QED
        BY <3>1, <4>1, Zenon
    <3>3. onboarding \subseteq Onboarding
      BY DEF TypeOK
    <3>4. onboarding' = onboarding \cup {[tab |-> tab, user |-> u, found |-> u \in welcomed]}
      BY <1>1, Zenon DEF Onboard
    <3> QED
      BY <3>2, <3>3, <3>4, Zenon
  <2> QED
    BY <1>1, <2>1, <2>2 DEF TypeOK, Onboard, redis, others, Live, Ids
<1>2. ASSUME NEW tab \in Tabs, NEW t \in Terms, NEW mode \in Modes, Reindex(tab, t, mode) PROVE TypeOK'
  <2>1. Holder(t) \in Nat /\ Holder(t) \in {NoJob} \cup Ids
    BY DEF Holder, DedupId, TypeOK, Live
  <2>2. reindexing' \subseteq Reindexing /\ \A c \in reindexing' : c.existing \in {NoJob} \cup Ids
    BY <1>2, <2>1 DEF TypeOK, Reindex, Reindexing
  <2>3. clicks' \in 0 .. MaxClicks /\ overlaps' \in [Subjects -> Nat]
    BY <1>2, ClickTypes DEF Reindex, Subjects
  <2> QED
    BY <1>2, <2>2, <2>3 DEF TypeOK, Reindex, redis, others, Live, Ids
<1>3. ASSUME NEW c \in onboarding, Welcome(c) PROVE TypeOK'
  <2>1. c.user \in Users /\ c.user \in Subjects
    BY DEF TypeOK, Onboarding, Subjects
  <2>2. welcomed' \subseteq Users /\ made' \in [Subjects -> Nat] /\ onboarding' \subseteq Onboarding
    <3>1. JobMade(c.user) \in Nat
      BY OneType DEF JobMade
    <3> QED
      BY <1>3, <2>1, <3>1, PlusType DEF TypeOK, Welcome
  <2>3. told' \in [Subjects -> Nat] /\ lost' \in 0 .. MaxLost
    BY <1>3, <2>1, AnswerTypes DEF Welcome
  <2> QED
    BY <1>3, <2>2, <2>3 DEF TypeOK, Welcome, others, Live, Ids
<1>4. ASSUME NEW c \in reindexing, FinishReindex(c) PROVE TypeOK'
  <2>1. Enqueue(c)
    BY <1>4 DEF FinishReindex
  <2>2. \A d \in reindexing' : d.existing \in {NoJob} \cup Ids'
    <3>1. Len(jobs) <= Len(jobs') /\ Len(jobs) \in Nat /\ Len(jobs') \in Nat
      BY <2>1, EnqueueTypes DEF TypeOK
    <3>2. \A d \in reindexing' : d.existing \in {NoJob} \cup Ids
      BY <1>4 DEF FinishReindex, TypeOK
    <3> QED
      BY <3>1, <3>2 DEF Ids
  <2>3. reindexing' \subseteq Reindexing
    BY <1>4 DEF FinishReindex, TypeOK
  <2>4. /\ onboarding' = onboarding /\ clearing' = clearing /\ requesting' = requesting
        /\ watched' = watched /\ welcomed' = welcomed /\ overlaps' = overlaps
        /\ loose' = loose /\ cleaned' = cleaned /\ clicks' = clicks /\ removals' = removals
    BY <1>4 DEF FinishReindex, others
  <2>5. /\ jobs' \in Seq(Job) /\ keys' \in [Terms -> Key]
        /\ \A t \in Terms : keys'[t] = NoKey \/ keys'[t].job \in Live(t)'
        /\ made' \in [Subjects -> Nat] /\ told' \in [Subjects -> Nat] /\ lost' \in 0 .. MaxLost
    BY <2>1, EnqueueTypes
  <2> QED
    BY <2>2, <2>3, <2>4, <2>5 DEF TypeOK
<1>5. ASSUME NEW c \in onboarding, RefuseWelcome(c) PROVE TypeOK'
  BY <1>5 DEF TypeOK, RefuseWelcome, redis, history, others, Live, Ids
<1>6. ASSUME NEW c \in reindexing, RefuseReindex(c) PROVE TypeOK'
  BY <1>6 DEF TypeOK, RefuseReindex, redis, history, others, Live, Ids
<1>7. ASSUME NEW r \in Requesting, Request(r) PROVE TypeOK'
  <2>1. r.demo \in Subjects
    BY DEF Requesting, Subjects
  <2> QED
    BY <1>7, <2>1, ClickTypes DEF TypeOK, Request, redis, Live, Ids
<1>8. ASSUME NEW r \in Requesting, Requested(r) PROVE TypeOK'
  <2>1. r.demo \in Subjects
    BY DEF Requesting, Subjects
  <2>2. made' \in [Subjects -> Nat] /\ told' \in [Subjects -> Nat] /\ lost' \in 0 .. MaxLost
    BY <1>8, <2>1, AnswerTypes, PlusType DEF TypeOK, Requested
  <2>3. watched' \in [Requesting -> Nat]
    BY <1>8, <2>1, <2>2 DEF TypeOK, Requested
  <2>4. /\ onboarding' = onboarding /\ reindexing' = reindexing /\ clearing' = clearing
        /\ welcomed' = welcomed /\ jobs' = jobs /\ keys' = keys /\ overlaps' = overlaps
        /\ loose' = loose /\ cleaned' = cleaned /\ clicks' = clicks /\ removals' = removals
        /\ requesting' \subseteq Requesting
    BY <1>8 DEF Requested, redis, TypeOK
  <2>5. \A t \in Terms : Live(t)' = Live(t)
    BY <2>4 DEF Live, Ids
  <2>6. \A t \in Terms : keys'[t] = NoKey \/ keys'[t].job \in Live(t)'
    BY <2>4, <2>5 DEF TypeOK
  <2>7. \A c \in reindexing' : c.existing \in {NoJob} \cup Ids'
    BY <2>4 DEF TypeOK, Ids
  <2>8. /\ jobs' \in Seq(Job) /\ keys' \in [Terms -> Key] /\ welcomed' \subseteq Users
        /\ onboarding' \subseteq Onboarding /\ reindexing' \subseteq Reindexing
        /\ clearing' \subseteq Clearing
    BY <2>4 DEF TypeOK
  <2>9. /\ overlaps' \in [Subjects -> Nat] /\ loose' \in [Terms -> Nat] /\ cleaned' \in [Users -> Nat]
        /\ clicks' \in 0 .. MaxClicks /\ removals' \in 0 .. MaxRemovals
    BY <2>4 DEF TypeOK
  <2> QED
    BY <2>2, <2>3, <2>4, <2>6, <2>7, <2>8, <2>9 DEF TypeOK
<1>9. ASSUME NEW r \in requesting, RefuseRequest(r) PROVE TypeOK'
  BY <1>9 DEF TypeOK, RefuseRequest, redis, history, Live, Ids
<1>10. ASSUME NEW tab \in Tabs, NEW t \in Terms, ClickClear(tab, t) PROVE TypeOK'
  <2>1. /\ onboarding' = onboarding /\ reindexing' = reindexing /\ requesting' = requesting
        /\ watched' = watched /\ welcomed' = welcomed /\ jobs' = jobs /\ keys' = keys
        /\ made' = made /\ told' = told /\ overlaps' = overlaps /\ loose' = loose
        /\ cleaned' = cleaned /\ clicks' = clicks /\ lost' = lost
    BY <1>10 DEF ClickClear, redis
  <2>2. clearing' \subseteq Clearing /\ removals' \in 0 .. MaxRemovals
    BY <1>10 DEF TypeOK, ClickClear, Clearing, Removal
  <2>3. Ids' = Ids /\ \A s \in Terms : Live(s)' = Live(s)
    BY <2>1 DEF Live, Ids
  <2>4. /\ \A c \in reindexing' : c.existing \in {NoJob} \cup Ids'
        /\ \A s \in Terms : keys'[s] = NoKey \/ keys'[s].job \in Live(s)'
    BY <2>1, <2>3 DEF TypeOK
  <2> QED
    BY <2>1, <2>2, <2>4 DEF TypeOK
<1>11. ASSUME NEW t \in Terms, Release(t), clearing' \subseteq clearing, removals' \in 0 .. MaxRemovals,
              reindexing' = reindexing
       PROVE  TypeOK'
  <2>1. One(keys[t] # NoKey) \in Nat
    BY OneType
  <2>2. loose' \in [Terms -> Nat]
    BY <1>11, <2>1, PlusType DEF TypeOK, Release
  <2>3. keys' \in [Terms -> Key] /\ \A x \in Terms : keys'[x] = NoKey \/ keys'[x] = keys[x]
    BY <1>11 DEF TypeOK, Release
  <2>4. \A x \in Terms : keys'[x] = NoKey \/ keys'[x].job \in Live(x)'
    BY <1>11, <2>3 DEF TypeOK, Release, Live, Ids
  <2> QED
    BY <1>11, <2>2, <2>3, <2>4 DEF TypeOK, Release, Ids
<1>12. ASSUME NEW c \in clearing, ClearKey(c) PROVE TypeOK'
  BY <1>11, <1>12 DEF ClearKey, TypeOK, Clearing, Release
<1>13. ASSUME NEW t \in Terms, ExpireKey(t) PROVE TypeOK'
  <2>1. Release(t) /\ clearing' \subseteq clearing /\ reindexing' = reindexing
    BY <1>13 DEF ExpireKey, Release
  <2>2. removals' \in 0 .. MaxRemovals
    BY <1>13 DEF ExpireKey, Removal, TypeOK
  <2> QED
    BY <1>11, <2>1, <2>2
<1>14. ASSUME NEW c \in clearing, RefuseClear(c) PROVE TypeOK'
  BY <1>14 DEF TypeOK, RefuseClear, redis, history, Live, Ids
<1>15. ASSUME NEW i \in Ids, CleanReindex(i) PROVE TypeOK'
  <2>1. /\ jobs' \in Seq(Job) /\ Len(jobs') = Len(jobs)
        /\ \A j \in Ids : jobs'[j].term = jobs[j].term /\ (j # i => jobs'[j] = jobs[j])
    <3>1. jobs \in Seq(Job) /\ i \in 1 .. Len(jobs)
      BY <1>15 DEF TypeOK, Ids
    <3>2. jobs' = [jobs EXCEPT ![i].state = "removed"]
      BY <1>15 DEF CleanReindex
    <3> QED
      BY <3>1, <3>2, RemovedJob DEF Ids
  <2>2. keys' = [t \in Terms |-> IF keys[t].job = i THEN NoKey ELSE keys[t]]
    BY <1>15 DEF CleanReindex
  <2>3. keys' \in [Terms -> Key]
    BY <2>2 DEF TypeOK
  <2>4. \A t \in Terms : keys'[t] = NoKey \/ keys'[t].job \in Live(t)'
    BY <2>1, <2>2 DEF TypeOK, Live, Ids
  <2>5. \A c \in reindexing' : c.existing \in {NoJob} \cup Ids'
    BY <1>15, <2>1 DEF CleanReindex, calls, TypeOK, Ids
  <2> QED
    BY <1>15, <2>1, <2>3, <2>4, <2>5 DEF TypeOK, CleanReindex, Removal, calls, others
<1>16. ASSUME NEW u \in Users, CleanWelcome(u) PROVE TypeOK'
  BY <1>16 DEF TypeOK, CleanWelcome, Removal, Plus, calls, others, Live, Ids
<1>17. CASE UNCHANGED vars
  BY <1>17 DEF TypeOK, vars, calls, others, redis, history, Live, Ids
<1> QED
  BY <1>1, <1>2, <1>3, <1>4, <1>5, <1>6, <1>7, <1>8, <1>9, <1>10, <1>12, <1>13, <1>14, <1>15, <1>16, <1>17
     DEF Next, ReportLab, StallLab, Generate, Stall, Requesting, Demos, TypeOK

\* Type correctness of the enqueues, for every value of the constants.
THEOREM TypeCorrect == Spec => []TypeOK
BY InitTypes, NextTypes, PTL DEF Spec

-----------------------------------------------------------------------------
(* Onboarding *)

\* The calls open for a user, and whether one of them is about to report a job
\* as created that another call made since its look-up.
Onboards(u) == {c \in onboarding : c.user = u}
Misled(u)   == u \in welcomed /\ \E c \in Onboards(u) : ~ c.found

\* A call that overlaps nothing can only bring true news.
Spare(u) == IF Onboards(u) = {} \/ Misled(u) THEN 0 ELSE 1

\* A call found the job, and the job was cleaned away.
Bereft(u) == IF u \notin welcomed /\ (\E c \in Onboards(u) : c.found) THEN 1 ELSE 0

UserInv(u) ==
  /\ told[u] + Cardinality(Onboards(u)) <= made[u] + overlaps[u] + Spare(u)
  /\ made[u] + Bereft(u) <= told[u] + cleaned[u] + lost
  /\ made[u] <= cleaned[u] + One(u \in welcomed)

\* Steps that do not touch the onboarding of users.
UserFrame ==
  /\ onboarding' = onboarding /\ welcomed' = welcomed /\ cleaned' = cleaned /\ lost <= lost'
  /\ \A u \in Users : told'[u] = told[u] /\ made'[u] = made[u] /\ overlaps'[u] = overlaps[u]

\* The numbers a user is counted by.
LEMMA UserNumbers ==
  ASSUME TypeOK, IsFiniteSet(onboarding), NEW u \in Users
  PROVE  /\ told[u] \in Nat /\ made[u] \in Nat /\ overlaps[u] \in Nat /\ cleaned[u] \in Nat /\ lost \in Nat
         /\ IsFiniteSet(Onboards(u)) /\ Cardinality(Onboards(u)) \in Nat
         /\ Cardinality(Onboards(u)) = 0 <=> Onboards(u) = {}
         /\ Spare(u) \in {0, 1} /\ Bereft(u) \in {0, 1} /\ One(u \in welcomed) \in {0, 1}
<1>1. IsFiniteSet(Onboards(u))
  BY FS_Subset DEF Onboards
<1>2. Cardinality(Onboards(u)) \in Nat /\ (Cardinality(Onboards(u)) = 0 <=> Onboards(u) = {})
  BY <1>1, FS_CardinalityType, FS_EmptySet
<1>3. u \in Subjects
  BY DEF Subjects
<1> QED
  BY <1>1, <1>2, <1>3 DEF TypeOK, Spare, Bereft, One

\* A look-up opens one call more.
LEMMA OnboardKeeps ==
  ASSUME TypeOK, TypeOK', IsFiniteSet(onboarding), NEW tab \in Tabs, NEW v \in Users, Onboard(tab, v),
         NEW u \in Users, UserInv(u)
  PROVE  IsFiniteSet(onboarding)' /\ UserInv(u)'
<1>1. PICK new : /\ onboarding' = onboarding \cup {new} /\ new \notin onboarding
                 /\ new.user = v /\ (new.found <=> v \in welcomed)
  <2> DEFINE new == [tab |-> tab, user |-> v, found |-> v \in welcomed]
  <2>1. new.user = v /\ new.tab = tab /\ (new.found <=> v \in welcomed)
    OBVIOUS
  <2>2. onboarding' = onboarding \cup {new} /\ \A c \in onboarding : c.tab # tab
    BY DEF Onboard
  <2> QED
    BY <2>1, <2>2
<1>2. IsFiniteSet(onboarding)'
  BY <1>1, FS_AddElement
<1>3. /\ welcomed' = welcomed /\ cleaned' = cleaned /\ lost' = lost /\ told' = told /\ made' = made
  BY DEF Onboard, redis
<1>4. v \in Subjects /\ u \in Subjects
  BY DEF Subjects
<1>5. PICK P \in BOOLEAN : Click(P, v) /\ (P <=> \E c \in onboarding : c.user = v)
  BY DEF Onboard
<1>6. overlaps'[v] = overlaps[v] + One(P) /\ (u # v => overlaps'[u] = overlaps[u])
  BY <1>4, <1>5, ClickTypes
<1>7. CASE u # v
  <2>1. Onboards(u)' = Onboards(u)
    BY <1>1, <1>7 DEF Onboards
  <2> QED
    BY <1>2, <1>3, <1>6, <1>7, <2>1 DEF UserInv, Spare, Misled, Bereft
<1>8. CASE u = v
  <2>1. Onboards(u)' = Onboards(u) \cup {new} /\ new \notin Onboards(u)
    BY <1>1, <1>8 DEF Onboards
  <2>2. IsFiniteSet(Onboards(u)) /\ Cardinality(Onboards(u)') = Cardinality(Onboards(u)) + 1
    BY <2>1, UserNumbers, FS_AddElement
  <2>3. Misled(u)' = Misled(u) /\ Bereft(u)' = Bereft(u)
    BY <1>1, <1>3, <1>8, <2>1 DEF Misled, Bereft
  <2>4. overlaps'[u] = overlaps[u] + (IF Onboards(u) = {} THEN 0 ELSE 1)
    BY <1>5, <1>6, <1>8 DEF One, Onboards
  <2>5. (IF Onboards(u) = {} THEN 0 ELSE 1) + Spare(u)' >= 1 + Spare(u)
    BY <2>1, <2>3 DEF Spare, Misled
  <2>6. told'[u] + Cardinality(Onboards(u)') <= made'[u] + overlaps'[u] + Spare(u)'
    <3> DEFINE more == IF Onboards(u) = {} THEN 0 ELSE 1
    <3>1. Spare(u)' \in {0, 1} /\ more \in {0, 1}
      BY DEF Spare
    <3>2. told[u] + Cardinality(Onboards(u)) <= made[u] + overlaps[u] + Spare(u)
      BY DEF UserInv
    <3> QED
      BY <1>3, <2>2, <2>4, <2>5, <3>1, <3>2, UserNumbers
  <2> QED
    BY <1>2, <1>3, <2>3, <2>6 DEF UserInv
<1> QED
  BY <1>7, <1>8

\* The answer to a call: the job is made unless it is there.
LEMMA WelcomeKeeps ==
  ASSUME TypeOK, TypeOK', IsFiniteSet(onboarding), NEW c \in onboarding, Welcome(c),
         NEW u \in Users, UserInv(u)
  PROVE  IsFiniteSet(onboarding)' /\ UserInv(u)'
<1> DEFINE v == c.user
<1>1. v \in Users /\ v \in Subjects /\ u \in Subjects /\ c.found \in BOOLEAN
  BY DEF TypeOK, Onboarding, Subjects
<1>2. /\ onboarding' = onboarding \ {c} /\ welcomed' = welcomed \cup {v} /\ cleaned' = cleaned
      /\ overlaps' = overlaps
  BY DEF Welcome
<1>3. IsFiniteSet(onboarding)'
  BY <1>2, FS_RemoveElement
<1>4. /\ made'[v] = made[v] + (IF v \in welcomed THEN 0 ELSE 1)
      /\ u # v => made'[u] = made[u]
  <2> DEFINE n == JobMade(v)
  <2>1. n \in Nat /\ n = IF v \in welcomed THEN 0 ELSE 1
    BY DEF JobMade, One
  <2>2. made' = Plus(made, v, n) /\ made \in [Subjects -> Nat]
    BY DEF Welcome, TypeOK
  <2>3. ASSUME NEW x \in Subjects PROVE made'[x] = IF x = v THEN made[x] + n ELSE made[x]
    <3> HIDE DEF n
    <3> QED
      BY <1>1, <2>2 DEF Plus
  <2> QED
    BY <1>1, <2>1, <2>2, <2>3
<1>5. /\ u # v => told'[u] = told[u]
      /\ \/ told'[v] = told[v] + (IF c.found THEN 0 ELSE 1) /\ lost' = lost
         \/ told'[v] = told[v] /\ lost' = lost + 1
  <2>1. PICK P \in BOOLEAN : Answer(v, P) /\ (P <=> ~ c.found)
    BY <1>1 DEF Welcome, Created
  <2>2. One(P) = IF c.found THEN 0 ELSE 1
    BY <2>1 DEF One
  <2>3. /\ \A x \in Subjects : x # v => told'[x] = told[x]
        /\ \/ told'[v] = told[v] + One(P) /\ lost' = lost
           \/ told'[v] = told[v] /\ lost' = lost + 1
    BY <1>1, <2>1, AnswerTypes
  <2> QED
    BY <1>1, <2>2, <2>3
<1>6. CASE u # v
  <2>1. Onboards(u)' = Onboards(u) /\ (u \in welcomed' <=> u \in welcomed)
    BY <1>2, <1>6 DEF Onboards
  <2>2. Spare(u)' = Spare(u) /\ Bereft(u)' = Bereft(u) /\ One(u \in welcomed)' = One(u \in welcomed)
    BY <2>1 DEF Spare, Misled, Bereft, One
  <2>3. told'[u] = told[u] /\ made'[u] = made[u] /\ lost <= lost'
    BY <1>4, <1>5, <1>6, UserNumbers
  <2>4. lost' \in Nat
    BY DEF TypeOK
  <2> QED
    BY <1>2, <1>3, <2>1, <2>2, <2>3, <2>4, UserNumbers DEF UserInv
<1>7. CASE u = v
  <2>1. c \in Onboards(u) /\ Onboards(u)' = Onboards(u) \ {c}
    BY <1>2, <1>7 DEF Onboards
  <2>2. Cardinality(Onboards(u)') = Cardinality(Onboards(u)) - 1
    BY <2>1, UserNumbers, FS_RemoveElement
  <2>3. Bereft(u)' = 0 /\ One(u \in welcomed)' = 1 /\ Spare(u)' \in {0, 1} /\ lost' \in Nat
    BY <1>2, <1>7 DEF Bereft, One, Spare, TypeOK
  <2>4. told'[u] \in Nat /\ made'[u] \in Nat
    BY <1>1 DEF TypeOK
  <2>5. CASE u \notin welcomed
    <3>1. Spare(u) = 1 /\ One(u \in welcomed) = 0 /\ (c.found => Bereft(u) = 1)
      BY <2>1, <2>5 DEF Spare, Misled, One, Bereft
    <3> QED
      BY <1>2, <1>3, <1>4, <1>5, <1>7, <2>2, <2>3, <2>4, <2>5, <3>1, UserNumbers DEF UserInv
  <2>6. CASE u \in welcomed /\ c.found
    <3>1. Spare(u)' + 1 >= Spare(u) /\ One(u \in welcomed) = 1 /\ Bereft(u) = 0
      BY <2>3, <2>6 DEF Spare, One, Bereft
    <3> QED
      BY <1>2, <1>3, <1>4, <1>5, <1>7, <2>2, <2>3, <2>4, <2>6, <3>1, UserNumbers DEF UserInv
  <2>7. CASE u \in welcomed /\ ~ c.found
    <3>1. Spare(u) = 0 /\ One(u \in welcomed) = 1 /\ Bereft(u) = 0
      BY <2>1, <2>7 DEF Spare, Misled, One, Bereft
    <3> QED
      BY <1>2, <1>3, <1>4, <1>5, <1>7, <2>2, <2>3, <2>4, <2>7, <3>1, UserNumbers DEF UserInv
  <2> QED
    BY <1>1, <2>5, <2>6, <2>7
<1> QED
  BY <1>6, <1>7

\* A call that comes to nothing.
LEMMA RefuseWelcomeKeeps ==
  ASSUME TypeOK, TypeOK', IsFiniteSet(onboarding), NEW c \in onboarding, RefuseWelcome(c),
         NEW u \in Users, UserInv(u)
  PROVE  IsFiniteSet(onboarding)' /\ UserInv(u)'
<1>1. /\ onboarding' = onboarding \ {c} /\ welcomed' = welcomed
      /\ UNCHANGED <<told, made, overlaps, cleaned, lost>>
  BY DEF RefuseWelcome, redis, history
<1>2. IsFiniteSet(onboarding)' /\ Onboards(u)' = Onboards(u) \ {c}
  BY <1>1, FS_RemoveElement DEF Onboards
<1>3. Cardinality(Onboards(u)') = IF c \in Onboards(u) THEN Cardinality(Onboards(u)) - 1
                                  ELSE Cardinality(Onboards(u))
  BY <1>2, UserNumbers, FS_RemoveElement
<1>4. Bereft(u)' <= Bereft(u) /\ Bereft(u)' \in {0, 1}
  BY <1>1, <1>2 DEF Bereft
<1>5. /\ Spare(u)' \in {0, 1}
      /\ Spare(u)' >= Spare(u) \/ (c \in Onboards(u) /\ Spare(u)' + 1 >= Spare(u))
  <2>1. c \notin Onboards(u) => Onboards(u)' = Onboards(u)
    BY <1>2
  <2> QED
    BY <1>1, <2>1 DEF Spare, Misled
<1> QED
  BY <1>1, <1>2, <1>3, <1>4, <1>5, UserNumbers DEF UserInv

\* A job cleaned away.
LEMMA CleanWelcomeKeeps ==
  ASSUME TypeOK, TypeOK', IsFiniteSet(onboarding), NEW v \in Users, CleanWelcome(v),
         NEW u \in Users, UserInv(u)
  PROVE  IsFiniteSet(onboarding)' /\ UserInv(u)'
<1>1. /\ onboarding' = onboarding /\ welcomed' = welcomed \ {v} /\ v \in welcomed
      /\ UNCHANGED <<told, made, overlaps, lost>>
  BY DEF CleanWelcome, calls
<1>2. cleaned'[v] = cleaned[v] + 1 /\ (u # v => cleaned'[u] = cleaned[u])
  BY DEF CleanWelcome, Plus, TypeOK
<1>3. Onboards(u)' = Onboards(u)
  BY <1>1 DEF Onboards
<1>4. CASE u # v
  <2>1. /\ Spare(u)' = Spare(u) /\ Bereft(u)' = Bereft(u)
        /\ One(u \in welcomed)' = One(u \in welcomed)
    BY <1>1, <1>3, <1>4 DEF Spare, Misled, Bereft, One
  <2> QED
    BY <1>1, <1>2, <1>3, <1>4, <2>1 DEF UserInv
<1>5. CASE u = v
  <2>1. /\ Spare(u)' >= Spare(u) /\ Spare(u)' \in {0, 1} /\ Bereft(u)' \in {0, 1} /\ Bereft(u) = 0
        /\ One(u \in welcomed)' = 0 /\ One(u \in welcomed) = 1
    BY <1>1, <1>3, <1>5 DEF Spare, Misled, Bereft, One
  <2> QED
    BY <1>1, <1>2, <1>3, <1>5, <2>1, UserNumbers DEF UserInv
<1> QED
  BY <1>4, <1>5

\* The rest does not touch it.
LEMMA UserFrameKeeps ==
  ASSUME TypeOK, TypeOK', IsFiniteSet(onboarding), UserFrame, NEW u \in Users, UserInv(u)
  PROVE  IsFiniteSet(onboarding)' /\ UserInv(u)'
<1>1. Onboards(u)' = Onboards(u)
  BY DEF UserFrame, Onboards
<1>2. /\ Spare(u)' = Spare(u) /\ Bereft(u)' = Bereft(u)
      /\ One(u \in welcomed)' = One(u \in welcomed)
  BY <1>1 DEF UserFrame, Spare, Misled, Bereft, One
<1>3. lost' \in Nat
  BY DEF TypeOK
<1> QED
  BY <1>1, <1>2, <1>3, UserNumbers DEF UserFrame, UserInv

-----------------------------------------------------------------------------
(* Reindexing *)

\* The calls open for a term, and whether one of them is about to report a job
\* as new that another call made since its look-up.
Reindexes(t) == {c \in reindexing : c.term = t}
Outdated(t)  == keys[t].job # NoJob /\ \E c \in Reindexes(t) : c.existing # keys[t].job

\* As Spare, for a term.
Allowance(t) == IF Reindexes(t) = {} \/ Outdated(t) THEN 0 ELSE 1

TermInv(t) ==
  /\ told[t] + Cardinality(Reindexes(t)) <= made[t] + overlaps[t] + Allowance(t)
  /\ made[t] <= told[t] + lost
  /\ Cardinality(Live(t)) <= loose[t] + One(keys[t] # NoKey)

\* Steps that do not touch the reindexing of terms.
TermFrame ==
  /\ reindexing' = reindexing /\ jobs' = jobs /\ keys' = keys /\ loose' = loose /\ lost <= lost'
  /\ \A t \in Terms : told'[t] = told[t] /\ made'[t] = made[t] /\ overlaps'[t] = overlaps[t]

\* The numbers a term is counted by.
LEMMA TermNumbers ==
  ASSUME TypeOK, IsFiniteSet(reindexing), NEW t \in Terms
  PROVE  /\ told[t] \in Nat /\ made[t] \in Nat /\ overlaps[t] \in Nat /\ loose[t] \in Nat /\ lost \in Nat
         /\ IsFiniteSet(Reindexes(t)) /\ Cardinality(Reindexes(t)) \in Nat
         /\ Cardinality(Reindexes(t)) = 0 <=> Reindexes(t) = {}
         /\ IsFiniteSet(Live(t)) /\ Cardinality(Live(t)) \in Nat
         /\ Allowance(t) \in {0, 1} /\ One(keys[t] # NoKey) \in {0, 1}
<1>1. IsFiniteSet(Reindexes(t))
  BY FS_Subset DEF Reindexes
<1>2. Cardinality(Reindexes(t)) \in Nat /\ (Cardinality(Reindexes(t)) = 0 <=> Reindexes(t) = {})
  BY <1>1, FS_CardinalityType, FS_EmptySet
<1>3. IsFiniteSet(Live(t)) /\ Cardinality(Live(t)) \in Nat
  <2>1. Live(t) \in SUBSET (1 .. Len(jobs)) /\ Len(jobs) \in Nat
    BY DEF TypeOK, Live, Ids
  <2>2. IsFiniteSet(1 .. Len(jobs))
    BY <2>1, FS_Interval
  <2> QED
    BY <2>1, <2>2, FS_Subset, FS_CardinalityType
<1>4. t \in Subjects
  BY DEF Subjects
<1> QED
  BY <1>1, <1>2, <1>3, <1>4 DEF TypeOK, Allowance, One

\* A look-up opens one call more, and reads the key as it is.
LEMMA ReindexKeeps ==
  ASSUME TypeOK, TypeOK', IsFiniteSet(reindexing),
         NEW tab \in Tabs, NEW v \in Terms, NEW mode \in Modes, Reindex(tab, v, mode),
         NEW t \in Terms, TermInv(t)
  PROVE  IsFiniteSet(reindexing)' /\ TermInv(t)'
<1>1. PICK new : /\ reindexing' = reindexing \cup {new} /\ new \notin reindexing
                 /\ new.term = v /\ new.existing = keys[v].job
  <2> DEFINE new == [tab |-> tab, term |-> v, mode |-> mode, existing |-> keys[v].job]
  <2>1. new.term = v /\ new.tab = tab /\ new.existing = keys[v].job
    OBVIOUS
  <2>2. reindexing' = reindexing \cup {new} /\ \A c \in reindexing : c.tab # tab
    BY DEF Reindex, Holder, DedupId
  <2> QED
    BY <2>1, <2>2
<1>2. IsFiniteSet(reindexing)'
  BY <1>1, FS_AddElement
<1>3. /\ jobs' = jobs /\ keys' = keys /\ loose' = loose /\ lost' = lost /\ told' = told /\ made' = made
  BY DEF Reindex, redis
<1>4. v \in Subjects /\ t \in Subjects
  BY DEF Subjects
<1>5. PICK P \in BOOLEAN : Click(P, v) /\ (P <=> \E c \in reindexing : c.term = v)
  BY DEF Reindex
<1>6. overlaps'[v] = overlaps[v] + One(P) /\ (t # v => overlaps'[t] = overlaps[t])
  BY <1>4, <1>5, ClickTypes
<1>7. Live(t)' = Live(t) /\ One(keys[t] # NoKey)' = One(keys[t] # NoKey)
  BY <1>3 DEF Live, Ids, One
<1>8. CASE t # v
  <2>1. Reindexes(t)' = Reindexes(t)
    BY <1>1, <1>8 DEF Reindexes
  <2> QED
    BY <1>2, <1>3, <1>6, <1>7, <1>8, <2>1 DEF TermInv, Allowance, Outdated
<1>9. CASE t = v
  <2>1. Reindexes(t)' = Reindexes(t) \cup {new} /\ new \notin Reindexes(t)
    BY <1>1, <1>9 DEF Reindexes
  <2>2. Cardinality(Reindexes(t)') = Cardinality(Reindexes(t)) + 1
    BY <2>1, TermNumbers, FS_AddElement
  <2>3. Outdated(t)' = Outdated(t)
    BY <1>1, <1>3, <1>9, <2>1 DEF Outdated
  <2> DEFINE more == IF Reindexes(t) = {} THEN 0 ELSE 1
  <2>4. overlaps'[t] = overlaps[t] + more
    BY <1>5, <1>6, <1>9 DEF One, Reindexes
  <2>5. /\ more + Allowance(t)' >= 1 + Allowance(t)
        /\ Allowance(t)' \in {0, 1} /\ more \in {0, 1}
    BY <2>1, <2>3 DEF Allowance, Outdated
  <2>6. told[t] + Cardinality(Reindexes(t)) <= made[t] + overlaps[t] + Allowance(t)
    BY DEF TermInv
  <2>7. told'[t] + Cardinality(Reindexes(t)') <= made'[t] + overlaps'[t] + Allowance(t)'
    BY <1>3, <2>2, <2>4, <2>5, <2>6, TermNumbers
  <2> QED
    BY <1>2, <1>3, <1>7, <2>7 DEF TermInv
<1> QED
  BY <1>8, <1>9

\* A call that comes to nothing.
LEMMA RefuseReindexKeeps ==
  ASSUME TypeOK, TypeOK', IsFiniteSet(reindexing), NEW c \in reindexing, RefuseReindex(c),
         NEW t \in Terms, TermInv(t)
  PROVE  IsFiniteSet(reindexing)' /\ TermInv(t)'
<1>1. /\ reindexing' = reindexing \ {c} /\ jobs' = jobs /\ keys' = keys
      /\ UNCHANGED <<told, made, overlaps, loose, lost>>
  BY DEF RefuseReindex, redis, history
<1>2. IsFiniteSet(reindexing)' /\ Reindexes(t)' = Reindexes(t) \ {c}
  BY <1>1, FS_RemoveElement DEF Reindexes
<1>3. Cardinality(Reindexes(t)') = IF c \in Reindexes(t) THEN Cardinality(Reindexes(t)) - 1
                                  ELSE Cardinality(Reindexes(t))
  BY <1>2, TermNumbers, FS_RemoveElement
<1>4. Live(t)' = Live(t) /\ One(keys[t] # NoKey)' = One(keys[t] # NoKey)
  BY <1>1 DEF Live, Ids, One
<1>5. /\ Allowance(t)' \in {0, 1}
      /\ Allowance(t)' >= Allowance(t) \/ (c \in Reindexes(t) /\ Allowance(t)' + 1 >= Allowance(t))
  <2>1. c \notin Reindexes(t) => Reindexes(t)' = Reindexes(t)
    BY <1>2
  <2> QED
    BY <1>1, <2>1 DEF Allowance, Outdated
<1> QED
  BY <1>1, <1>2, <1>3, <1>4, <1>5, TermNumbers DEF TermInv

\* A key that is cleared or runs out leaves its job, and misleads nobody.
LEMMA ReleaseKeeps ==
  ASSUME TypeOK, TypeOK', IsFiniteSet(reindexing), NEW v \in Terms, Release(v),
         reindexing' = reindexing, NEW t \in Terms, TermInv(t)
  PROVE  IsFiniteSet(reindexing)' /\ TermInv(t)'
<1>1. /\ keys' = [keys EXCEPT ![v] = NoKey] /\ jobs' = jobs /\ UNCHANGED <<told, made, overlaps, lost>>
  BY DEF Release
<1>2. /\ loose'[v] = loose[v] + One(keys[v] # NoKey) /\ (t # v => loose'[t] = loose[t])
  <2> DEFINE n == One(keys[v] # NoKey)
  <2>1. n \in Nat
    BY OneType
  <2>2. loose' = Plus(loose, v, n) /\ loose \in [Terms -> Nat]
    BY DEF Release, TypeOK
  <2> HIDE DEF n
  <2>3. loose'[v] = loose[v] + n /\ (t # v => loose'[t] = loose[t])
    BY <2>1, <2>2, PlusType
  <2> QED
    BY <2>3 DEF n
<1>3. Reindexes(t)' = Reindexes(t) /\ Live(t)' = Live(t)
  BY <1>1 DEF Reindexes, Live, Ids
<1>4. CASE t # v
  <2>1. keys'[t] = keys[t]
    BY <1>1, <1>4 DEF TypeOK
  <2>2. Allowance(t)' = Allowance(t) /\ One(keys[t] # NoKey)' = One(keys[t] # NoKey)
    BY <1>3, <2>1 DEF Allowance, Outdated, One
  <2> QED
    BY <1>1, <1>2, <1>3, <1>4, <2>2 DEF TermInv
<1>5. CASE t = v
  <2>1. keys'[t] = NoKey /\ NoKey.job = NoJob
    BY <1>1, <1>5 DEF TypeOK, NoKey
  <2>2. /\ Allowance(t)' >= Allowance(t) /\ Allowance(t)' \in {0, 1}
        /\ One(keys[t] # NoKey)' = 0
    BY <1>3, <2>1 DEF Allowance, Outdated, One
  <2> QED
    BY <1>1, <1>2, <1>3, <1>5, <2>2, TermNumbers DEF TermInv
<1> QED
  BY <1>4, <1>5

\* A made job is the only one the enqueue adds, and takes the holder's place if
\* the holder is replaced.
LEMMA AddLive ==
  ASSUME TypeOK, NEW c \in reindexing, NEW kept, Add(c, kept),
         \/ kept = jobs /\ Holder(c.term) = NoJob
         \/ kept = Replaced(Holder(c.term)) /\ Holder(c.term) # NoJob
  PROVE  /\ Len(jobs) + 1 \notin Live(c.term)
         /\ Holder(c.term) # NoJob => Holder(c.term) \in Live(c.term)
         /\ Live(c.term)' = (Live(c.term) \ {Holder(c.term)}) \cup {Len(jobs) + 1}
         /\ \A t \in Terms : t # c.term => Live(t)' = Live(t)
<1> DEFINE job == [term |-> c.term, state |-> IF Replaces(c.mode) THEN "delayed" ELSE "waiting"]
           id  == Len(jobs) + 1
           h   == Holder(c.term)
<1>1. c.term \in Terms /\ jobs \in Seq(Job) /\ h = keys[c.term].job /\ Len(jobs) \in Nat
  BY DEF TypeOK, Reindexing, Holder, DedupId
<1>2. job \in Job /\ job.term = c.term /\ job.state # "removed"
  BY <1>1 DEF Job
<1>3. h # NoJob => h \in Live(c.term)
  BY <1>1 DEF TypeOK, NoKey
<1>4. /\ kept \in Seq(Job) /\ Len(kept) = Len(jobs)
      /\ \A i \in Ids : /\ kept[i].term = jobs[i].term
                        /\ (kept[i].state = "removed" <=> i = h \/ jobs[i].state = "removed")
  <2>1. CASE kept = jobs /\ h = NoJob
    BY <1>1, <2>1 DEF Ids, NoJob
  <2>2. CASE kept = Replaced(h) /\ h # NoJob
    <3>1. h \in 1 .. Len(jobs)
      BY <1>3, <2>2 DEF Live, Ids
    <3>2. /\ Replaced(h) \in Seq(Job) /\ Len(Replaced(h)) = Len(jobs)
          /\ Replaced(h)[h].state = "removed"
          /\ \A i \in 1 .. Len(jobs) : /\ Replaced(h)[i].term = jobs[i].term
                                       /\ i # h => Replaced(h)[i] = jobs[i]
      <4> HIDE DEF h
      <4> QED
        BY <1>1, <3>1, RemovedJob DEF Replaced
    <3>3. ASSUME NEW i \in Ids
          PROVE  /\ kept[i].term = jobs[i].term
                 /\ (kept[i].state = "removed" <=> i = h \/ jobs[i].state = "removed")
      <4> HIDE DEF h
      <4>1. CASE i = h
        BY <2>2, <3>2, <4>1 DEF Ids
      <4>2. CASE i # h
        BY <2>2, <3>2, <4>2 DEF Ids
      <4> QED
        BY <4>1, <4>2
    <3> QED
      BY <2>2, <3>2, <3>3
  <2> QED
    BY <2>1, <2>2
<1>5. /\ Len(jobs') = id /\ jobs'[id] = job
      /\ \A i \in Ids : jobs'[i] = kept[i]
  <2>1. jobs' = Append(kept, job)
    BY DEF Add
  <2> QED
    BY <1>2, <1>4, <2>1, AppendedJobs DEF Ids
<1>6. id \notin Ids
  BY <1>1 DEF Ids
<1>7. \A t \in Terms : Live(t)' = (Live(t) \ {h}) \cup (IF t = c.term THEN {id} ELSE {})
  BY <1>1, <1>2, <1>4, <1>5 DEF Live, Ids
<1>8. \A t \in Terms : t # c.term => h \notin Live(t)
  BY <1>3 DEF Live, Ids, NoJob
<1> QED
  BY <1>1, <1>3, <1>6, <1>7, <1>8 DEF Live

\* The answer to a call: a job of its own, or the one that holds the key.
LEMMA FinishReindexKeeps ==
  ASSUME TypeOK, TypeOK', IsFiniteSet(reindexing), NEW c \in reindexing, FinishReindex(c),
         NEW t \in Terms, TermInv(t)
  PROVE  IsFiniteSet(reindexing)' /\ TermInv(t)'
<1> DEFINE v == c.term
           h == keys[v].job
<1>1. /\ v \in Terms /\ v \in Subjects /\ t \in Subjects /\ Holder(v) = h
      /\ c.existing \in {NoJob} \cup Ids /\ Len(jobs) \in Nat
  <2>1. c \in Reindexing /\ jobs \in Seq(Job) /\ c.existing \in {NoJob} \cup Ids
    BY DEF TypeOK
  <2>2. v \in Terms /\ Len(jobs) \in Nat
    BY <2>1 DEF Reindexing
  <2> QED
    BY <2>1, <2>2 DEF Subjects, Holder, DedupId
<1>2. reindexing' = reindexing \ {c} /\ loose' = loose /\ overlaps' = overlaps /\ Enqueue(c)
  BY DEF FinishReindex
<1>3. IsFiniteSet(reindexing)' /\ Reindexes(t)' = Reindexes(t) \ {c}
  BY <1>2, FS_RemoveElement DEF Reindexes
<1>4. Cardinality(Reindexes(t)') = IF t = v THEN Cardinality(Reindexes(t)) - 1
                                  ELSE Cardinality(Reindexes(t))
  <2> DEFINE R == Reindexes(t)
  <2>1. c \in R <=> t = v
    BY DEF Reindexes
  <2>2. IsFiniteSet(R)
    BY TermNumbers
  <2>3. Cardinality(R \ {c}) = IF c \in R THEN Cardinality(R) - 1 ELSE Cardinality(R)
    <3> HIDE DEF R
    <3> QED
      BY <2>2, FS_RemoveElement
  <2> QED
    BY <1>3, <2>1, <2>3
<1>5. Allowance(t)' \in {0, 1} /\ lost' \in Nat /\ told'[t] \in Nat
  BY <1>1 DEF Allowance, TypeOK
<1>6. ASSUME h # NoJob, Answer(v, ~ Deduplicated(c.existing, h)), UNCHANGED <<jobs, keys, made>>
      PROVE  TermInv(t)'
  <2>1. /\ t # v => told'[t] = told[t]
        /\ \/ told'[v] = told[v] + (IF c.existing = h THEN 0 ELSE 1) /\ lost' = lost
           \/ told'[v] = told[v] /\ lost' = lost + 1
    <3>1. PICK P \in BOOLEAN : Answer(v, P) /\ (P <=> ~ (c.existing = h))
      BY <1>6 DEF Deduplicated
    <3> QED
      BY <1>1, <3>1, AnswerTypes DEF One
  <2>2. Live(t)' = Live(t) /\ One(keys[t] # NoKey)' = One(keys[t] # NoKey)
    BY <1>6 DEF Live, Ids, One
  <2>3. CASE t # v
    <3>1. Reindexes(t)' = Reindexes(t)
      BY <1>3, <2>3 DEF Reindexes
    <3>2. Allowance(t)' = Allowance(t)
      BY <1>6, <3>1 DEF Allowance, Outdated
    <3> QED
      BY <1>2, <1>4, <1>5, <1>6, <2>1, <2>2, <2>3, <3>2, TermNumbers DEF TermInv
  <2>4. CASE t = v /\ c.existing = h
    <3>1. Allowance(t)' + 1 >= Allowance(t)
      BY <1>5 DEF Allowance
    <3> QED
      BY <1>2, <1>4, <1>5, <1>6, <2>1, <2>2, <2>4, <3>1, TermNumbers DEF TermInv
  <2>5. CASE t = v /\ c.existing # h
    <3>1. Allowance(t) = 0
      BY <1>6, <2>5 DEF Allowance, Outdated, Reindexes
    <3> QED
      BY <1>2, <1>4, <1>5, <1>6, <2>1, <2>2, <2>5, <3>1, TermNumbers DEF TermInv
  <2> QED
    BY <2>3, <2>4, <2>5
<1>7. ASSUME NEW kept, Add(c, kept),
             \/ kept = jobs /\ Holder(v) = NoJob
             \/ kept = Replaced(Holder(v)) /\ Holder(v) # NoJob
      PROVE  TermInv(t)'
  <2>1. /\ t # v => told'[t] = told[t]
        /\ \/ told'[v] = told[v] + 1 /\ lost' = lost
           \/ told'[v] = told[v] /\ lost' = lost + 1
    <3>1. ~ Deduplicated(c.existing, Len(jobs) + 1)
      BY <1>1 DEF Deduplicated, Ids, NoJob
    <3>2. PICK P \in BOOLEAN : Answer(v, P) /\ P
      BY <1>7, <3>1 DEF Add
    <3> QED
      BY <1>1, <3>2, AnswerTypes DEF One
  <2>2. made'[v] = made[v] + 1 /\ (t # v => made'[t] = made[t])
    <3>1. made' = [made EXCEPT ![v] = @ + 1] /\ made \in [Subjects -> Nat]
      BY <1>7 DEF Add, TypeOK, Plus
    <3> QED
      BY <1>1, <3>1
  <2>3. keys'[v].job = Len(jobs) + 1 /\ (t # v => keys'[t] = keys[t])
    BY <1>1, <1>7 DEF Add, DedupId, TypeOK
  <2>4. CASE t # v
    <3>1. Reindexes(t)' = Reindexes(t)
      BY <1>3, <2>4 DEF Reindexes
    <3>2. Allowance(t)' = Allowance(t) /\ One(keys[t] # NoKey)' = One(keys[t] # NoKey)
      BY <2>3, <2>4, <3>1 DEF Allowance, Outdated, One
    <3>3. Live(t)' = Live(t)
      BY <1>7, <2>4, AddLive
    <3> QED
      BY <1>2, <1>4, <1>5, <2>1, <2>2, <2>4, <3>2, <3>3, TermNumbers DEF TermInv
  <2>5. CASE t = v
    <3>1. One(keys[t] # NoKey)' = 1
      BY <1>1, <2>3, <2>5 DEF One, NoKey, NoJob
    <3>2. Cardinality(Live(t)') <= Cardinality(Live(t)) + 1 - One(keys[t] # NoKey)
      <4>1. /\ Len(jobs) + 1 \notin Live(t)
            /\ Live(t)' = (Live(t) \ {h}) \cup {Len(jobs) + 1}
        BY <1>1, <1>7, <2>5, AddLive
      <4>2. /\ IsFiniteSet(Live(t) \ {h})
            /\ Cardinality(Live(t) \ {h}) = IF h \in Live(t) THEN Cardinality(Live(t)) - 1
                                           ELSE Cardinality(Live(t))
        BY TermNumbers, FS_RemoveElement
      <4>3. Cardinality(Live(t)') = Cardinality(Live(t) \ {h}) + 1
        BY <4>1, <4>2, FS_AddElement
      <4>4. One(keys[t] # NoKey) = IF h \in Live(t) THEN 1 ELSE 0
        <5>1. keys[t] # NoKey => h \in Live(t)
          BY <2>5 DEF TypeOK
        <5>2. keys[t] = NoKey => h \notin Live(t)
          BY <2>5 DEF NoKey, NoJob, Live, Ids
        <5> QED
          BY <5>1, <5>2 DEF One
      <4> QED
        BY <4>2, <4>3, <4>4, TermNumbers
    <3>3. Cardinality(Live(t)') \in Nat
      <4>1. IsFiniteSet(Live(t))'
        <5>1. Live(t)' \in SUBSET (1 .. Len(jobs')) /\ Len(jobs') \in Nat
          BY DEF TypeOK, Live, Ids
        <5>2. IsFiniteSet(1 .. Len(jobs'))
          BY <5>1, FS_Interval
        <5> QED
          BY <5>1, <5>2, FS_Subset
      <4> QED
        BY <4>1, FS_CardinalityType
    <3> QED
      BY <1>2, <1>4, <1>5, <2>1, <2>2, <2>5, <3>1, <3>2, <3>3, TermNumbers DEF TermInv
  <2> QED
    BY <2>4, <2>5
<1> QED
  BY <1>1, <1>2, <1>3, <1>6, <1>7 DEF Enqueue, Replaceable

\* A job cleaned away frees its key.
LEMMA CleanReindexKeeps ==
  ASSUME TypeOK, TypeOK', IsFiniteSet(reindexing), NEW i \in Ids, CleanReindex(i),
         NEW t \in Terms, TermInv(t)
  PROVE  IsFiniteSet(reindexing)' /\ TermInv(t)'
<1>1. /\ reindexing' = reindexing /\ UNCHANGED <<told, made, overlaps, loose, lost>>
      /\ keys'[t] = IF keys[t].job = i THEN NoKey ELSE keys[t]
  BY DEF CleanReindex, calls
<1>2. Reindexes(t)' = Reindexes(t)
  BY <1>1 DEF Reindexes
<1>3. Live(t)' = Live(t) \ {i}
  <2>1. jobs \in Seq(Job) /\ i \in 1 .. Len(jobs) /\ jobs' = [jobs EXCEPT ![i].state = "removed"]
    BY DEF TypeOK, Ids, CleanReindex
  <2>2. /\ Len(jobs') = Len(jobs) /\ jobs'[i].state = "removed"
        /\ \A j \in 1 .. Len(jobs) : j # i => jobs'[j] = jobs[j]
    BY <2>1, RemovedJob
  <2> QED
    BY <2>1, <2>2 DEF Live, Ids
<1>4. Cardinality(Live(t)') = IF i \in Live(t) THEN Cardinality(Live(t)) - 1 ELSE Cardinality(Live(t))
  BY <1>3, TermNumbers, FS_RemoveElement
<1>5. /\ Allowance(t)' >= Allowance(t) /\ Allowance(t)' \in {0, 1}
  <2>1. keys'[t].job = keys[t].job \/ keys'[t].job = NoJob
    BY <1>1 DEF NoKey
  <2> QED
    BY <1>2, <2>1 DEF Allowance, Outdated
<1>6. keys'[t] = keys[t] \/ (keys'[t] = NoKey /\ i \in Live(t))
  <2>1. keys[t] = NoKey \/ keys[t].job \in Live(t)
    BY DEF TypeOK
  <2> QED
    BY <1>1, <2>1
<1>7. One(keys[t] # NoKey)' = One(keys[t] # NoKey)
      \/ (One(keys[t] # NoKey)' = 0 /\ i \in Live(t))
  BY <1>6 DEF One
<1> QED
  BY <1>1, <1>2, <1>4, <1>5, <1>7, TermNumbers DEF TermInv

\* The rest does not touch it.
LEMMA TermFrameKeeps ==
  ASSUME TypeOK, TypeOK', IsFiniteSet(reindexing), TermFrame, NEW t \in Terms, TermInv(t)
  PROVE  IsFiniteSet(reindexing)' /\ TermInv(t)'
<1>1. Reindexes(t)' = Reindexes(t) /\ Live(t)' = Live(t)
  BY DEF TermFrame, Reindexes, Live, Ids
<1>2. Allowance(t)' = Allowance(t) /\ One(keys[t] # NoKey)' = One(keys[t] # NoKey)
  BY <1>1 DEF TermFrame, Allowance, Outdated, One
<1>3. lost' \in Nat
  BY DEF TypeOK
<1> QED
  BY <1>1, <1>2, <1>3, TermNumbers DEF TermFrame, TermInv

-----------------------------------------------------------------------------
(* The invariant *)

\* The labs whose enqueues are all new: every answer stands for a job, every
\* job for an answer or a lost one, and no two tabs follow the same job.
DemoInv ==
  /\ \A d \in Demos : told[d] <= made[d] /\ made[d] <= told[d] + lost
  /\ \A r \in Requesting : watched[r] <= made[r.demo]
  /\ \A r, q \in Requesting : r.demo = q.demo /\ watched[r] = watched[q] /\ watched[r] # NoJob => r = q

Inv ==
  /\ TypeOK /\ IsFiniteSet(onboarding) /\ IsFiniteSet(reindexing)
  /\ \A u \in Users : UserInv(u)
  /\ \A t \in Terms : TermInv(t)
  /\ DemoInv

\* What a step is, for each of the three.
UserStep ==
  \/ \E tab \in Tabs, u \in Users : Onboard(tab, u)
  \/ \E c \in onboarding : Welcome(c) \/ RefuseWelcome(c)
  \/ \E u \in Users : CleanWelcome(u)

TermStep ==
  \/ \E tab \in Tabs, t \in Terms, mode \in Modes : Reindex(tab, t, mode)
  \/ \E c \in reindexing : FinishReindex(c) \/ RefuseReindex(c)
  \/ \E t \in Terms : Release(t) /\ reindexing' = reindexing
  \/ \E i \in Ids : CleanReindex(i)

DemoFrame ==
  /\ watched' = watched /\ lost <= lost'
  /\ \A d \in Demos : told'[d] = told[d] /\ made'[d] = made[d]

DemoStep == \E r \in Requesting : Requested(r)

\* Users, terms and demos are told apart.
LEMMA Apart ==
  /\ \A u \in Users : u \in Subjects /\ u \notin Terms /\ u \notin Demos
  /\ \A t \in Terms : t \in Subjects /\ t \notin Users /\ t \notin Demos
  /\ \A d \in Demos : d \in Subjects /\ d \notin Users /\ d \notin Terms
BY SubjectsAssumption DEF Subjects, Demos

\* An answer is about one subject.
LEMMA AnswerFrame ==
  ASSUME TypeOK, NEW s \in Subjects, NEW P \in BOOLEAN, Answer(s, P)
  PROVE  lost <= lost' /\ \A x \in Subjects : x # s => told'[x] = told[x]
<1>1. lost \in Nat
  BY DEF TypeOK
<1>2. CASE lost' = lost \/ lost' = lost + 1
  BY <1>1, <1>2, AnswerTypes
<1>3. lost' = lost \/ lost' = lost + 1
  BY DEF Answer
<1> QED
  BY <1>2, <1>3

\* A step of the onboarding lab leaves the others alone.
LEMMA UserStepFrames == ASSUME TypeOK, UserStep PROVE TermFrame /\ DemoFrame
<1>1. ASSUME NEW u \in Users, NEW P \in BOOLEAN, Answer(u, P)
      PROVE  lost <= lost' /\ \A s \in Terms \cup Demos : told'[s] = told[s]
  BY <1>1, Apart, AnswerFrame
<1>2. ASSUME NEW tab \in Tabs, NEW u \in Users, Onboard(tab, u) PROVE TermFrame /\ DemoFrame
  <2>1. \A s \in Terms : overlaps'[s] = overlaps[s]
    <3>1. PICK P \in BOOLEAN : Click(P, u)
      BY <1>2 DEF Onboard
    <3> QED
      BY <3>1, Apart, ClickTypes
  <2> QED
    BY <1>2, <2>1 DEF Onboard, redis, others, TermFrame, DemoFrame, TypeOK
<1>3. ASSUME NEW c \in onboarding, Welcome(c) PROVE TermFrame /\ DemoFrame
  <2>1. c.user \in Users /\ c.found \in BOOLEAN
    BY DEF TypeOK, Onboarding
  <2>2. lost <= lost' /\ \A s \in Terms \cup Demos : told'[s] = told[s]
    BY <1>1, <1>3, <2>1 DEF Welcome, Created
  <2>3. \A s \in Terms \cup Demos : made'[s] = made[s]
    <3>1. made' = [made EXCEPT ![c.user] = @ + JobMade(c.user)]
      BY <1>3 DEF Welcome, Plus
    <3> QED
      BY <2>1, <3>1, Apart DEF TypeOK
  <2> QED
    BY <1>3, <2>2, <2>3 DEF Welcome, others, TermFrame, DemoFrame
<1>4. ASSUME NEW c \in onboarding, RefuseWelcome(c) PROVE TermFrame /\ DemoFrame
  BY <1>4 DEF RefuseWelcome, redis, history, others, TermFrame, DemoFrame, TypeOK
<1>5. ASSUME NEW u \in Users, CleanWelcome(u) PROVE TermFrame /\ DemoFrame
  BY <1>5 DEF CleanWelcome, calls, others, TermFrame, DemoFrame, TypeOK
<1> QED
  BY <1>2, <1>3, <1>4, <1>5 DEF UserStep

\* Neither does a step of the reindex lab.
LEMMA TermStepFrames == ASSUME TypeOK, TermStep PROVE UserFrame /\ DemoFrame
<1>1. ASSUME NEW t \in Terms, NEW P \in BOOLEAN, Answer(t, P)
      PROVE  lost <= lost' /\ \A s \in Users \cup Demos : told'[s] = told[s]
  BY <1>1, Apart, AnswerFrame
<1>2. ASSUME NEW tab \in Tabs, NEW t \in Terms, NEW mode \in Modes, Reindex(tab, t, mode)
      PROVE  UserFrame /\ DemoFrame
  <2>1. \A s \in Users : overlaps'[s] = overlaps[s]
    <3>1. PICK P \in BOOLEAN : Click(P, t)
      BY <1>2 DEF Reindex
    <3> QED
      BY <3>1, Apart, ClickTypes
  <2> QED
    BY <1>2, <2>1 DEF Reindex, redis, others, UserFrame, DemoFrame, TypeOK
<1>3. ASSUME NEW c \in reindexing, FinishReindex(c) PROVE UserFrame /\ DemoFrame
  <2>1. c.term \in Terms
    BY DEF TypeOK, Reindexing
  <2>2. Enqueue(c) /\ UNCHANGED <<onboarding, others, welcomed, overlaps, cleaned>>
    BY <1>3 DEF FinishReindex
  <2>3. lost <= lost' /\ \A s \in Users \cup Demos : told'[s] = told[s]
    <3>1. \/ Answer(c.term, ~ Deduplicated(c.existing, Len(jobs) + 1))
          \/ Answer(c.term, ~ Deduplicated(c.existing, Holder(c.term)))
      BY <2>2 DEF Enqueue, Add
    <3>2. PICK P \in BOOLEAN : Answer(c.term, P)
      BY <3>1
    <3> QED
      BY <1>1, <2>1, <3>2
  <2>4. \A s \in Users \cup Demos : made'[s] = made[s]
    <3>1. made' = made \/ made' = [made EXCEPT ![c.term] = @ + 1]
      BY <2>2 DEF Enqueue, Add, Plus
    <3> QED
      BY <2>1, <3>1, Apart DEF TypeOK
  <2> QED
    BY <2>2, <2>3, <2>4 DEF others, UserFrame, DemoFrame
<1>4. ASSUME NEW c \in reindexing, RefuseReindex(c) PROVE UserFrame /\ DemoFrame
  BY <1>4 DEF RefuseReindex, redis, history, others, UserFrame, DemoFrame, TypeOK
<1>5. ASSUME NEW t \in Terms, Release(t) PROVE UserFrame /\ DemoFrame
  BY <1>5 DEF Release, UserFrame, DemoFrame, TypeOK
<1>6. ASSUME NEW i \in Ids, CleanReindex(i) PROVE UserFrame /\ DemoFrame
  BY <1>6 DEF CleanReindex, calls, others, UserFrame, DemoFrame, TypeOK
<1> QED
  BY <1>2, <1>3, <1>4, <1>5, <1>6 DEF TermStep

\* Nor a step of the demo labs.
LEMMA DemoStepFrames == ASSUME TypeOK, DemoStep PROVE UserFrame /\ TermFrame
<1>1. PICK r \in Requesting : Requested(r)
  BY DEF DemoStep
<1>2. r.demo \in Demos /\ Answer(r.demo, TRUE)
  BY <1>1 DEF Requested, Requesting
<1>3. lost <= lost' /\ \A s \in Users \cup Terms : told'[s] = told[s]
  BY <1>2, Apart, AnswerFrame
<1>4. \A s \in Users \cup Terms : made'[s] = made[s]
  BY <1>1, <1>2, Apart DEF Requested, Plus, TypeOK
<1> QED
  BY <1>1, <1>3, <1>4 DEF Requested, redis, UserFrame, TermFrame

\* A job of its own for every request: the tab that is told follows a new one.
LEMMA DemoKeeps == ASSUME TypeOK, TypeOK', DemoInv, DemoStep \/ DemoFrame PROVE DemoInv'
<1>1. lost \in Nat /\ lost' \in Nat /\ \A d \in Demos : told[d] \in Nat /\ made[d] \in Nat
  BY Apart DEF TypeOK
<1>2. \A r \in Requesting : r.demo \in Demos /\ watched[r] \in Nat
  BY DEF Requesting, TypeOK
<1>3. CASE DemoFrame
  BY <1>1, <1>2, <1>3 DEF DemoInv, DemoFrame
<1>4. CASE DemoStep
  <2>1. PICK r \in Requesting : Requested(r)
    BY <1>4 DEF DemoStep
  <2>2. made'[r.demo] = made[r.demo] + 1 /\ \A d \in Demos : d # r.demo => made'[d] = made[d]
    BY <1>2, <2>1, Apart DEF Requested, Plus, TypeOK
  <2>3. /\ \A d \in Demos : d # r.demo => told'[d] = told[d]
        /\ \/ told'[r.demo] = told[r.demo] + 1 /\ lost' = lost
           \/ told'[r.demo] = told[r.demo] /\ lost' = lost + 1
    <3>1. Answer(r.demo, TRUE) /\ r.demo \in Subjects
      BY <1>2, <2>1, Apart DEF Requested
    <3>2. One(TRUE) = 1
      BY DEF One
    <3>3. /\ \A d \in Subjects : d # r.demo => told'[d] = told[d]
          /\ \/ told'[r.demo] = told[r.demo] + One(TRUE) /\ lost' = lost
             \/ told'[r.demo] = told[r.demo] /\ lost' = lost + 1
      BY <3>1, AnswerTypes
    <3> QED
      BY <3>2, <3>3, Apart
  <2>4. watched' = watched \/ watched' = [watched EXCEPT ![r] = made'[r.demo]]
    BY <2>1 DEF Requested
  <2>5. \A q \in Requesting : watched'[q] = watched[q] \/ (q = r /\ watched'[q] = made'[r.demo])
    BY <2>4 DEF TypeOK
  <2>6. \A d \in Demos : told'[d] <= made'[d] /\ made'[d] <= told'[d] + lost'
    BY <1>1, <2>2, <2>3 DEF DemoInv
  <2>7. \A q \in Requesting : watched'[q] <= made'[q.demo]
    BY <1>1, <1>2, <2>2, <2>5 DEF DemoInv
  <2>8. ASSUME NEW p \in Requesting, NEW q \in Requesting,
               p.demo = q.demo, watched'[p] = watched'[q], watched'[p] # NoJob
        PROVE  p = q
    <3>1. watched[p] <= made[p.demo] /\ watched[q] <= made[q.demo]
          /\ (watched[p] = watched[q] /\ watched[p] # NoJob => p = q)
      BY <2>8 DEF DemoInv
    <3> QED
      BY <1>1, <1>2, <2>2, <2>5, <2>8, <3>1
  <2> QED
    BY <2>6, <2>7, <2>8 DEF DemoInv
<1> QED
  BY <1>3, <1>4

\* Every step is a step of one lab, or of none.
LEMMA StepKinds ==
  ASSUME TypeOK, [Next]_vars
  PROVE  \/ UserStep \/ TermStep \/ DemoStep
         \/ UserFrame /\ TermFrame /\ DemoFrame
<1>1. ASSUME NEW r \in Requesting, Request(r) PROVE UserFrame /\ TermFrame /\ DemoFrame
  <2>1. r.demo \in Demos /\ Click(FALSE, r.demo)
    BY <1>1 DEF Request, Requesting
  <2>2. \A s \in Users \cup Terms : overlaps'[s] = overlaps[s]
    BY <2>1, Apart, ClickTypes
  <2> QED
    BY <1>1, <2>2 DEF Request, redis, UserFrame, TermFrame, DemoFrame, TypeOK
<1>2. ASSUME NEW r \in requesting, RefuseRequest(r) PROVE UserFrame /\ TermFrame /\ DemoFrame
  BY <1>2 DEF RefuseRequest, redis, history, UserFrame, TermFrame, DemoFrame, TypeOK
<1>3. ASSUME NEW tab \in Tabs, NEW t \in Terms, ClickClear(tab, t)
      PROVE  UserFrame /\ TermFrame /\ DemoFrame
  BY <1>3 DEF ClickClear, redis, UserFrame, TermFrame, DemoFrame, TypeOK
<1>4. ASSUME NEW c \in clearing, RefuseClear(c) PROVE UserFrame /\ TermFrame /\ DemoFrame
  BY <1>4 DEF RefuseClear, redis, history, UserFrame, TermFrame, DemoFrame, TypeOK
<1>5. ASSUME NEW c \in clearing, ClearKey(c) PROVE TermStep
  BY <1>5 DEF ClearKey, Release, TermStep, TypeOK, Clearing
<1>6. ASSUME NEW t \in Terms, ExpireKey(t) PROVE TermStep
  BY <1>6 DEF ExpireKey, Release, TermStep
<1>7. CASE UNCHANGED vars
  BY <1>7 DEF vars, calls, others, redis, history, UserFrame, TermFrame, DemoFrame, TypeOK
<1>8. CASE Next
  <2>1. \A tab \in Tabs, d \in Demos : [tab |-> tab, demo |-> d] \in Requesting
    BY DEF Requesting
  <2>2. ASSUME NEW tab \in Tabs, ReportLab(tab) \/ StallLab(tab)
        PROVE  UserFrame /\ TermFrame /\ DemoFrame
    BY <1>1, <2>1, <2>2 DEF ReportLab, StallLab, Demos
  <2>3. ASSUME NEW tab \in Tabs, Generate(tab) \/ Stall(tab) PROVE DemoStep
    BY <2>1, <2>3 DEF Generate, Stall, Demos, DemoStep
  <2> QED
    BY <1>2, <1>3, <1>4, <1>5, <1>6, <1>8, <2>2, <2>3 DEF Next, UserStep, TermStep
<1> QED
  BY <1>7, <1>8

\* The invariant holds initially.
LEMMA InitInv == Init => Inv
<1> SUFFICES ASSUME Init PROVE Inv
  OBVIOUS
<1>1. TypeOK
  BY InitTypes
<1>2. IsFiniteSet({}) /\ Cardinality({}) = 0
  BY FS_EmptySet
<1>3. ASSUME NEW u \in Users PROVE UserInv(u)
  <2>1. Onboards(u) = {} /\ u \in Subjects /\ u \notin welcomed
    BY Apart DEF Init, Onboards
  <2>2. Spare(u) = 0 /\ Bereft(u) = 0 /\ One(u \in welcomed) = 0
    BY <2>1 DEF Spare, Bereft, One
  <2> QED
    BY <1>2, <2>1, <2>2 DEF Init, UserInv
<1>4. ASSUME NEW t \in Terms PROVE TermInv(t)
  <2>1. Reindexes(t) = {} /\ Live(t) = {} /\ t \in Subjects /\ keys[t] = NoKey
    BY Apart DEF Init, Reindexes, Live, Ids
  <2>2. Allowance(t) = 0 /\ One(keys[t] # NoKey) = 0
    BY <2>1 DEF Allowance, One
  <2> QED
    BY <1>2, <2>1, <2>2 DEF Init, TermInv
<1>5. DemoInv
  <2>1. /\ \A d \in Demos : told[d] = 0 /\ made[d] = 0
        /\ \A r \in Requesting : watched[r] = 0 /\ r.demo \in Demos
        /\ lost = 0
    BY Apart DEF Init, Requesting, NoJob
  <2> QED
    BY <2>1 DEF DemoInv, NoJob
<1> QED
  BY <1>1, <1>2, <1>3, <1>4, <1>5 DEF Init, Inv

\* Every step keeps the invariant.
LEMMA NextInv == Inv /\ [Next]_vars => Inv'
<1> SUFFICES ASSUME Inv, [Next]_vars PROVE Inv'
  OBVIOUS
<1>1. TypeOK /\ TypeOK' /\ IsFiniteSet(onboarding) /\ IsFiniteSet(reindexing)
  BY NextTypes DEF Inv
<1>2. \/ UserStep /\ TermFrame /\ DemoFrame
      \/ TermStep /\ UserFrame /\ DemoFrame
      \/ DemoStep /\ UserFrame /\ TermFrame
      \/ UserFrame /\ TermFrame /\ DemoFrame
  BY <1>1, StepKinds, UserStepFrames, TermStepFrames, DemoStepFrames
<1>3. ASSUME NEW u \in Users PROVE IsFiniteSet(onboarding)' /\ UserInv(u)'
  <2>1. UserInv(u)
    BY DEF Inv
  <2>2. CASE UserFrame
    BY <1>1, <2>1, <2>2, UserFrameKeeps
  <2>3. CASE UserStep
    BY <1>1, <2>1, <2>3, OnboardKeeps, WelcomeKeeps, RefuseWelcomeKeeps, CleanWelcomeKeeps DEF UserStep
  <2> QED
    BY <1>2, <2>2, <2>3
<1>4. ASSUME NEW t \in Terms PROVE IsFiniteSet(reindexing)' /\ TermInv(t)'
  <2>1. TermInv(t)
    BY DEF Inv
  <2>2. CASE TermFrame
    BY <1>1, <2>1, <2>2, TermFrameKeeps
  <2>3. CASE TermStep
    BY <1>1, <2>1, <2>3, ReindexKeeps, FinishReindexKeeps, RefuseReindexKeeps, ReleaseKeeps,
       CleanReindexKeeps DEF TermStep
  <2> QED
    BY <1>2, <2>2, <2>3
<1>5. IsFiniteSet(onboarding)' /\ IsFiniteSet(reindexing)'
  <2>1. UserFrame => IsFiniteSet(onboarding)'
    BY <1>1 DEF UserFrame
  <2>2. TermFrame => IsFiniteSet(reindexing)'
    BY <1>1 DEF TermFrame
  <2>3. UserStep => Users # {}
    BY <1>1 DEF UserStep, TypeOK, Onboarding
  <2>4. TermStep => Terms # {}
    BY <1>1 DEF TermStep, TypeOK, Reindexing, Ids, Job
  <2> QED
    BY <1>2, <1>3, <1>4, <2>1, <2>2, <2>3, <2>4
<1>6. DemoInv'
  BY <1>1, <1>2, DemoKeeps DEF Inv
<1> QED
  BY <1>1, <1>3, <1>4, <1>5, <1>6 DEF Inv

-----------------------------------------------------------------------------
(* The properties *)

\* In every state the four properties follow from the invariant.
LEMMA InvImplies ==
  ASSUME Inv
  PROVE  FalseNewsNeedsOverlap /\ NewJobsAreReported /\ OneWelcomePerLife /\ OneJobPerKey
<1>1. TypeOK /\ IsFiniteSet(onboarding) /\ IsFiniteSet(reindexing) /\ DemoInv
  BY DEF Inv
<1>2. ASSUME NEW u \in Users
      PROVE  /\ told[u] <= made[u] + overlaps[u]
             /\ made[u] <= told[u] + cleaned[u] + lost
             /\ made[u] <= 1 + cleaned[u]
  <2>1. UserInv(u)
    BY DEF Inv
  <2>2. Onboards(u) = {} => Spare(u) = 0
    BY DEF Spare
  <2> QED
    BY <1>1, <2>1, <2>2, UserNumbers DEF UserInv
<1>3. ASSUME NEW t \in Terms
      PROVE  /\ told[t] <= made[t] + overlaps[t]
             /\ made[t] <= told[t] + lost
             /\ Cardinality(Live(t)) <= loose[t] + One(keys[t] # NoKey)
  <2>1. TermInv(t)
    BY DEF Inv
  <2>2. Reindexes(t) = {} => Allowance(t) = 0
    BY DEF Allowance
  <2> QED
    BY <1>1, <2>1, <2>2, TermNumbers DEF TermInv
<1>4. ASSUME NEW d \in Demos PROVE told[d] <= made[d] + overlaps[d] /\ made[d] <= told[d] + lost
  <2>1. told[d] \in Nat /\ made[d] \in Nat /\ overlaps[d] \in Nat
    BY <1>1, Apart DEF TypeOK
  <2> QED
    BY <1>1, <2>1 DEF DemoInv
<1>5. FalseNewsNeedsOverlap
  BY <1>2, <1>3, <1>4 DEF FalseNewsNeedsOverlap, Subjects
<1>6. NewJobsAreReported
  BY <1>1, <1>2, <1>3, <1>4 DEF NewJobsAreReported, DemoInv
<1> QED
  BY <1>2, <1>3, <1>5, <1>6 DEF OneWelcomePerLife, OneJobPerKey

\* Of a user or a term, no more answers say "new" than jobs were made and calls
\* overlapped: for every number of tabs, clicks and removals.
THEOREM FalseNewsBounded == Spec => []FalseNewsNeedsOverlap
BY InvImplies, InitInv, NextInv, PTL DEF Spec

\* No job is made in silence, except for answers that are lost and welcome jobs
\* cleaned away under a call; no two tabs follow the same report or stall job.
THEOREM NewsComplete == Spec => []NewJobsAreReported
BY InvImplies, InitInv, NextInv, PTL DEF Spec

\* The welcome mail is idempotent between two cleanings.
THEOREM WelcomeIdempotent == Spec => []OneWelcomePerLife
BY InvImplies, InitInv, NextInv, PTL DEF Spec

\* A term has at most one job per key it holds or has lost, in every mixture of
\* modes.
THEOREM KeyAdmitsOne == Spec => []OneJobPerKey
BY InvImplies, InitInv, NextInv, PTL DEF Spec

=============================================================================
