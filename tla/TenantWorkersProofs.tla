------------------------ MODULE TenantWorkersProofs ------------------------
(***************************************************************************)
(* The tenant workers, and the ring buffer their deliveries are kept in,   *)
(* for every value of the constants.                                       *)
(*                                                                         *)
(* What the list says of tiers and what an answered removal means follow   *)
(* from two facts about the workers: registrations are numbered, so that a *)
(* teardown is of one worker for ever (Lifetimes); and a tenant has one    *)
(* listed worker, which knows if it shares the tenant with a closing one   *)
(* (Listings).  The page's table follows from what holds once its calls    *)
(* are answered (PageInv).                                                 *)
(*                                                                         *)
(* TenantDeliveries is a BoundedRingBuffer.  Its inductive invariant adds  *)
(* to the types that head rests at slot 0 until the array is full, which   *)
(* is what makes the plain-copy and the rotated reading of snapshot()      *)
(* agree when the array fills up.                                          *)
(***************************************************************************)
EXTENDS TenantWorkers, BoundedRingBuffer, FiniteSetTheorems, SequenceTheorems, TLAPS

\* The teardowns under way.
Removing == {r \in Removals : removals[r].state = "closing"}

Typed == TypeOK /\ IsFiniteSet(Removing)

-----------------------------------------------------------------------------
(* Types *)

\* A list marked as missing a change promises nothing, and stays a list.
LEMMA BehindFacts ==
  ASSUME NEW list \in Shown
  PROVE  /\ Behind(list) \in Shown
         /\ Behind(list).loaded = list.loaded
         /\ ~ (Behind(list).loaded /\ ~ Behind(list).behind)
BY DEF Behind, Shown

\* No list yet, and no request yet.
LEMMA NothingFacts ==
  /\ NothingShown \in Shown /\ ~ NothingShown.loaded
  /\ NoRequest \in Removal /\ NoRequest.state = "none"
BY DEF NothingShown, Shown, NoRequest, Over, Removal

\* An ended request is one.
LEMMA OverFacts ==
  ASSUME NEW state \in {"answered", "lost"}, NEW w \in Worker \cup {NoWorker}
  PROVE  Over(state, w) \in Removal /\ Over(state, w).state = state /\ Over(state, w).worker = w
BY DEF Over, Removal

\* What list() returns is a set of views.
LEMMA ListIsViews == TypeOK => List \subseteq View
BY DEF TypeOK, List, View, Worker

\* Telling the page keeps the types of what it keeps.
LEMMA ToldTypes ==
  ASSUME TypeOK, NEW n \in Nat, NEW elsewhere \in BOOLEAN, Told(n, elsewhere)
  PROVE  /\ answers' \in Nat /\ fetch' = fetch
         /\ answered' \in Shown /\ table' \in Shown
         /\ answered'.loaded => fetch' = "answered"
BY BehindFacts DEF TypeOK, Told

\* TenantDeliveries keeps at most its capacity.
LEMMA RecordTypes ==
  ASSUME TypeOK, NEW n \in Notes, Record(n)
  PROVE  trail' \in Seq(Notes) /\ Len(trail') <= TrailCapacity
<1> DEFINE grown == Append(trail, n)
<1>1. /\ grown \in Seq(Notes) /\ grown # <<>>
      /\ Len(grown) = Len(trail) + 1 /\ Len(trail) \in Nat
  BY AppendProperties, LenProperties DEF TypeOK
<1>2. Tail(grown) \in Seq(Notes) /\ Len(Tail(grown)) = Len(grown) - 1
  BY <1>1, HeadTailProperties
<1>3. Len(trail) <= TrailCapacity /\ TrailCapacity \in Nat
  BY BoundsAssumption DEF TypeOK
<1>4. trail' = IF Len(grown) > TrailCapacity THEN Tail(grown) ELSE grown
  BY DEF Record
<1> HIDE DEF grown
<1> QED
  BY <1>1, <1>2, <1>3, <1>4

\* The worker a registration installs, by its fields.
LEMMA InstallFacts ==
  ASSUME TypeOK, NEW t \in Tenants, NEW tier \in Tiers, Install(t, tier)
  PROVE  /\ ~ Listed(t) /\ lives' = lives + 1
         /\ tiers' = [tiers EXCEPT ![t] = tier]
         /\ \E w \in Worker :
              /\ w.tenant = t /\ w.life = lives + 1 /\ w.tier = tier
              /\ (\E v \in workers : v.tenant = t) => w.overlapped
              /\ workers' = workers \cup {w} /\ registry' = registry \cup {w}
<1> DEFINE taken == \E v \in workers : v.tenant = t
<1>1. PICK w \in Worker :
        /\ w = [tenant |-> t, life |-> lives + 1, tier |-> tier, overlapped |-> taken]
        /\ workers' = workers \cup {w} /\ registry' = registry \cup {w}
  BY DEF Install
<1> HIDE DEF taken
<1>2. w.tenant = t /\ w.life = lives + 1 /\ w.tier = tier /\ (taken => w.overlapped)
  BY <1>1
<1> QED
  BY <1>1, <1>2 DEF Install, taken

\* A process starts with everything typed.
LEMMA InitTypes == Init => Typed
<1> SUFFICES ASSUME Init PROVE Typed
  OBVIOUS
<1>1. Removing = {}
  BY NothingFacts DEF Init, Removing
<1>2. IsFiniteSet(Removing)
  BY <1>1, FS_EmptySet
<1>3. trail \in Seq(Notes) /\ Len(trail) = 0
  BY EmptySeq DEF Init
<1>4. TypeOK
  BY <1>3, NothingFacts, BoundsAssumption DEF Init, TypeOK
<1> QED
  BY <1>2, <1>4 DEF Typed

\* Every step keeps the types.
LEMMA NextTypes == Typed /\ [Next]_vars => Typed'
<1> SUFFICES ASSUME Typed, [Next]_vars PROVE Typed'
  OBVIOUS
<1>0. TypeOK /\ IsFiniteSet(Removing)
  BY DEF Typed
<1>1. ASSUME NEW t \in Tenants, NEW tier \in Tiers, NEW page \in BOOLEAN, Register(t, tier, page)
      PROVE  Typed'
  <2>1. Told(1, FALSE) \/ Told(0, TRUE)
    BY <1>1 DEF Register, Succeeded
  <2>2. /\ answers' \in Nat /\ fetch' = fetch
        /\ answered' \in Shown /\ table' \in Shown
        /\ answered'.loaded => fetch' = "answered"
    BY <1>0, <2>1, ToldTypes
  <2>3. /\ workers' \subseteq Worker /\ registry' \subseteq workers'
        /\ tiers' \in [Tenants -> Tiers \cup {NoTier}]
        /\ lives' \in 0 .. MaxLives
    <3>1. Install(t, tier) /\ lives < MaxLives
      BY <1>1 DEF Register
    <3> QED
      BY <1>0, <3>1, InstallFacts, BoundsAssumption DEF TypeOK
  <2> QED
    BY <1>0, <1>1, <2>2, <2>3 DEF Typed, TypeOK, Register, Removing, redis
<1>2. ASSUME NEW r \in Removals, NEW t \in Tenants, NEW page \in BOOLEAN, Unregister(r, t, page)
      PROVE  Typed'
  <2>1. PICK w \in registry :
          /\ removals' = [removals EXCEPT ![r] = [state |-> "closing", worker |-> w, page |-> page]]
          /\ registry' = IF forgetsEarly THEN registry \ {w} ELSE registry
    BY <1>2 DEF Unregister, StartClose
  <2>2. removals' \in [Removals -> Removal]
    BY <1>0, <2>1 DEF TypeOK, Removal
  <2>3. Removing' = Removing \cup {r}
    BY <1>0, <2>1 DEF TypeOK, Removing
  <2>4. IsFiniteSet(Removing')
    BY <1>0, <2>3, FS_AddElement
  <2> QED
    BY <1>0, <1>2, <2>1, <2>2, <2>4 DEF Typed, TypeOK, Unregister, redis, query
<1>3. ASSUME NEW r \in Removals, NEW t \in Tenants, NEW page \in BOOLEAN,
             UnregisterNothing(r, t, page)
      PROVE  Typed'
  <2>1. Told(1, FALSE) \/ Told(0, TRUE)
    BY <1>3 DEF UnregisterNothing, Succeeded
  <2>2. /\ answers' \in Nat /\ fetch' = fetch
        /\ answered' \in Shown /\ table' \in Shown
        /\ answered'.loaded => fetch' = "answered"
    BY <1>0, <2>1, ToldTypes
  <2>3. removals' \in [Removals -> Removal] /\ Removing' = Removing
    BY <1>0, <1>3, OverFacts, NothingFacts DEF TypeOK, UnregisterNothing, Removing
  <2>4. tiers' \in [Tenants -> Tiers \cup {NoTier}]
    BY <1>0, <1>3 DEF TypeOK, UnregisterNothing
  <2> QED
    BY <1>0, <1>3, <2>2, <2>3, <2>4 DEF Typed, TypeOK, UnregisterNothing, redis
<1>4. ASSUME NEW w \in workers, Unregistered(w)
      PROVE  Typed'
  <2> DEFINE waited == {r \in Removals : removals[r].state = "closing" /\ removals[r].worker = w}
             mine == {r \in waited : removals[r].page}
  <2>1. /\ removals' = [r \in Removals |->
                         IF r \in waited THEN Over("answered", w) ELSE removals[r]]
        /\ Told(Cardinality(mine), \E r \in waited : ~ removals[r].page)
    BY <1>4 DEF Unregistered
  <2>2. mine \subseteq Removing
    BY DEF Removing
  <2>3. Cardinality(mine) \in Nat
    BY <1>0, <2>2, FS_Subset, FS_CardinalityType
  <2>4. /\ answers' \in Nat /\ fetch' = fetch
        /\ answered' \in Shown /\ table' \in Shown
        /\ answered'.loaded => fetch' = "answered"
    <3> DEFINE elsewhere == \E r \in waited : ~ removals[r].page
    <3>1. elsewhere \in BOOLEAN
      OBVIOUS
    <3> HIDE DEF elsewhere, mine
    <3> QED
      BY <1>0, <2>1, <2>3, <3>1, ToldTypes DEF elsewhere
  <2>5. w \in Worker /\ removals' \in [Removals -> Removal]
    <3>1. Over("answered", w) \in Removal
      BY <1>0, <1>4, OverFacts DEF TypeOK
    <3> QED
      BY <1>0, <1>4, <2>1, <3>1 DEF TypeOK
  <2>6. Removing' \subseteq Removing
    BY <2>1, OverFacts, <2>5 DEF Removing
  <2>7. IsFiniteSet(Removing')
    BY <1>0, <2>6, FS_Subset
  <2>8. /\ workers' \subseteq Worker /\ registry' \subseteq workers'
        /\ tiers' \in [Tenants -> Tiers \cup {NoTier}]
    BY <1>0, <1>4 DEF TypeOK, Unregistered
  <2> QED
    BY <1>0, <1>4, <2>4, <2>5, <2>7, <2>8 DEF Typed, TypeOK, Unregistered, redis
<1>5. ASSUME NEW n \in Notes, NEW page \in BOOLEAN, Notify(n, page)
      PROVE  Typed'
  BY <1>0, <1>5 DEF Typed, TypeOK, Notify, Enqueue, Removing, process, query
<1>6. ASSUME NEW n \in Notes, Deliver(n)
      PROVE  Typed'
  <2>1. trail' \in Seq(Notes) /\ Len(trail') <= TrailCapacity
    BY <1>0, <1>6, RecordTypes DEF Deliver
  <2> QED
    BY <1>0, <1>6, <2>1 DEF Typed, TypeOK, Deliver, Removing, query
<1>7. ASSUME NEW n \in Notes, Stalled(n)
      PROVE  Typed'
  BY <1>0, <1>7 DEF Typed, TypeOK, Stalled, Removing, process, query
<1>8. ASSUME NEW w \in workers, NEW n \in Notes, Fetch(w, n)
      PROVE  Typed'
  BY <1>0, <1>8 DEF Typed, TypeOK, Fetch, Removing, process, query
<1>9. CASE Crash
  <2>1. /\ removals' \in [Removals -> Removal] /\ Removing' = {}
    <3>1. \A r \in Removals : Over("lost", removals[r].worker) \in Removal
                              /\ Over("lost", removals[r].worker).state = "lost"
      BY <1>0, OverFacts DEF TypeOK, Removal
    <3> QED
      BY <1>0, <1>9, <3>1 DEF TypeOK, Crash, Removing
  <2>2. IsFiniteSet(Removing')
    BY <2>1, FS_EmptySet
  <2>3. trail' \in Seq(Notes) /\ Len(trail') = 0
    BY <1>9, EmptySeq DEF Crash
  <2>4. /\ answered' \in Shown /\ table' \in Shown
        /\ answered'.loaded => fetch' = "answered"
    BY <1>0, <1>9, BehindFacts DEF TypeOK, Crash
  <2> QED
    BY <1>0, <1>9, <2>1, <2>2, <2>3, <2>4, BoundsAssumption DEF Typed, TypeOK, Crash
<1>10. CASE OnSuccess
  <2>1. answered' \in Shown /\ (answered'.loaded => fetch' = "answered")
    BY <1>0, <1>10, BehindFacts, NothingFacts DEF TypeOK, OnSuccess, Drops
  <2> QED
    BY <1>0, <1>10, <2>1 DEF Typed, TypeOK, OnSuccess, Removing, process, redis
<1>11. CASE ServeList
  <2>1. answered' \in Shown
    BY <1>0, <1>11, ListIsViews DEF ServeList, Shown
  <2> QED
    BY <1>0, <1>11, <2>1 DEF Typed, TypeOK, ServeList, Removing, process, redis
<1>12. CASE ShowList
  BY <1>0, <1>12, NothingFacts DEF Typed, TypeOK, ShowList, Removing, process, redis
<1>13. CASE UNCHANGED vars
  BY <1>0, <1>13 DEF Typed, TypeOK, Removing, vars, process, redis, query
<1> QED
  BY <1>1, <1>2, <1>3, <1>4, <1>5, <1>6, <1>7, <1>8, <1>9, <1>10, <1>11, <1>12, <1>13 DEF Next

\* Type correctness of the tenant workers, for every value of the constants.
THEOREM TenantTypes == Spec => []TypeOK
<1>1. Typed => TypeOK
  BY DEF Typed
<1> QED
  BY <1>1, InitTypes, NextTypes, PTL DEF Spec

-----------------------------------------------------------------------------
(* Workers *)

\* Registrations are numbered, so a worker that is gone never comes back: a
\* teardown under way is of a worker that still runs, one that was answered is
\* not, and only a running worker holds a notification.
Lifetimes ==
  /\ \A w \in workers : w.life <= lives
  /\ \A r \in Removals : removals[r].worker # NoWorker => removals[r].worker.life <= lives
  /\ \A r \in Removing : removals[r].worker \in workers
  /\ \A r \in Removals : removals[r].state = "answered" => removals[r].worker \notin workers
  /\ \A n \in Notes : holder[n] # NoWorker => holder[n] \in workers

\* The registry lists one worker of a tenant.  Two run only while one of them
\* closes, which takes a registry that forgets it early; the listed one then
\* knows.
Listings ==
  /\ forgetsEarly \/ registry = workers
  /\ \A v, w \in registry : v.tenant = w.tenant => v = w
  /\ \A v \in registry, w \in workers : v.tenant = w.tenant /\ v # w => v.overlapped
  /\ \A r \in Removing : forgetsEarly => removals[r].worker \notin registry

\* A teardown starts: request r finds w listed.
Starts(r, w, page) ==
  /\ w \in registry /\ removals[r] = NoRequest
  /\ removals' = [removals EXCEPT ![r] = [state |-> "closing", worker |-> w, page |-> page]]
  /\ registry' = IF forgetsEarly THEN registry \ {w} ELSE registry

\* After a teardown has started, the ones under way are those and this one.
LEMMA StartsRemoving ==
  ASSUME TypeOK, NEW r \in Removals, NEW w, NEW page, Starts(r, w, page)
  PROVE  /\ Removing' = Removing \cup {r}
         /\ removals'[r].worker = w /\ removals'[r].state = "closing"
         /\ \A s \in Removals \ {r} : removals'[s] = removals[s]
BY NothingFacts DEF TypeOK, Starts, Removing

\* A teardown of a listed worker is such a start.
LEMMA UnregisterStarts ==
  ASSUME NEW r \in Removals, NEW t \in Tenants, NEW page \in BOOLEAN, Unregister(r, t, page)
  PROVE  \E w \in registry : Starts(r, w, page)
BY DEF Unregister, StartClose, Starts

\* What the end of a close does to the requests.
LEMMA UnregisteredRemovals ==
  ASSUME TypeOK, NEW w \in workers, Unregistered(w)
  PROVE  \A r \in Removals :
           \/ /\ r \in Removing /\ removals[r].worker = w
              /\ removals'[r].state = "answered" /\ removals'[r].worker = w
           \/ /\ ~ (r \in Removing /\ removals[r].worker = w)
              /\ removals'[r] = removals[r]
<1> DEFINE waited == {r \in Removals : removals[r].state = "closing" /\ removals[r].worker = w}
<1>1. removals' = [r \in Removals |-> IF r \in waited THEN Over("answered", w) ELSE removals[r]]
  BY DEF Unregistered
<1>2. Over("answered", w).state = "answered" /\ Over("answered", w).worker = w
  BY DEF Over
<1> QED
  BY <1>1, <1>2 DEF Removing

\* A process death ends every teardown under way without an answer.
LEMMA CrashRemovals ==
  ASSUME TypeOK, Crash
  PROVE  /\ Removing' = {}
         /\ \A r \in Removals : /\ removals'[r].worker = removals[r].worker
                                /\ removals'[r].state = "answered" => removals[r].state = "answered"
<1>1. ASSUME NEW r \in Removals
      PROVE  /\ removals'[r].worker = removals[r].worker /\ removals'[r].state # "closing"
             /\ removals'[r].state = "answered" => removals[r].state = "answered"
  <2>1. /\ Over("lost", removals[r].worker).worker = removals[r].worker
        /\ Over("lost", removals[r].worker).state = "lost"
    BY DEF Over
  <2> QED
    BY <2>1 DEF Crash
<1> QED
  BY <1>1 DEF Removing

\* The steps that concern neither the workers nor what is listed: the most they do
\* is to give a notification to a worker that runs.
Aside ==
  /\ UNCHANGED <<forgetsEarly, workers, registry, tiers, removals, lives>>
  /\ \A n \in Notes : holder'[n] # NoWorker => holder'[n] \in workers \/ holder'[n] = holder[n]

\* A step is one that concerns them, or one aside.
LEMMA StepsOfWorkers ==
  ASSUME TypeOK, [Next]_vars
  PROVE  \/ \E t \in Tenants, tier \in Tiers, page \in BOOLEAN : Register(t, tier, page)
         \/ \E r \in Removals, t \in Tenants, page \in BOOLEAN :
              Unregister(r, t, page) \/ UnregisterNothing(r, t, page)
         \/ \E w \in workers : Unregistered(w)
         \/ Crash
         \/ Aside
<1>1. ASSUME NEW n \in Notes, Deliver(n) PROVE Aside
  BY <1>1 DEF TypeOK, Deliver, Aside
<1>2. ASSUME NEW n \in Notes, Stalled(n) PROVE Aside
  BY <1>2 DEF Stalled, Aside, process
<1>3. ASSUME NEW n \in Notes, NEW w \in workers, Fetch(w, n) PROVE Aside
  BY <1>3 DEF TypeOK, Fetch, Aside, process
<1>4. ASSUME NEW n \in Notes, NEW page \in BOOLEAN, Notify(n, page) PROVE Aside
  BY <1>4 DEF Notify, Aside, process
<1>5. ASSUME OnSuccess \/ ServeList \/ ShowList \/ UNCHANGED vars PROVE Aside
  BY <1>5 DEF OnSuccess, ServeList, ShowList, vars, Aside, process, redis
<1> QED
  BY <1>1, <1>2, <1>3, <1>4, <1>5 DEF Next

\* Every step keeps the lifetimes.
LEMMA NextLifetimes == TypeOK /\ TypeOK' /\ Lifetimes /\ [Next]_vars => Lifetimes'
<1> SUFFICES ASSUME TypeOK, TypeOK', Lifetimes, [Next]_vars PROVE Lifetimes'
  OBVIOUS
<1>0. lives \in Nat /\ \A w \in Worker : w.life \in Nat
  BY BoundsAssumption DEF TypeOK, Worker
<1>1. ASSUME NEW t \in Tenants, NEW tier \in Tiers, NEW page \in BOOLEAN, Register(t, tier, page)
      PROVE  Lifetimes'
  <2>1. PICK w \in Worker :
          /\ w.life = lives + 1 /\ lives' = lives + 1 /\ workers' = workers \cup {w}
    BY <1>1, InstallFacts DEF Register
  <2>2. UNCHANGED <<removals, holder>> /\ Removing' = Removing
    BY <1>1 DEF Register, Removing, redis
  <2>3. \A r \in Removals : removals[r].worker # w
    BY <1>0, <2>1, NoWorkerAssumption DEF TypeOK, Lifetimes, Removal
  <2> QED
    BY <1>0, <2>1, <2>2, <2>3 DEF TypeOK, Lifetimes, Removal
<1>2. ASSUME NEW r \in Removals, NEW w \in registry, NEW page \in BOOLEAN, Starts(r, w, page),
             UNCHANGED <<workers, holder, lives>>
      PROVE  Lifetimes'
  <2>1. w \in workers /\ w.life <= lives
    BY <1>2 DEF TypeOK, Lifetimes
  <2>2. /\ Removing' = Removing \cup {r}
        /\ removals'[r].worker = w /\ removals'[r].state = "closing"
        /\ \A s \in Removals \ {r} : removals'[s] = removals[s]
    BY <1>2, StartsRemoving
  <2> QED
    BY <1>2, <2>1, <2>2 DEF Lifetimes, Removing
<1>3. ASSUME NEW r \in Removals, NEW t \in Tenants, NEW page \in BOOLEAN, Unregister(r, t, page)
      PROVE  Lifetimes'
  <2>1. PICK w \in registry : Starts(r, w, page)
    BY <1>3, UnregisterStarts
  <2> QED
    BY <1>2, <1>3, <2>1 DEF Unregister, redis
<1>4. ASSUME NEW r \in Removals, NEW t \in Tenants, NEW page \in BOOLEAN,
             UnregisterNothing(r, t, page)
      PROVE  Lifetimes'
  <2>1. /\ UNCHANGED <<workers, holder, lives>>
        /\ removals' = [removals EXCEPT ![r] = Over("answered", NoWorker)]
        /\ Over("answered", NoWorker).worker = NoWorker
        /\ Over("answered", NoWorker).state = "answered"
        /\ removals' \in [Removals -> Removal]
    BY <1>4 DEF UnregisterNothing, TypeOK, redis, Over
  <2>2. NoWorker \notin workers
    BY NoWorkerAssumption DEF TypeOK
  <2>3. Removing' \subseteq Removing /\ r \notin Removing'
    BY <2>1 DEF TypeOK, Removing
  <2>4. removals'[r].worker = NoWorker /\ \A s \in Removals \ {r} : removals'[s] = removals[s]
    BY <2>1 DEF TypeOK
  <2> QED
    BY <2>1, <2>2, <2>3, <2>4 DEF Lifetimes, Removing
<1>5. ASSUME NEW w \in workers, Unregistered(w)
      PROVE  Lifetimes'
  <2>1. \A r \in Removals :
           \/ /\ r \in Removing /\ removals[r].worker = w
              /\ removals'[r].state = "answered" /\ removals'[r].worker = w
           \/ /\ ~ (r \in Removing /\ removals[r].worker = w)
              /\ removals'[r] = removals[r]
    BY <1>5, UnregisteredRemovals
  <2>2. workers' = workers \ {w} /\ UNCHANGED <<holder, lives>> /\ \A n \in Notes : holder[n] # w
    BY <1>5 DEF Unregistered, Closed, redis
  <2> QED
    BY <2>1, <2>2 DEF Lifetimes, Removing
<1>6. CASE Crash
  BY <1>6, CrashRemovals DEF TypeOK, Lifetimes, Crash
<1>7. CASE Aside
  BY <1>7 DEF Lifetimes, Aside, Removing
<1> QED
  BY <1>1, <1>3, <1>4, <1>5, <1>6, <1>7, StepsOfWorkers

\* Every step keeps the listings.
LEMMA NextListings ==
  TypeOK /\ TypeOK' /\ Lifetimes /\ Listings /\ [Next]_vars => Listings'
<1> SUFFICES ASSUME TypeOK, TypeOK', Lifetimes, Listings, [Next]_vars PROVE Listings'
  OBVIOUS
<1>0. lives \in Nat /\ \A w \in Worker : w.life \in Nat
  BY BoundsAssumption DEF TypeOK, Worker
<1>1. ASSUME NEW t \in Tenants, NEW tier \in Tiers, NEW page \in BOOLEAN, Register(t, tier, page)
      PROVE  Listings'
  <2>1. PICK w \in Worker :
          /\ w.tenant = t /\ w.life = lives + 1
          /\ (\E v \in workers : v.tenant = t) => w.overlapped
          /\ workers' = workers \cup {w} /\ registry' = registry \cup {w}
    BY <1>1, InstallFacts DEF Register
  <2>2. UNCHANGED <<forgetsEarly, removals>> /\ Removing' = Removing /\ ~ Listed(t)
    BY <1>1, InstallFacts DEF Register, Removing
  <2>3. \A r \in Removals : removals[r].worker # w
    BY <1>0, <2>1, NoWorkerAssumption DEF TypeOK, Lifetimes, Removal
  <2>4. \A v \in registry : v.tenant # t
    BY <2>2 DEF Listed
  <2> QED
    BY <2>1, <2>2, <2>3, <2>4 DEF Listings, Removing
<1>2. ASSUME NEW r \in Removals, NEW t \in Tenants, NEW page \in BOOLEAN, Unregister(r, t, page)
      PROVE  Listings'
  <2>1. PICK w \in registry : Starts(r, w, page)
    BY <1>2, UnregisterStarts
  <2>2. /\ Removing' = Removing \cup {r} /\ removals'[r].worker = w
        /\ \A s \in Removals \ {r} : removals'[s] = removals[s]
    BY <2>1, StartsRemoving
  <2>3. UNCHANGED <<forgetsEarly, workers>> /\ (forgetsEarly => registry' = registry \ {w})
        /\ (~ forgetsEarly => registry' = registry)
    BY <1>2, <2>1 DEF Unregister, Starts
  <2> QED
    BY <2>2, <2>3 DEF Listings, Removing
<1>3. ASSUME NEW r \in Removals, NEW t \in Tenants, NEW page \in BOOLEAN,
             UnregisterNothing(r, t, page)
      PROVE  Listings'
  <2>1. /\ UNCHANGED <<forgetsEarly, workers, registry>>
        /\ removals' = [removals EXCEPT ![r] = Over("answered", NoWorker)]
        /\ Over("answered", NoWorker).state = "answered"
    BY <1>3 DEF UnregisterNothing, Over
  <2>2. Removing' \subseteq Removing /\ r \notin Removing'
        /\ \A s \in Removals \ {r} : removals'[s] = removals[s]
    BY <2>1 DEF TypeOK, Removing
  <2> QED
    BY <2>1, <2>2 DEF Listings, Removing
<1>4. ASSUME NEW w \in workers, Unregistered(w)
      PROVE  Listings'
  <2>1. Removing' \subseteq Removing /\ \A r \in Removing' : removals'[r] = removals[r]
    BY <1>4, UnregisteredRemovals DEF Removing
  <2>2. workers' = workers \ {w} /\ registry' = registry \ {w} /\ UNCHANGED forgetsEarly
    BY <1>4 DEF Unregistered
  <2> QED
    BY <2>1, <2>2 DEF Listings
<1>5. CASE Crash
  BY <1>5, CrashRemovals DEF Listings, Crash
<1>6. CASE Aside
  BY <1>6 DEF Listings, Aside, Removing
<1> QED
  BY <1>1, <1>2, <1>3, <1>4, <1>5, <1>6, StepsOfWorkers

\* Every step keeps the tiers with the workers.
LEMMA NextTiers ==
  TypeOK /\ TypeOK' /\ Listings /\ TierFollowsWorker /\ [Next]_vars => TierFollowsWorker'
<1> SUFFICES ASSUME TypeOK, TypeOK', Listings, TierFollowsWorker, [Next]_vars
             PROVE  TierFollowsWorker'
  OBVIOUS
<1>0. \A w \in workers : w \in Worker /\ w.tenant \in Tenants
  BY DEF TypeOK, Worker
<1>1. ASSUME NEW t \in Tenants, NEW tier \in Tiers, NEW page \in BOOLEAN, Register(t, tier, page)
      PROVE  TierFollowsWorker'
  <2>1. PICK w \in Worker :
          /\ w.tenant = t /\ w.tier = tier
          /\ workers' = workers \cup {w} /\ registry' = registry \cup {w}
    BY <1>1, InstallFacts DEF Register
  <2>2. /\ ~ Listed(t) /\ UNCHANGED forgetsEarly
        /\ tiers' = [tiers EXCEPT ![t] = tier]
    BY <1>1, InstallFacts DEF Register
  <2>3. \A v \in registry : v.tenant # t
    BY <2>2 DEF Listed
  <2> QED
    BY <1>0, <2>1, <2>2, <2>3 DEF TypeOK, TierFollowsWorker
<1>2. ASSUME NEW r \in Removals, NEW t \in Tenants, NEW page \in BOOLEAN, Unregister(r, t, page)
      PROVE  TierFollowsWorker'
  <2>1. registry' \subseteq registry /\ UNCHANGED <<forgetsEarly, workers, tiers>>
    BY <1>2 DEF Unregister, StartClose
  <2> QED
    BY <2>1 DEF TierFollowsWorker
<1>3. ASSUME NEW r \in Removals, NEW t \in Tenants, NEW page \in BOOLEAN,
             UnregisterNothing(r, t, page)
      PROVE  TierFollowsWorker'
  <2>1. /\ UNCHANGED <<forgetsEarly, workers, registry>> /\ \A v \in registry : v.tenant # t
        /\ tiers' = [tiers EXCEPT ![t] = NoTier]
    BY <1>3 DEF UnregisterNothing, Listed
  <2> QED
    BY <1>0, <2>1 DEF TypeOK, TierFollowsWorker
<1>4. ASSUME NEW w \in workers, Unregistered(w)
      PROVE  TierFollowsWorker'
  <2>1. /\ workers' = workers \ {w} /\ registry' = registry \ {w} /\ UNCHANGED forgetsEarly
        /\ tiers' = [tiers EXCEPT ![w.tenant] = NoTier]
    BY <1>4 DEF Unregistered
  <2>2. \A v \in registry' : v.tenant = w.tenant => v.overlapped /\ forgetsEarly
    BY <2>1 DEF Listings
  <2> QED
    BY <1>0, <2>1, <2>2 DEF TypeOK, TierFollowsWorker
<1>5. CASE Crash
  BY <1>5 DEF Crash, TierFollowsWorker
<1>6. CASE Aside
  BY <1>6 DEF Aside, TierFollowsWorker
<1> QED
  BY <1>1, <1>2, <1>3, <1>4, <1>5, <1>6, StepsOfWorkers

WorkersInv == Typed /\ Lifetimes /\ Listings /\ TierFollowsWorker

\* It holds in an empty process.
LEMMA InitWorkers == Init => WorkersInv
<1> SUFFICES ASSUME Init PROVE WorkersInv
  OBVIOUS
<1>1. /\ Removing = {} /\ \A r \in Removals : removals[r].worker = NoWorker
      /\ \A r \in Removals : removals[r].state # "answered"
  BY DEF Init, Removing, NoRequest, Over
<1> QED
  BY <1>1, InitTypes DEF Init, WorkersInv, Lifetimes, Listings, TierFollowsWorker

\* Every step keeps it.
LEMMA NextWorkers == WorkersInv /\ [Next]_vars => WorkersInv'
BY NextTypes, NextLifetimes, NextListings, NextTiers DEF WorkersInv, Typed

\* The list keeps a tier for exactly the tenants it is about.
THEOREM TiersFollowWorkers == Spec => []TierFollowsWorker
<1>1. WorkersInv => TierFollowsWorker
  BY DEF WorkersInv
<1> QED
  BY <1>1, InitWorkers, NextWorkers, PTL DEF Spec

\* An answered removal is over.
THEOREM RemovalsEnd == Spec => []RemovedMeansGone
<1>1. WorkersInv => RemovedMeansGone
  BY DEF WorkersInv, Typed, TypeOK, Lifetimes, RemovedMeansGone
<1> QED
  BY <1>1, InitWorkers, NextWorkers, PTL DEF Spec

-----------------------------------------------------------------------------
(* The page *)

\* No call of the page is still to be answered, and no teardown to end.
Settling == answers = 0 /\ Removing = {}

\* A list that is not known to miss a change misses none.
Current(list) == list.loaded /\ ~ list.behind => list.views = List

\* While an answer is on its way the page will ask again, so that what it has
\* may be anything; once none is, the table -- or, while a query is under way,
\* the answer that will replace it -- is current.
PageInv ==
  Settling => /\ fetch = "idle" => Current(table)
              /\ fetch = "answered" => Current(answered)

\* A success is told to the page, or leaves its lists behind.
LEMMA SucceededKeepsPage ==
  ASSUME TypeOK, NEW page \in BOOLEAN, Succeeded(page)
  PROVE  PageInv'
<1>1. CASE page
  <2>1. answers' = answers + 1
    BY <1>1 DEF Succeeded, Told
  <2> QED
    BY <2>1 DEF TypeOK, PageInv, Settling
<1>2. CASE ~ page
  <2>1. table' = Behind(table) /\ answered' = Behind(answered)
    BY <1>2 DEF Succeeded, Told
  <2> QED
    BY <2>1, BehindFacts DEF TypeOK, PageInv, Current
<1> QED
  BY <1>1, <1>2

\* Steps that concern neither lists, registry, tiers nor teardowns.
LEMMA AsideKeepsPage ==
  ASSUME TypeOK, PageInv,
         UNCHANGED <<registry, tiers, removals, fetch, answered, table>>,
         answers' = answers \/ answers' = answers + 1
  PROVE  PageInv'
<1>1. List' = List /\ Removing' = Removing
  BY DEF List, Removing
<1> QED
  BY <1>1 DEF TypeOK, PageInv, Settling, Current

\* Every step keeps it.
LEMMA NextPage == Typed /\ PageInv /\ [Next]_vars => PageInv'
<1> SUFFICES ASSUME Typed, PageInv, [Next]_vars PROVE PageInv'
  OBVIOUS
<1>0. TypeOK /\ IsFiniteSet(Removing)
  BY DEF Typed
<1>1. ASSUME NEW t \in Tenants, NEW tier \in Tiers, NEW page \in BOOLEAN, Register(t, tier, page)
      PROVE  PageInv'
  BY <1>0, <1>1, SucceededKeepsPage DEF Register
<1>2. ASSUME NEW r \in Removals, NEW t \in Tenants, NEW page \in BOOLEAN, Unregister(r, t, page)
      PROVE  PageInv'
  <2>1. r \in Removing'
    BY <1>0, <1>2, UnregisterStarts, StartsRemoving
  <2> QED
    BY <2>1 DEF PageInv, Settling
<1>3. ASSUME NEW r \in Removals, NEW t \in Tenants, NEW page \in BOOLEAN,
             UnregisterNothing(r, t, page)
      PROVE  PageInv'
  BY <1>0, <1>3, SucceededKeepsPage DEF UnregisterNothing
<1>4. ASSUME NEW w \in workers, Unregistered(w)
      PROVE  PageInv'
  <2> DEFINE waited == {r \in Removals : removals[r].state = "closing" /\ removals[r].worker = w}
             mine == {r \in waited : removals[r].page}
             elsewhere == \E r \in waited : ~ removals[r].page
  <2>1. Told(Cardinality(mine), elsewhere)
    BY <1>4 DEF Unregistered
  <2>2. waited # {}
    BY <1>4 DEF Unregistered, Closed, Closing
  <2>3. CASE elsewhere
    <3> HIDE DEF elsewhere, mine
    <3>1. table' = Behind(table) /\ answered' = Behind(answered)
      BY <2>1, <2>3 DEF Told
    <3> QED
      BY <1>0, <3>1, BehindFacts DEF TypeOK, PageInv, Current
  <2>4. CASE ~ elsewhere
    <3>1. mine # {} /\ mine \subseteq Removing
      BY <2>2, <2>4 DEF Removing
    <3>2. IsFiniteSet(mine)
      BY <1>0, <3>1, FS_Subset
    <3>3. Cardinality(mine) \in Nat /\ Cardinality(mine) # 0
      BY <3>1, <3>2, FS_CardinalityType, FS_EmptySet
    <3> HIDE DEF mine, elsewhere
    <3>4. answers' = answers + Cardinality(mine)
      BY <2>1 DEF Told
    <3> QED
      BY <1>0, <3>3, <3>4 DEF TypeOK, PageInv, Settling
  <2> QED
    BY <2>3, <2>4
<1>5. ASSUME NEW n \in Notes, NEW page \in BOOLEAN, Notify(n, page)
      PROVE  PageInv'
  <2>1. answers' = answers \/ answers' = answers + 1
    BY <1>0, <1>5 DEF TypeOK, Notify
  <2> QED
    BY <1>0, <1>5, <2>1, AsideKeepsPage DEF Notify, process, query
<1>6. ASSUME \/ \E n \in Notes : Deliver(n) \/ Stalled(n)
             \/ \E w \in workers, n \in Notes : Fetch(w, n)
      PROVE  PageInv'
  <2>1. UNCHANGED <<registry, tiers, removals, fetch, answered, table, answers>>
    BY <1>6 DEF Deliver, Stalled, Fetch, process, query
  <2> QED
    BY <1>0, <2>1, AsideKeepsPage
<1>7. CASE Crash
  <2>1. table' = Behind(table) /\ answered' = Behind(answered)
    BY <1>7 DEF Crash
  <2> QED
    BY <1>0, <2>1, BehindFacts DEF TypeOK, PageInv, Current
<1>8. CASE OnSuccess
  <2>1. CASE table.loaded
    <3>1. fetch' = "asked"
      BY <1>8, <2>1 DEF OnSuccess, Drops
    <3> QED
      BY <3>1 DEF PageInv
  <2>2. CASE ~ table.loaded
    <3>1. table' = table /\ answered' = Behind(answered)
      BY <1>8, <2>2 DEF OnSuccess, Drops
    <3> QED
      BY <1>0, <2>2, <3>1, BehindFacts DEF TypeOK, PageInv, Current
  <2> QED
    BY <2>1, <2>2
<1>9. CASE ServeList
  <2>1. fetch' = "answered" /\ answered'.views = List /\ List' = List
    BY <1>9 DEF ServeList, List, process
  <2> QED
    BY <2>1 DEF PageInv, Current
<1>10. CASE ShowList
  <2>1. /\ fetch = "answered" /\ fetch' = "idle" /\ table' = answered
        /\ List' = List /\ Removing' = Removing /\ answers' = answers
    BY <1>10 DEF ShowList, List, Removing, process
  <2> QED
    BY <2>1 DEF PageInv, Settling, Current
<1>11. CASE UNCHANGED vars
  <2>1. UNCHANGED <<registry, tiers, removals, fetch, answered, table, answers>>
    BY <1>11 DEF vars, process, query
  <2> QED
    BY <1>0, <2>1, AsideKeepsPage
<1> QED
  BY <1>1, <1>2, <1>3, <1>4, <1>5, <1>6, <1>7, <1>8, <1>9, <1>10, <1>11 DEF Next

\* A table that has settled is the registry, for any number of tabs' calls,
\* tenants, teardowns and restarts.
THEOREM SettledTables == Spec => []SettledTableIsTheRegistry
<1>1. Init => PageInv
  BY DEF Init, PageInv
<1>2. Typed /\ PageInv => SettledTableIsTheRegistry
  <2> SUFFICES ASSUME PageInv, answers = 0, fetch = "idle",
                      \A r \in Removals : removals[r].state # "closing",
                      table.loaded, ~ table.behind
               PROVE  table.views = List
    BY DEF SettledTableIsTheRegistry
  <2> QED
    BY DEF PageInv, Settling, Removing, Current
<1> QED
  BY <1>1, <1>2, InitTypes, NextTypes, NextPage, PTL DEF Spec

-----------------------------------------------------------------------------
(* The ring buffer *)

\* Until the array is full, push() never moves head.
HeadRests == ~ Full => head = 0

-----------------------------------------------------------------------------
(* Sequences *)

\* Reading a ring of n slots from slot h+1: position i is slot h+i, wrapping.
LEMMA RotatedContents ==
  ASSUME NEW S, NEW s \in Seq(S), NEW h \in 0 .. Len(s)
  PROVE  /\ Rotated(s, h) \in Seq(S)
         /\ Len(Rotated(s, h)) = Len(s)
         /\ \A i \in 1 .. Len(s) :
              Rotated(s, h)[i] = s[IF h + i <= Len(s) THEN h + i ELSE h + i - Len(s)]
<1> DEFINE older == SubSeq(s, h + 1, Len(s))
           newer == SubSeq(s, 1, h)
<1>1. /\ Len(s) \in Nat
      /\ \A i \in 1 .. Len(s) : s[i] \in S
  BY LenProperties, ElementOfSeq
<1>2. /\ older \in Seq(S)
      /\ Len(older) = Len(s) - h
      /\ \A i \in 1 .. Len(s) - h : older[i] = s[h + i]
  <2>1. \A i \in h + 1 .. Len(s) : s[i] \in S
    BY <1>1
  <2>2. /\ SubSeq(s, h + 1, Len(s)) \in Seq(S)
        /\ Len(SubSeq(s, h + 1, Len(s)))
             = IF h + 1 <= Len(s) THEN Len(s) - (h + 1) + 1 ELSE 0
        /\ \A i \in 1 .. Len(s) - (h + 1) + 1 :
             SubSeq(s, h + 1, Len(s))[i] = s[h + 1 + i - 1]
    BY <2>1, <1>1, SubSeqProperties
  <2> QED
    BY <2>2, <1>1
<1>3. /\ newer \in Seq(S)
      /\ Len(newer) = h
      /\ \A i \in 1 .. h : newer[i] = s[i]
  <2>1. \A i \in 1 .. h : s[i] \in S
    BY <1>1
  <2>2. /\ SubSeq(s, 1, h) \in Seq(S)
        /\ Len(SubSeq(s, 1, h)) = IF 1 <= h THEN h - 1 + 1 ELSE 0
        /\ \A i \in 1 .. h - 1 + 1 : SubSeq(s, 1, h)[i] = s[1 + i - 1]
    BY <2>1, <1>1, SubSeqProperties
  <2> QED
    BY <2>2, <1>1
<1> HIDE DEF older, newer
<1>4. /\ older \o newer \in Seq(S)
      /\ Len(older \o newer) = Len(older) + Len(newer)
      /\ \A i \in 1 .. Len(older) + Len(newer) : (older \o newer)[i] =
           IF i <= Len(older) THEN older[i] ELSE newer[i - Len(older)]
  BY <1>2, <1>3, ConcatProperties
<1>5. Rotated(s, h) = older \o newer
  BY DEF Rotated, older, newer
<1> QED
  <2>1. Rotated(s, h) \in Seq(S) /\ Len(Rotated(s, h)) = Len(s)
    <3>1. Len(older) = Len(s) - h /\ Len(newer) = h
      BY <1>2, <1>3
    <3>2. Len(older) + Len(newer) = Len(s)
      BY <3>1, <1>1
    <3>3. older \o newer \in Seq(S) /\ Len(older \o newer) = Len(older) + Len(newer)
      BY <1>4
    <3> QED
      BY <3>2, <3>3, <1>5
  <2>2. ASSUME NEW i \in 1 .. Len(s), h + i <= Len(s)
        PROVE  Rotated(s, h)[i] = s[h + i]
    <3>1. i \in 1 .. Len(s) - h /\ i <= Len(older) /\ i \in 1 .. Len(older) + Len(newer)
      BY <1>1, <1>2, <1>3, <2>2
    <3> QED
      BY <3>1, <1>2, <1>4, <1>5
  <2>3. ASSUME NEW i \in 1 .. Len(s), ~ (h + i <= Len(s))
        PROVE  Rotated(s, h)[i] = s[h + i - Len(s)]
    <3>1. /\ ~ (i <= Len(older)) /\ i \in 1 .. Len(older) + Len(newer)
          /\ i - Len(older) = h + i - Len(s)
          /\ h + i - Len(s) \in 1 .. h
      BY <1>1, <1>2, <1>3, <2>3
    <3> QED
      BY <3>1, <1>3, <1>4, <1>5
  <2> QED
    BY <2>1, <2>2, <2>3

\* The newest window after one more push is the old window, extended and
\* bounded: the step of the abstract log.
LEMMA LastOfAppend ==
  ASSUME NEW S, NEW s \in Seq(S), NEW e \in S
  PROVE  LastOf(Append(s, e), Capacity)
           = Abstract!Bounded(Append(LastOf(s, Capacity), e))
<1> DEFINE w == LastOf(s, Capacity)
           t == Append(s, e)
<1>1. /\ Len(s) \in Nat
      /\ \A i \in 1 .. Len(s) : s[i] \in S
  BY LenProperties, ElementOfSeq
<1>2. /\ t \in Seq(S)
      /\ Len(t) = Len(s) + 1
      /\ \A i \in 1 .. Len(s) : t[i] = s[i]
      /\ t[Len(s) + 1] = e
  BY AppendProperties
<1>3. \A i \in 1 .. Len(t) : t[i] \in S
  BY <1>2, ElementOfSeq
<1>4. CASE Len(s) < Capacity
  <2>1. w = s /\ Len(t) <= Capacity
    BY <1>4, <1>1, <1>2, CapacityAssumption DEF LastOf
  <2> QED
    BY <2>1, <1>1, <1>2, CapacityAssumption DEF LastOf, Abstract!Bounded
<1>5. CASE Len(s) = Capacity
  <2>1. w = s /\ Len(t) > Capacity
    BY <1>5, <1>1, <1>2, CapacityAssumption DEF LastOf
  <2>2. LastOf(t, Capacity) = SubSeq(t, 2, Len(t))
    BY <2>1, <1>5, <1>1, <1>2, CapacityAssumption DEF LastOf
  <2>3. t # <<>> /\ Tail(t) = SubSeq(t, 2, Len(t))
    BY <1>2, AppendProperties, TailIsSubSeq
  <2> QED
    BY <2>1, <2>2, <2>3, <1>2, CapacityAssumption DEF Abstract!Bounded
<1>6. CASE Len(s) > Capacity
  <2> DEFINE a == Len(s) - Capacity + 1    \* where the old window starts
             b == Len(t)
  <2>1. /\ a \in 1 .. Len(s) /\ a \in 1 .. b /\ b \in a .. b /\ a \in Int
        /\ b - 1 = Len(s) /\ Len(s) \in 1 .. Len(s) /\ b - a = Capacity /\ b \in Int
    BY <1>6, <1>1, <1>2, CapacityAssumption
  <2>2. w = SubSeq(s, a, b - 1) /\ LastOf(t, Capacity) = SubSeq(t, a + 1, b)
    <3>1. ~ (Len(s) <= Capacity) /\ ~ (Len(t) <= Capacity)
      BY <1>6, <1>1, <1>2, CapacityAssumption
    <3>2. Len(t) - Capacity + 1 = a + 1
      BY <1>1, <1>2, CapacityAssumption
    <3> QED
      BY <3>1, <3>2, <2>1 DEF LastOf
  <2> HIDE DEF w, t, a, b
  <2>3. w = SubSeq(t, a, b - 1)
    <3>1. t = s \o <<e>> /\ <<e>> \in Seq(S)
      BY AppendIsConcat DEF t
    <3>2. SubSeq(s \o <<e>>, a, Len(s)) = SubSeq(s, a, Len(s))
      BY <3>1, <2>1, SubSeqOfConcat1
    <3> QED
      BY <3>1, <3>2, <2>1, <2>2
  <2>4. Append(w, e) = SubSeq(t, a, b)
    <3>1. SubSeq(t, a, b) = SubSeq(t, a, b - 1) \o << t[b] >>
      BY <1>2, <2>1, SubSeqRecursiveSecond DEF b
    <3>2. t[b] = e
      BY <1>2 DEF b
    <3>3. w \in Seq(S)
      <4>1. \A i \in a .. b - 1 : s[i] \in S
        BY <1>1, <2>1
      <4>2. b - 1 \in Int
        BY <2>1
      <4> QED
        BY <4>1, <4>2, <2>1, <2>2, SubSeqProperties
    <3>4. Append(w, e) = w \o <<e>>
      BY <3>3, AppendIsConcat
    <3> QED
      BY <3>1, <3>2, <3>4, <2>3
  <2>5. Tail(SubSeq(t, a, b)) = SubSeq(t, a + 1, b)
    BY <1>2, <2>1, HeadTailOfSubSeq DEF b
  <2>6. Len(SubSeq(t, a, b)) > Capacity
    <3>1. \A i \in a .. b : t[i] \in S
      BY <1>3, <2>1 DEF b
    <3>2. Len(SubSeq(t, a, b)) = IF a <= b THEN b - a + 1 ELSE 0
      BY <3>1, <2>1, SubSeqProperties
    <3> QED
      BY <3>2, <2>1, CapacityAssumption
  <2> QED
    BY <2>2, <2>4, <2>5, <2>6 DEF Abstract!Bounded, w, t
<1> QED
  BY <1>4, <1>5, <1>6, <1>1, CapacityAssumption

\* Reading from slot 0 is reading the array as it is.
LEMMA RotatedFromStart ==
  ASSUME NEW S, NEW s \in Seq(S)
  PROVE  Rotated(s, 0) = s
<1>1. SubSeq(s, 0 + 1, Len(s)) = s
  BY SubSeqFull
<1>2. SubSeq(s, 1, 0) = <<>>
  BY SubSeqEmpty
<1> QED
  BY <1>1, <1>2, ConcatEmptySeq DEF Rotated

\* What appending one entry to a sequence gives, in one fact.
LEMMA AppendFacts ==
  ASSUME NEW S, NEW s \in Seq(S), NEW e \in S
  PROVE  /\ Append(s, e) \in Seq(S)
         /\ Append(s, e) # <<>>
         /\ Len(Append(s, e)) = Len(s) + 1
         /\ \A i \in 1 .. Len(s) : Append(s, e)[i] = s[i]
         /\ Append(s, e)[Len(s) + 1] = e
BY AppendProperties

\* Overwriting the oldest slot and advancing the reading position by one,
\* around the ring, drops the oldest entry and appends the new one.
LEMMA OverwriteRotates ==
  ASSUME NEW S, NEW s \in Seq(S), Len(s) = Capacity, NEW e \in S,
         NEW h \in 0 .. Capacity - 1, NEW g \in 0 .. Capacity - 1,
         g = IF h + 1 = Capacity THEN 0 ELSE h + 1
  PROVE  Rotated([s EXCEPT ![h + 1] = e], g) = Tail(Append(Rotated(s, h), e))
<1> DEFINE n == Capacity
           r == Rotated(s, h)
           s2 == [s EXCEPT ![h + 1] = e]
           r2 == Rotated(s2, g)
           q == Append(r, e)
           tl == Tail(q)
<1>0. n \in Nat \ {0} /\ h + 1 \in 1 .. n /\ h \in 0 .. n /\ g \in 0 .. n
  BY CapacityAssumption
<1>1. /\ r \in Seq(S)
      /\ Len(r) = n
      /\ \A i \in 1 .. n : r[i] = s[IF h + i <= n THEN h + i ELSE h + i - n]
  BY <1>0, RotatedContents
<1>2. /\ s2 \in Seq(S)
      /\ Len(s2) = n
      /\ \A j \in 1 .. n : s2[j] = IF j = h + 1 THEN e ELSE s[j]
  BY <1>0, ExceptSeq
<1> HIDE DEF s2, r
<1>3. /\ r2 \in Seq(S)
      /\ Len(r2) = n
      /\ \A i \in 1 .. n : r2[i] = s2[IF g + i <= n THEN g + i ELSE g + i - n]
  <2>1. g \in 0 .. Len(s2) /\ s2 \in Seq(S) /\ Len(s2) = n
    BY <1>0, <1>2
  <2>2. /\ Rotated(s2, g) \in Seq(S)
        /\ Len(Rotated(s2, g)) = Len(s2)
        /\ \A i \in 1 .. Len(s2) : Rotated(s2, g)[i] =
             s2[IF g + i <= Len(s2) THEN g + i ELSE g + i - Len(s2)]
    BY <2>1, RotatedContents
  <2> QED
    BY <2>1, <2>2
<1> HIDE DEF r2
<1>4. /\ q \in Seq(S) /\ q # <<>> /\ Len(q) = n + 1
      /\ \A i \in 1 .. n : q[i] = r[i]
      /\ q[n + 1] = e
  <2>1. r \in Seq(S)
    BY <1>1
  <2>2. /\ Append(r, e) \in Seq(S)
        /\ Append(r, e) # <<>>
        /\ Len(Append(r, e)) = Len(r) + 1
        /\ \A i \in 1 .. Len(r) : Append(r, e)[i] = r[i]
        /\ Append(r, e)[Len(r) + 1] = e
    BY <2>1, AppendFacts
  <2>3. Len(r) = n
    BY <1>1
  <2> QED
    BY <2>2, <2>3
<1> HIDE DEF q
<1>5. /\ tl \in Seq(S)
      /\ Len(tl) = n
      /\ \A i \in 1 .. n : tl[i] = q[i + 1]
  <2>1. /\ tl \in Seq(S)
        /\ Len(tl) = Len(q) - 1
        /\ \A i \in 1 .. Len(tl) : tl[i] = q[i + 1]
    BY <1>4, HeadTailProperties
  <2>2. Len(tl) = n
    BY <2>1, <1>4, <1>0
  <2> QED
    BY <2>1, <2>2
<1> HIDE DEF tl
<1>6. ASSUME NEW i \in 1 .. n
      PROVE  r2[i] = tl[i]
  <2>1. CASE i = n
    <3>1. tl[i] = e
      BY <2>1, <1>4, <1>5
    <3>2. (IF g + i <= n THEN g + i ELSE g + i - n) = h + 1
      BY <2>1, <1>0
    <3>3. r2[i] = s2[h + 1]
      BY <1>3, <3>2
    <3> QED
      BY <3>1, <3>3, <1>2, <1>0
  <2>2. CASE i < n
    <3> DEFINE j == IF h + (i + 1) <= n THEN h + (i + 1) ELSE h + (i + 1) - n
    <3>1. i + 1 \in 1 .. n /\ j \in 1 .. n /\ j # h + 1
      BY <2>2, <1>0
    <3>2. (IF g + i <= n THEN g + i ELSE g + i - n) = j
      BY <2>2, <1>0
    <3> HIDE DEF j
    <3>3. r2[i] = s[j]
      BY <3>1, <3>2, <1>2, <1>3
    <3>4. tl[i] = q[i + 1] /\ q[i + 1] = r[i + 1]
      BY <3>1, <1>4, <1>5
    <3>5. r[i + 1] = s[j]
      BY <3>1, <1>1 DEF j
    <3> QED
      BY <3>3, <3>4, <3>5
  <2> QED
    BY <2>1, <2>2, <1>0
<1>7. r2 = tl
  BY <1>3, <1>5, <1>6, SeqEqual
<1> QED
  BY <1>7 DEF r2, s2, tl, q, r

-----------------------------------------------------------------------------
(* The inductive invariant *)

RingInv == RingTypeOK /\ HeadRests /\ SnapshotIsNewestWindow

\* One push() is one Record of the abstract log, through snapshot().
LEMMA PushIsRecord ==
  ASSUME RingTypeOK, HeadRests, NEW e \in Entry, Grow(e) \/ Overwrite(e)
  PROVE  Snapshot' = Abstract!Bounded(Append(Snapshot, e))
<1> USE CapacityAssumption
<1>1. Len(items) \in Nat
  BY LenProperties DEF RingTypeOK
<1>2. CASE Grow(e)
  <2>1. /\ Snapshot = items /\ head = 0 /\ head' = 0
        /\ items' = Append(items, e) /\ Len(items) < Capacity
    BY <1>2 DEF Grow, Full, Snapshot, HeadRests
  <2>2. Append(items, e) \in Seq(Entry) /\ Len(Append(items, e)) = Len(items) + 1
    BY AppendProperties DEF RingTypeOK
  <2>3. Abstract!Bounded(Append(Snapshot, e)) = items'
    BY <2>1, <2>2, <1>1 DEF Abstract!Bounded
  <2>4. Rotated(items', head') = items'
    BY <2>1, <2>2, RotatedFromStart
  <2> QED
    BY <2>3, <2>4 DEF Snapshot
<1>3. CASE Overwrite(e)
  <2>1. /\ Full /\ Len(items) = Capacity /\ items \in Seq(Entry)
        /\ head \in 0 .. Capacity - 1
        /\ items' = [items EXCEPT ![head + 1] = e]
        /\ head' = (head + 1) % Capacity
    BY <1>3, <1>1 DEF Overwrite, Full, RingTypeOK
  <2>2. head' = IF head + 1 = Capacity THEN 0 ELSE head + 1
    BY <2>1
  <2>3. head' \in 0 .. Capacity - 1
    BY <2>1, <2>2
  <2>4. Rotated(items', head') = Tail(Append(Rotated(items, head), e))
    <3>1. \A s \in Seq(Entry) : Len(s) = Capacity =>
            \A h, g \in 0 .. Capacity - 1 :
              g = (IF h + 1 = Capacity THEN 0 ELSE h + 1) =>
                Rotated([s EXCEPT ![h + 1] = e], g) = Tail(Append(Rotated(s, h), e))
      BY OverwriteRotates
    <3>2. Rotated([items EXCEPT ![head + 1] = e], head') =
            Tail(Append(Rotated(items, head), e))
      <4>1. /\ items \in Seq(Entry) /\ Len(items) = Capacity
            /\ head \in 0 .. Capacity - 1 /\ head' \in 0 .. Capacity - 1
            /\ head' = IF head + 1 = Capacity THEN 0 ELSE head + 1
        BY <2>1, <2>2, <2>3
      <4> QED
        BY <4>1, <3>1, Zenon
    <3> QED
      BY <2>1, <3>2
  <2>5. /\ Rotated(items, head) \in Seq(Entry)
        /\ Len(Rotated(items, head)) = Capacity
    <3>1. head \in 0 .. Len(items)
      BY <2>1
    <3> QED
      BY <2>1, <3>1, RotatedContents
  <2>6. Len(Append(Rotated(items, head), e)) > Capacity
    <3>1. Len(Append(Rotated(items, head), e)) = Capacity + 1
      BY <2>5, AppendProperties
    <3> QED
      BY <3>1
  <2>7. Len(items') = Capacity
    <3>1. head + 1 \in 1 .. Len(items)
      BY <2>1
    <3> QED
      BY <2>1, <3>1, ExceptSeq
  <2>8. Snapshot = Rotated(items, head) /\ Snapshot' = Rotated(items', head')
    BY <2>1, <2>7 DEF Snapshot, Full
  <2> QED
    BY <2>4, <2>6, <2>8 DEF Abstract!Bounded
<1> QED
  BY <1>2, <1>3

LEMMA InitRing == RingInit => RingInv
<1> SUFFICES ASSUME RingInit PROVE RingInv
  OBVIOUS
<1>1. items = <<>> /\ head = 0 /\ pushed = <<>> /\ Len(items) = 0
  BY EmptySeq DEF RingInit
<1>2. RingTypeOK /\ HeadRests
  BY <1>1, CapacityAssumption, EmptySeq DEF RingTypeOK, HeadRests
<1>3. Snapshot = <<>>
  BY <1>1, CapacityAssumption DEF Snapshot, Full
<1>4. LastOf(pushed, Capacity) = <<>>
  BY <1>1, CapacityAssumption DEF LastOf
<1> QED
  BY <1>2, <1>3, <1>4 DEF RingInv, SnapshotIsNewestWindow

LEMMA NextRing == RingInv /\ [RingNext]_ring => RingInv'
<1> SUFFICES ASSUME RingInv, [RingNext]_ring PROVE RingInv'
  OBVIOUS
<1> USE CapacityAssumption
<1>1. CASE UNCHANGED ring
  BY <1>1 DEF RingInv, RingTypeOK, HeadRests, SnapshotIsNewestWindow, Snapshot, Full, ring
<1>2. ASSUME NEW e \in Entry, Push(e)
      PROVE  RingInv'
  <2>1. /\ Len(items) \in Nat
        /\ pushed' = Append(pushed, e) /\ pushed' \in Seq(Entry)
    BY <1>2, LenProperties, AppendProperties DEF RingInv, RingTypeOK, Push
  <2>2. RingTypeOK' /\ HeadRests'
    <3>1. CASE Grow(e)
      <4>1. /\ items' = Append(items, e) /\ head' = head /\ head = 0
            /\ Len(items) < Capacity
        BY <3>1 DEF Grow, Full, RingInv, HeadRests
      <4>2. items' \in Seq(Entry) /\ Len(items') = Len(items) + 1
        BY <4>1, AppendProperties DEF RingInv, RingTypeOK
      <4> QED
        BY <4>1, <4>2, <2>1 DEF RingTypeOK, HeadRests
    <3>2. CASE Overwrite(e)
      <4>1. /\ Len(items) = Capacity /\ items \in Seq(Entry)
            /\ head \in 0 .. Capacity - 1
            /\ items' = [items EXCEPT ![head + 1] = e]
            /\ head' = (head + 1) % Capacity
        BY <3>2, <2>1 DEF Overwrite, Full, RingInv, RingTypeOK
      <4>2. head' \in 0 .. Capacity - 1
        BY <4>1
      <4>3. items' \in Seq(Entry) /\ Len(items') = Capacity
        <5>1. head + 1 \in 1 .. Len(items)
          BY <4>1
        <5> QED
          BY <4>1, <5>1, ExceptSeq
      <4> QED
        BY <4>2, <4>3, <2>1 DEF RingTypeOK, HeadRests, Full
    <3> QED
      BY <3>1, <3>2, <1>2 DEF Push
  <2>3. Snapshot' = Abstract!Bounded(Append(Snapshot, e))
    BY <1>2, PushIsRecord DEF RingInv, Push
  <2>4. LastOf(pushed', Capacity) = Abstract!Bounded(Append(LastOf(pushed, Capacity), e))
    BY <2>1, LastOfAppend DEF RingInv, RingTypeOK
  <2> QED
    BY <2>2, <2>3, <2>4 DEF RingInv, SnapshotIsNewestWindow
<1> QED
  BY <1>1, <1>2 DEF RingNext

LEMMA RingInvariance == RingSpec => []RingInv
BY InitRing, NextRing, PTL DEF RingSpec

-----------------------------------------------------------------------------
(* Results *)

\* The backing array never outgrows the capacity and head always points into
\* the ring, whatever is pushed.
THEOREM RingTypes == RingSpec => []RingTypeOK
<1>1. RingInv => RingTypeOK
  BY DEF RingInv
<1> QED
  BY <1>1, RingInvariance, PTL

\* snapshot() is the newest window of the pushed entries in push order, for
\* every capacity and after any number of wraps.
THEOREM SnapshotCorrect == RingSpec => []SnapshotIsNewestWindow
<1>1. RingInv => SnapshotIsNewestWindow
  BY DEF RingInv
<1> QED
  BY <1>1, RingInvariance, PTL

\* The ring buffer implements the push-and-shift log: each push() is one
\* Record step of BoundedLog under the mapping entries <- Snapshot.
THEOREM Refinement == RingSpec => RefinesBoundedLog
<1>1. RingInit => Abstract!Init
  BY EmptySeq, CapacityAssumption DEF RingInit, Abstract!Init, Snapshot, Full
<1>2. RingInv /\ [RingNext]_ring => [Abstract!Next]_Snapshot
  <2> SUFFICES ASSUME RingInv, [RingNext]_ring PROVE [Abstract!Next]_Snapshot
    OBVIOUS
  <2>1. CASE UNCHANGED ring
    BY <2>1 DEF ring, Snapshot, Full
  <2>2. ASSUME NEW e \in Entry, Push(e)
        PROVE  Abstract!Next
    <3>1. Snapshot' = Abstract!Bounded(Append(Snapshot, e))
      BY <2>2, PushIsRecord DEF RingInv, Push
    <3> QED
      BY <3>1 DEF Abstract!Next, Abstract!Record
  <2> QED
    BY <2>1, <2>2 DEF RingNext
<1> QED
  BY <1>1, <1>2, RingInvariance, PTL DEF RingSpec, RefinesBoundedLog, Abstract!Spec

\* TenantDeliveries constructs its ring buffer with MAX_DELIVERIES: whoever reads
\* GET /workers/deliveries sees a delivery that the model of the workers records,
\* by a push and a shift, as one push() of the ring buffer.
THEOREM RecordIsPush ==
  ASSUME Capacity = TrailCapacity, RingInv, NEW n \in Entry, Grow(n) \/ Overwrite(n),
         trail = Snapshot, Record(n)
  PROVE  trail' = Snapshot'
<1>1. Snapshot' = Abstract!Bounded(Append(Snapshot, n))
  BY PushIsRecord DEF RingInv
<1> QED
  BY <1>1 DEF Record, Abstract!Bounded

=============================================================================
