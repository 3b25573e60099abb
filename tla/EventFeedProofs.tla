--------------------------- MODULE EventFeedProofs ---------------------------
(***************************************************************************)
(* The event feed for any capacities, any number of events, lost           *)
(* connections and restarts.                                               *)
(*                                                                         *)
(* Everything rests on the push numbers: the buffer, what is on the wire   *)
(* and what the page received over this connection are each a run of       *)
(* consecutive numbers that ends at the latest push (the page's where the  *)
(* wire's begins), and a number names one entry wherever it is found.      *)
(***************************************************************************)
EXTENDS EventFeed, SequenceTheorems, FiniteSetTheorems, TLAPS

USE BoundsAssumption

-----------------------------------------------------------------------------
(* The invariant *)

\* Every entry pushed or awaited has a stamp of its own, given by now.
Counted ==
  /\ awaiting \subseteq 1 .. clock
  /\ IsFiniteSet(awaiting)
  /\ Cardinality(awaiting) + pushes <= clock

\* The buffer holds the latest pushes.
Buffered ==
  \A i \in 1 .. Len(buffer) :
    buffer[i].n = pushes - Len(buffer) + i /\ buffer[i].at <= clock

\* Only an open page has a connection, and something on it.
Linked ==
  /\ subscribed <=> page = "open"
  /\ page # "open" => wire = <<>> /\ received = 0

\* What one connection delivers ends at the latest push and covers the replay.
Joined ==
  page = "open" =>
    /\ \A i \in 1 .. Len(wire) : wire[i].n = pushes - Len(wire) + i
    /\ \A i \in 1 .. Len(entries) : i <= received => entries[i].n = pushes - Len(wire) + 1 - i
    /\ Len(entries) >= SmallerOf(received, ListCapacity)
    /\ received + Len(wire) >= SmallerOf(ReplayCount, Len(buffer))

\* A push number names one entry.
Known == Range(buffer) \cup Range(wire) \cup Range(entries)
Named ==
  /\ \A x \in Known : x.n <= pushes
  /\ \A x, y \in Known : x.n = y.n => x = y

Inv == /\ TypeOK /\ Counted
       /\ Buffered /\ OnlyGlobalEntriesAreLate
       /\ Linked /\ Joined /\ Named

-----------------------------------------------------------------------------
(* Sequences of entries *)

LEMMA Types ==
  ASSUME TypeOK
  PROVE  /\ buffer \in Seq(Entry) /\ Len(buffer) \in Nat /\ DOMAIN buffer = 1 .. Len(buffer)
         /\ wire \in Seq(Entry) /\ Len(wire) \in Nat /\ DOMAIN wire = 1 .. Len(wire)
         /\ entries \in Seq(Entry) /\ Len(entries) \in Nat /\ DOMAIN entries = 1 .. Len(entries)
         /\ clock \in Nat /\ pushes \in Nat /\ received \in Nat
         /\ BufferCapacity \in Nat \ {0} /\ ReplayCount \in Nat \ {0} /\ ListCapacity \in Nat \ {0}
BY DEF TypeOK

LEMMA EntryFields ==
  ASSUME NEW e \in Entry
  PROVE  e.n \in 1 .. MaxEvents /\ e.n \in Nat /\ e.at \in 1 .. MaxEvents /\ e.at \in Nat
BY DEF Entry

\* A push appends, and drops the oldest when the buffer is full.
LEMMA Pushed ==
  ASSUME TypeOK, NEW e \in Entry, buffer' = Trimmed(Append(buffer, e))
  PROVE  \E d \in {0, 1} :
           /\ buffer' \in Seq(Entry) /\ Len(buffer') = Len(buffer) + 1 - d
           /\ Len(buffer') \in 1 .. BufferCapacity
           /\ buffer'[Len(buffer')] = e
           /\ \A i \in 1 .. Len(buffer') - 1 : i + d \in 1 .. Len(buffer) /\ buffer'[i] = buffer[i + d]
<1> DEFINE grown == Append(buffer, e)
<1>1. /\ buffer \in Seq(Entry) /\ Len(buffer) \in Nat /\ Len(buffer) <= BufferCapacity
      /\ BufferCapacity \in Nat \ {0}
  BY DEF TypeOK
<1>2. /\ grown \in Seq(Entry) /\ grown # <<>> /\ Len(grown) = Len(buffer) + 1
      /\ \A i \in 1 .. Len(buffer) : grown[i] = buffer[i]
      /\ grown[Len(buffer) + 1] = e
  BY <1>1, AppendProperties
<1> HIDE DEF grown
<1>3. CASE Len(grown) > BufferCapacity
  <2>1. buffer' = Tail(grown)
    BY <1>3 DEF Trimmed, grown
  <2>2. /\ Tail(grown) \in Seq(Entry) /\ Len(Tail(grown)) = Len(grown) - 1
        /\ \A i \in 1 .. Len(Tail(grown)) : Tail(grown)[i] = grown[i + 1]
    BY <1>2, HeadTailProperties
  <2>3. buffer' \in Seq(Entry) /\ Len(buffer') = Len(buffer) /\ Len(buffer') \in 1 .. BufferCapacity
    BY <1>1, <1>2, <1>3, <2>1, <2>2
  <2>4. \A i \in 1 .. Len(buffer) : buffer'[i] = grown[i + 1]
    BY <1>2, <2>1, <2>2, <2>3
  <2>5. buffer'[Len(buffer')] = e
    BY <1>1, <1>2, <2>3, <2>4
  <2>6. ASSUME NEW i \in 1 .. Len(buffer') - 1
        PROVE  i + 1 \in 1 .. Len(buffer) /\ buffer'[i] = buffer[i + 1]
    <3>1. i \in 1 .. Len(buffer) /\ i + 1 \in 1 .. Len(buffer)
      BY <1>1, <2>3
    <3> QED
      BY <1>2, <2>4, <3>1
  <2> QED
    BY <1>1, <2>3, <2>5, <2>6
<1>4. CASE Len(grown) <= BufferCapacity
  <2>1. buffer' = grown
    BY <1>1, <1>2, <1>4 DEF Trimmed, grown
  <2>2. buffer' \in Seq(Entry) /\ Len(buffer') = Len(buffer) + 1 /\ Len(buffer') \in 1 .. BufferCapacity
    BY <1>1, <1>2, <1>4, <2>1
  <2>3. buffer'[Len(buffer')] = e
    BY <1>2, <2>1, <2>2
  <2>4. ASSUME NEW i \in 1 .. Len(buffer') - 1
        PROVE  i + 0 \in 1 .. Len(buffer) /\ buffer'[i] = buffer[i + 0]
    <3>1. i \in 1 .. Len(buffer) /\ i + 0 = i
      BY <1>1, <2>2
    <3> QED
      BY <1>2, <2>1, <3>1
  <2> QED
    BY <1>1, <2>2, <2>3, <2>4
<1> QED
  BY <1>1, <1>2, <1>3, <1>4

\* recent(): the end of the buffer.
LEMMA RecentIsEnd ==
  ASSUME TypeOK
  PROVE  /\ Recent(ReplayCount) \in Seq(Entry)
         /\ Len(Recent(ReplayCount)) = SmallerOf(ReplayCount, Len(buffer))
         /\ \A i \in 1 .. Len(Recent(ReplayCount)) :
              /\ Len(buffer) - Len(Recent(ReplayCount)) + i \in 1 .. Len(buffer)
              /\ Recent(ReplayCount)[i] = buffer[Len(buffer) - Len(Recent(ReplayCount)) + i]
<1>1. buffer \in Seq(Entry) /\ Len(buffer) \in Nat /\ ReplayCount \in Nat \ {0}
  BY Types
<1> DEFINE first == IF Len(buffer) > ReplayCount THEN Len(buffer) - ReplayCount + 1 ELSE 1
<1>a. first \in Nat
  BY <1>1
<1>b. Recent(ReplayCount) = SubSeq(buffer, first, Len(buffer))
  BY DEF Recent
<1>2. PICK m \in Nat : m = first /\ Recent(ReplayCount) = SubSeq(buffer, m, Len(buffer))
  BY <1>a, <1>b
<1>3. m \in Int /\ m >= 1 /\ \A i \in m .. Len(buffer) : buffer[i] \in Entry
  BY <1>1, <1>2
<1>4. /\ SubSeq(buffer, m, Len(buffer)) \in Seq(Entry)
      /\ Len(SubSeq(buffer, m, Len(buffer))) = IF m <= Len(buffer) THEN Len(buffer) - m + 1 ELSE 0
      /\ \A i \in 1 .. Len(buffer) - m + 1 : SubSeq(buffer, m, Len(buffer))[i] = buffer[m + i - 1]
  BY <1>1, <1>3, SubSeqProperties
<1>5. PICK k \in Nat : k = Len(Recent(ReplayCount)) /\ k = Len(buffer) - m + 1
  <2>1. m <= Len(buffer) + 1
    BY <1>1, <1>2
  <2>2. Len(SubSeq(buffer, m, Len(buffer))) = Len(buffer) - m + 1 /\ Len(buffer) - m + 1 \in Nat
    BY <1>1, <1>4, <2>1
  <2> QED
    BY <1>2, <2>2
<1>6. k = SmallerOf(ReplayCount, Len(buffer))
  <2>1. CASE Len(buffer) > ReplayCount
    <3>1. k = ReplayCount
      BY <1>1, <1>2, <1>5, <2>1
    <3> QED
      BY <1>1, <2>1, <3>1 DEF SmallerOf
  <2>2. CASE ~ (Len(buffer) > ReplayCount)
    <3>1. k = Len(buffer)
      BY <1>1, <1>2, <1>5, <2>2
    <3> QED
      BY <1>1, <2>2, <3>1 DEF SmallerOf
  <2> QED
    BY <2>1, <2>2
<1>7. ASSUME NEW i \in 1 .. k
      PROVE  /\ Len(buffer) - k + i \in 1 .. Len(buffer)
             /\ Recent(ReplayCount)[i] = buffer[Len(buffer) - k + i]
  <2>1. i \in 1 .. Len(buffer) - m + 1 /\ m + i - 1 = Len(buffer) - k + i
    BY <1>1, <1>5
  <2>2. Len(buffer) - k + i \in 1 .. Len(buffer)
    BY <1>1, <1>3, <1>5
  <2>3. Recent(ReplayCount)[i] = buffer[m + i - 1]
    BY <1>2, <1>4, <2>1
  <2> QED
    BY <2>1, <2>2, <2>3
<1> QED
  BY <1>2, <1>4, <1>5, <1>6, <1>7

\* handleMessage(): the received entry on top, the list no longer than its bound.
LEMMA Prepended ==
  ASSUME TypeOK, wire # <<>>,
         entries' = LET grown == <<Head(wire)>> \o entries
                    IN  SubSeq(grown, 1, IF Len(grown) > ListCapacity
                                         THEN ListCapacity ELSE Len(grown))
  PROVE  /\ entries' \in Seq(Entry)
         /\ Len(entries') = SmallerOf(Len(entries) + 1, ListCapacity)
         /\ entries'[1] = wire[1]
         /\ \A i \in 2 .. Len(entries') : i - 1 \in 1 .. Len(entries) /\ entries'[i] = entries[i - 1]
<1> DEFINE grown == <<Head(wire)>> \o entries
<1> DEFINE m == IF Len(grown) > ListCapacity THEN ListCapacity ELSE Len(grown)
<1>1. /\ entries \in Seq(Entry) /\ Len(entries) \in Nat /\ ListCapacity \in Nat \ {0}
      /\ wire \in Seq(Entry)
  BY Types
<1>2. Head(wire) = wire[1] /\ Head(wire) \in Entry
  BY <1>1, HeadTailProperties
<1>3. /\ <<Head(wire)>> \in Seq(Entry) /\ Len(<<Head(wire)>>) = 1 /\ <<Head(wire)>>[1] = Head(wire)
  BY <1>2
<1>4. /\ grown \in Seq(Entry) /\ Len(grown) = 1 + Len(entries)
      /\ \A i \in 1 .. 1 + Len(entries) : grown[i] = IF i <= 1 THEN <<Head(wire)>>[i] ELSE entries[i - 1]
  BY <1>1, <1>3, ConcatProperties
<1>5. entries' = SubSeq(grown, 1, m)
  OBVIOUS
<1>6. m \in Nat /\ m >= 1 /\ m <= Len(grown) /\ m = SmallerOf(Len(entries) + 1, ListCapacity)
  BY <1>1, <1>4 DEF SmallerOf
<1> HIDE DEF grown, m
<1>7. \A i \in 1 .. m : grown[i] \in Entry
  BY <1>4, <1>6
<1>8. /\ SubSeq(grown, 1, m) \in Seq(Entry) /\ Len(SubSeq(grown, 1, m)) = m
      /\ \A i \in 1 .. m - 1 + 1 : SubSeq(grown, 1, m)[i] = grown[1 + i - 1]
  BY <1>6, <1>7, SubSeqProperties
<1>9. ASSUME NEW i \in 1 .. m
      PROVE  entries'[i] = IF i <= 1 THEN Head(wire) ELSE entries[i - 1]
  <2>1. i \in 1 .. m - 1 + 1 /\ 1 + i - 1 = i /\ i \in 1 .. 1 + Len(entries)
    BY <1>1, <1>4, <1>6
  <2>2. entries'[i] = grown[i]
    BY <1>5, <1>8, <2>1
  <2>3. i <= 1 => i = 1
    OBVIOUS
  <2> QED
    BY <1>3, <1>4, <2>1, <2>2, <2>3
<1>10. entries'[1] = wire[1]
  BY <1>2, <1>6, <1>9
<1>11. ASSUME NEW i \in 2 .. m
       PROVE  i - 1 \in 1 .. Len(entries) /\ entries'[i] = entries[i - 1]
  <2>1. i \in 1 .. m /\ ~ (i <= 1) /\ i - 1 \in 1 .. Len(entries)
    BY <1>1, <1>4, <1>6
  <2> QED
    BY <1>9, <2>1
<1> QED
  BY <1>5, <1>6, <1>8, <1>10, <1>11

-----------------------------------------------------------------------------
(* A push *)

\* A new entry with its stamp, and nothing else of the browser's.
Stamped(e) ==
  /\ Push(e) /\ e.n = pushes + 1
  /\ e.at <= clock' /\ clock <= clock' /\ clock' \in 0 .. MaxEvents
  /\ e.source = "completed" \/ e.at > clock
  /\ awaiting' \subseteq 1 .. clock' /\ IsFiniteSet(awaiting')
  /\ Cardinality(awaiting') + pushes + 1 <= clock'
  /\ subscribed' = subscribed /\ page' = page /\ entries' = entries /\ received' = received
  /\ drops' = drops /\ restarts' = restarts

LEMMA PushKeeps ==
  ASSUME Inv, NEW e \in Entry, Stamped(e)
  PROVE  Inv'
<1>1. /\ buffer \in Seq(Entry) /\ Len(buffer) \in Nat /\ DOMAIN buffer = 1 .. Len(buffer)
      /\ wire \in Seq(Entry) /\ Len(wire) \in Nat /\ DOMAIN wire = 1 .. Len(wire)
      /\ entries \in Seq(Entry) /\ Len(entries) \in Nat /\ DOMAIN entries = 1 .. Len(entries)
      /\ clock \in Nat /\ pushes \in Nat /\ received \in Nat /\ clock' \in Nat
      /\ BufferCapacity \in Nat \ {0} /\ ReplayCount \in Nat \ {0} /\ ListCapacity \in Nat \ {0}
  BY Types DEF Inv, Stamped
<1>2. /\ pushes' = pushes + 1 /\ page' = page /\ entries' = entries /\ received' = received
      /\ subscribed' = subscribed /\ drops' = drops /\ restarts' = restarts
  BY DEF Stamped, Push
<1>3. buffer' = Trimmed(Append(buffer, e)) /\ wire' = IF subscribed THEN Append(wire, e) ELSE wire
  BY DEF Stamped, Push
<1>4. PICK d \in {0, 1} :
        /\ buffer' \in Seq(Entry) /\ Len(buffer') = Len(buffer) + 1 - d
        /\ Len(buffer') \in 1 .. BufferCapacity
        /\ buffer'[Len(buffer')] = e
        /\ \A i \in 1 .. Len(buffer') - 1 : i + d \in 1 .. Len(buffer) /\ buffer'[i] = buffer[i + d]
  BY <1>3, Pushed DEF Inv
<1>5. /\ Append(wire, e) \in Seq(Entry) /\ Len(Append(wire, e)) = Len(wire) + 1
      /\ \A i \in 1 .. Len(wire) : Append(wire, e)[i] = wire[i]
      /\ Append(wire, e)[Len(wire) + 1] = e
  BY <1>1, AppendProperties
<1>6. TypeOK'
  <2>1. buffer' \in Seq(Entry) /\ Len(buffer') <= BufferCapacity /\ wire' \in Seq(Entry)
    BY <1>1, <1>3, <1>4, <1>5
  <2>2. awaiting' \subseteq 1 .. MaxEvents /\ clock' \in 0 .. MaxEvents
    BY <1>1 DEF Stamped
  <2>3. pushes' \in 0 .. MaxEvents
    <3>1. e.n \in 1 .. MaxEvents
      BY EntryFields
    <3> QED
      BY <1>1, <1>2, <3>1 DEF Stamped
  <2>4. /\ subscribed' \in BOOLEAN /\ page' \in {"away", "connecting", "open", "error"}
        /\ entries' \in Seq(Entry) /\ Len(entries') <= ListCapacity /\ received' \in Nat
        /\ drops' \in 0 .. MaxDrops /\ restarts' \in 0 .. MaxRestarts
    BY <1>2 DEF Inv, TypeOK
  <2> QED
    BY <2>1, <2>2, <2>3, <2>4 DEF TypeOK
<1>7. Counted'
  <2>1. /\ Cardinality(awaiting') \in Nat /\ Cardinality(awaiting') + pushes + 1 <= clock'
        /\ awaiting' \subseteq 1 .. clock' /\ IsFiniteSet(awaiting')
    BY FS_CardinalityType DEF Stamped
  <2>2. Cardinality(awaiting') + pushes' <= clock'
    BY <1>1, <1>2, <2>1
  <2> QED
    BY <2>1, <2>2 DEF Counted
<1>8. ASSUME NEW i \in 1 .. Len(buffer')
      PROVE  /\ i = Len(buffer') => buffer'[i] = e
             /\ i # Len(buffer') => /\ i \in 1 .. Len(buffer') - 1 /\ i + d \in 1 .. Len(buffer)
                                    /\ buffer'[i] = buffer[i + d]
  <2>1. i # Len(buffer') => i \in 1 .. Len(buffer') - 1
    BY <1>1, <1>4
  <2> QED
    BY <1>4, <2>1
<1>9. Buffered'
  <2> SUFFICES ASSUME NEW i \in 1 .. Len(buffer')
               PROVE  buffer'[i].n = pushes' - Len(buffer') + i /\ buffer'[i].at <= clock'
    BY DEF Buffered
  <2>1. CASE i = Len(buffer')
    <3>1. e.n = pushes + 1 /\ e.at <= clock'
      BY DEF Stamped
    <3> QED
      BY <1>1, <1>2, <1>4, <1>8, <2>1, <3>1
  <2>2. CASE i # Len(buffer')
    <3>1. buffer'[i] = buffer[i + d] /\ i + d \in 1 .. Len(buffer)
      BY <1>8, <2>2
    <3>2. buffer[i + d].n = pushes - Len(buffer) + (i + d) /\ buffer[i + d].at <= clock
      BY <3>1 DEF Inv, Buffered
    <3>3. buffer[i + d] \in Entry
      BY <1>1, <3>1
    <3>4. buffer[i + d].at \in Nat
      BY <3>3, EntryFields
    <3>5. clock <= clock'
      BY DEF Stamped
    <3>6. buffer[i + d].at <= clock'
      BY <1>1, <3>2, <3>4, <3>5
    <3>7. pushes - Len(buffer) + (i + d) = pushes' - Len(buffer') + i
      BY <1>1, <1>2, <1>4
    <3> QED
      BY <3>1, <3>2, <3>6, <3>7
  <2> QED
    BY <2>1, <2>2
<1>10. OnlyGlobalEntriesAreLate'
  <2> SUFFICES ASSUME NEW i \in DOMAIN buffer', NEW k \in DOMAIN buffer', i < k, buffer'[i].at > buffer'[k].at
               PROVE  buffer'[k].source = "completed"
    BY DEF OnlyGlobalEntriesAreLate
  <2>1. i \in 1 .. Len(buffer') /\ k \in 1 .. Len(buffer') /\ i # Len(buffer')
    BY <1>4
  <2>2. buffer'[i] = buffer[i + d] /\ i + d \in 1 .. Len(buffer)
    BY <1>8, <2>1
  <2>3. CASE k = Len(buffer')
    <3>1. buffer'[k] = e
      BY <1>8, <2>1, <2>3
    <3>2. buffer[i + d].at <= clock
      BY <2>2 DEF Inv, Buffered
    <3>3. buffer[i + d].at \in Nat /\ e.at \in Nat
      BY <1>1, <2>2, EntryFields
    <3>4. ~ (e.at > clock)
      BY <1>1, <2>2, <3>1, <3>2, <3>3
    <3> QED
      BY <3>1, <3>4 DEF Stamped
  <2>4. CASE k # Len(buffer')
    <3>1. buffer'[k] = buffer[k + d] /\ k + d \in 1 .. Len(buffer)
      BY <1>8, <2>1, <2>4
    <3>2. i + d < k + d
      BY <2>1
    <3> QED
      BY <1>1, <2>2, <3>1, <3>2 DEF Inv, OnlyGlobalEntriesAreLate
  <2> QED
    BY <2>3, <2>4
<1>11. Linked'
  BY <1>2, <1>3 DEF Inv, Linked
<1>12. Joined'
  <2> SUFFICES ASSUME page' = "open"
               PROVE  /\ \A i \in 1 .. Len(wire') : wire'[i].n = pushes' - Len(wire') + i
                      /\ \A i \in 1 .. Len(entries') : i <= received' => entries'[i].n = pushes' - Len(wire') + 1 - i
                      /\ Len(entries') >= SmallerOf(received', ListCapacity)
                      /\ received' + Len(wire') >= SmallerOf(ReplayCount, Len(buffer'))
    BY DEF Joined
  <2>1. page = "open" /\ subscribed /\ wire' = Append(wire, e)
    BY <1>2, <1>3 DEF Inv, Linked
  <2>2. /\ \A i \in 1 .. Len(wire) : wire[i].n = pushes - Len(wire) + i
        /\ \A i \in 1 .. Len(entries) : i <= received => entries[i].n = pushes - Len(wire) + 1 - i
        /\ Len(entries) >= SmallerOf(received, ListCapacity)
        /\ received + Len(wire) >= SmallerOf(ReplayCount, Len(buffer))
    BY <2>1 DEF Inv, Joined
  <2>3. Len(wire') = Len(wire) + 1
    BY <1>5, <2>1
  <2>4. ASSUME NEW i \in 1 .. Len(wire')
        PROVE  wire'[i].n = pushes' - Len(wire') + i
    <3>1. CASE i = Len(wire) + 1
      <4>1. wire'[i].n = pushes + 1
        BY <1>5, <2>1, <3>1 DEF Stamped
      <4> QED
        BY <1>1, <1>2, <2>3, <3>1, <4>1
    <3>2. CASE i # Len(wire) + 1
      <4>1. i \in 1 .. Len(wire)
        BY <1>1, <2>3, <3>2
      <4>2. wire'[i].n = pushes - Len(wire) + i
        BY <1>5, <2>1, <2>2, <4>1
      <4> QED
        BY <1>1, <1>2, <2>3, <4>1, <4>2
    <3> QED
      BY <3>1, <3>2
  <2>5. ASSUME NEW i \in 1 .. Len(entries'), i <= received'
        PROVE  entries'[i].n = pushes' - Len(wire') + 1 - i
    <3>1. entries[i].n = pushes - Len(wire) + 1 - i
      BY <1>2, <2>2, <2>5
    <3> QED
      BY <1>1, <1>2, <2>3, <3>1
  <2>6. received + Len(wire) + 1 >= SmallerOf(ReplayCount, Len(buffer'))
    <3>1. Len(buffer') <= Len(buffer) + 1 /\ Len(buffer') \in Nat
      BY <1>1, <1>4
    <3> QED
      BY <1>1, <2>2, <3>1 DEF SmallerOf
  <2> QED
    BY <1>1, <1>2, <2>2, <2>3, <2>4, <2>5, <2>6
<1>13. Named'
  <2>1. \A x \in Known' : x = e \/ x \in Known
    <3>1. \A x \in Range(buffer') : x = e \/ x \in Range(buffer)
      <4>1. ASSUME NEW i \in DOMAIN buffer'
            PROVE  buffer'[i] = e \/ buffer'[i] \in Range(buffer)
        <5>1. i \in 1 .. Len(buffer')
          BY <1>4
        <5> QED
          BY <1>1, <1>8, <5>1 DEF Range
      <4> QED
        BY <4>1 DEF Range
    <3>2. \A x \in Range(wire') : x = e \/ x \in Range(wire)
      <4>1. CASE subscribed
        <5>1. wire' = Append(wire, e) /\ DOMAIN wire' = 1 .. Len(wire) + 1
          BY <1>3, <1>5, <4>1
        <5>2. ASSUME NEW i \in DOMAIN wire'
              PROVE  wire'[i] = e \/ wire'[i] \in Range(wire)
          <6>1. i = Len(wire) + 1 \/ i \in 1 .. Len(wire)
            BY <1>1, <5>1
          <6> QED
            BY <1>1, <1>5, <5>1, <6>1 DEF Range
        <5> QED
          BY <5>2 DEF Range
      <4>2. CASE ~ subscribed
        BY <1>3, <4>2
      <4> QED
        BY <4>1, <4>2
    <3> QED
      BY <1>2, <3>1, <3>2 DEF Known
  <2>2. \A x \in Known : x \in Entry
    BY <1>1 DEF Known, Range
  <2>3. ASSUME NEW x \in Known
        PROVE  x.n \in Nat /\ x.n <= pushes /\ x.n # pushes + 1
    BY <1>1, <2>2, EntryFields DEF Inv, Named
  <2>4. e.n = pushes + 1
    BY DEF Stamped
  <2>5. \A x \in Known' : x.n <= pushes'
    BY <1>1, <1>2, <2>1, <2>3, <2>4
  <2>6. \A x, y \in Known' : x.n = y.n => x = y
    BY <2>1, <2>3, <2>4 DEF Inv, Named
  <2> QED
    BY <2>5, <2>6 DEF Named
<1> QED
  BY <1>6, <1>7, <1>9, <1>10, <1>11, <1>12, <1>13 DEF Inv

-----------------------------------------------------------------------------
(* The listeners *)

LEMMA NewEntry ==
  ASSUME TypeOK, NEW at \in 1 .. MaxEvents, NEW source \in {"worker", "global", "completed"},
         pushes < MaxEvents
  PROVE  /\ [n |-> pushes + 1, at |-> at, source |-> source] \in Entry
         /\ [n |-> pushes + 1, at |-> at, source |-> source].n = pushes + 1
         /\ [n |-> pushes + 1, at |-> at, source |-> source].at = at
         /\ [n |-> pushes + 1, at |-> at, source |-> source].source = source
<1>1. pushes + 1 \in 1 .. MaxEvents
  BY Types
<1> QED
  BY <1>1 DEF Entry

LEMMA CountFacts ==
  ASSUME Inv
  PROVE  /\ TypeOK /\ clock \in Nat /\ pushes \in Nat /\ clock \in 0 .. MaxEvents
         /\ awaiting \subseteq 1 .. clock /\ IsFiniteSet(awaiting)
         /\ Cardinality(awaiting) \in Nat /\ Cardinality(awaiting) + pushes <= clock
         /\ clock + 1 \notin awaiting
<1>1. TypeOK /\ clock \in Nat /\ pushes \in Nat /\ clock \in 0 .. MaxEvents
      /\ awaiting \subseteq 1 .. clock /\ IsFiniteSet(awaiting) /\ Cardinality(awaiting) + pushes <= clock
  BY Types DEF Inv, Counted, TypeOK
<1> QED
  BY <1>1, FS_CardinalityType

\* A listener that stamps and pushes in one turn.
LEMMA EventInv ==
  ASSUME Inv, NEW source \in {"worker", "global"}, clock < MaxEvents, clock' = clock + 1,
         Push([n |-> pushes + 1, at |-> clock + 1, source |-> source]),
         UNCHANGED <<awaiting, subscribed, browser, bounds>>
  PROVE  Inv'
<1>1. /\ TypeOK /\ clock \in Nat /\ pushes \in Nat
      /\ awaiting \subseteq 1 .. clock /\ IsFiniteSet(awaiting)
      /\ Cardinality(awaiting) \in Nat /\ Cardinality(awaiting) + pushes <= clock
  BY CountFacts
<1>2. clock + 1 \in 1 .. MaxEvents /\ pushes < MaxEvents
  BY <1>1
<1>3. PICK e \in Entry : /\ e = [n |-> pushes + 1, at |-> clock + 1, source |-> source]
                         /\ e.n = pushes + 1 /\ e.at = clock + 1
  <2> DEFINE f == [n |-> pushes + 1, at |-> clock + 1, source |-> source]
  <2>1. f \in Entry /\ f.n = pushes + 1 /\ f.at = clock + 1
    BY <1>1, <1>2, NewEntry
  <2> QED
    BY <2>1
<1>4. Push(e)
  BY <1>3
<1>5. /\ awaiting' = awaiting /\ subscribed' = subscribed /\ page' = page /\ entries' = entries
      /\ received' = received /\ drops' = drops /\ restarts' = restarts
  BY DEF browser, bounds
<1>6. /\ clock' \in 0 .. MaxEvents /\ clock <= clock' /\ e.at <= clock' /\ e.at > clock
      /\ awaiting' \subseteq 1 .. clock' /\ IsFiniteSet(awaiting')
      /\ Cardinality(awaiting') + pushes + 1 <= clock'
  BY <1>1, <1>2, <1>3, <1>5
<1>7. Stamped(e)
  BY <1>3, <1>4, <1>5, <1>6 DEF Stamped
<1> QED
  BY <1>7, PushKeeps

\* The entry that was awaited keeps the stamp from before the await.
LEMMA GlobalResolvedInv ==
  ASSUME Inv, NEW at \in 1 .. MaxEvents, GlobalResolved(at)
  PROVE  Inv'
<1>1. /\ TypeOK /\ clock \in Nat /\ pushes \in Nat /\ clock \in 0 .. MaxEvents
      /\ awaiting \subseteq 1 .. clock /\ IsFiniteSet(awaiting)
      /\ Cardinality(awaiting) \in Nat /\ Cardinality(awaiting) + pushes <= clock
  BY CountFacts
<1>2. /\ at \in awaiting /\ awaiting' = awaiting \ {at} /\ clock' = clock
      /\ Push([n |-> pushes + 1, at |-> at, source |-> "completed"])
      /\ subscribed' = subscribed /\ page' = page /\ entries' = entries
      /\ received' = received /\ drops' = drops /\ restarts' = restarts
  BY DEF GlobalResolved, browser, bounds
<1>3. IsFiniteSet(awaiting') /\ Cardinality(awaiting') = Cardinality(awaiting) - 1
      /\ Cardinality(awaiting') \in Nat
  <2>1. IsFiniteSet(awaiting \ {at}) /\ Cardinality(awaiting \ {at}) = Cardinality(awaiting) - 1
    BY <1>1, <1>2, FS_RemoveElement
  <2> QED
    BY <1>2, <2>1, FS_CardinalityType
<1>4. pushes < MaxEvents /\ at <= clock
  BY <1>1, <1>2, <1>3
<1>5. PICK e \in Entry : /\ e = [n |-> pushes + 1, at |-> at, source |-> "completed"]
                         /\ e.n = pushes + 1 /\ e.at = at /\ e.source = "completed"
  <2> DEFINE f == [n |-> pushes + 1, at |-> at, source |-> "completed"]
  <2>1. f \in Entry /\ f.n = pushes + 1 /\ f.at = at /\ f.source = "completed"
    BY <1>1, <1>4, NewEntry
  <2> QED
    BY <2>1
<1>6. Push(e)
  BY <1>2, <1>5
<1>7. /\ clock' \in 0 .. MaxEvents /\ clock <= clock' /\ e.at <= clock'
      /\ awaiting' \subseteq 1 .. clock' /\ Cardinality(awaiting') + pushes + 1 <= clock'
  BY <1>1, <1>2, <1>3, <1>4, <1>5
<1>8. Stamped(e)
  BY <1>2, <1>3, <1>5, <1>6, <1>7 DEF Stamped
<1> QED
  BY <1>8, PushKeeps

\* The clock, or what is awaited, changes; no entry moves.
LEMMA AwaitKeeps ==
  ASSUME Inv, clock' \in 0 .. MaxEvents, clock <= clock',
         awaiting' \subseteq 1 .. clock', IsFiniteSet(awaiting'),
         Cardinality(awaiting') + pushes <= clock',
         UNCHANGED <<buffer, subscribed, wire, browser, pushes, bounds>>
  PROVE  Inv'
<1>1. /\ buffer' = buffer /\ subscribed' = subscribed /\ wire' = wire /\ page' = page
      /\ entries' = entries /\ received' = received /\ pushes' = pushes
      /\ drops' = drops /\ restarts' = restarts
  BY DEF browser, bounds
<1>2. TypeOK'
  <2>1. awaiting' \subseteq 1 .. MaxEvents
    OBVIOUS
  <2> QED
    BY <1>1, <2>1 DEF Inv, TypeOK
<1>3. Counted'
  BY <1>1 DEF Counted
<1>4. Buffered'
  <2> SUFFICES ASSUME NEW i \in 1 .. Len(buffer)
               PROVE  buffer[i].n = pushes - Len(buffer) + i /\ buffer[i].at <= clock'
    BY <1>1 DEF Buffered
  <2>1. buffer[i].n = pushes - Len(buffer) + i /\ buffer[i].at <= clock
    BY DEF Inv, Buffered
  <2>2. buffer[i].at \in Nat /\ clock \in Nat /\ clock' \in Nat
    BY Types, EntryFields DEF Inv
  <2> QED
    BY <2>1, <2>2
<1>5. OnlyGlobalEntriesAreLate'
  BY <1>1 DEF Inv, OnlyGlobalEntriesAreLate
<1>6. Linked' /\ Joined'
  BY <1>1 DEF Inv, Linked, Joined
<1>7. Named'
  BY <1>1 DEF Inv, Named, Known
<1> QED
  BY <1>2, <1>3, <1>4, <1>5, <1>6, <1>7 DEF Inv

LEMMA GlobalCompletedInv ==
  ASSUME Inv, GlobalCompleted
  PROVE  Inv'
<1>1. /\ clock \in Nat /\ pushes \in Nat
      /\ awaiting \subseteq 1 .. clock /\ IsFiniteSet(awaiting)
      /\ Cardinality(awaiting) \in Nat /\ Cardinality(awaiting) + pushes <= clock
      /\ clock + 1 \notin awaiting
  BY CountFacts
<1>2. clock < MaxEvents /\ clock' = clock + 1 /\ awaiting' = awaiting \cup {clock + 1}
  BY DEF GlobalCompleted
<1>3. IsFiniteSet(awaiting') /\ Cardinality(awaiting') = Cardinality(awaiting) + 1
  BY <1>1, <1>2, FS_AddElement
<1>4. /\ clock' \in 0 .. MaxEvents /\ clock <= clock' /\ awaiting' \subseteq 1 .. clock'
      /\ Cardinality(awaiting') + pushes <= clock'
  BY <1>1, <1>2, <1>3
<1> QED
  BY <1>3, <1>4, AwaitKeeps DEF GlobalCompleted

LEMMA GlobalUnresolvedInv ==
  ASSUME Inv, NEW at \in 1 .. MaxEvents, GlobalUnresolved(at)
  PROVE  Inv'
<1>1. /\ clock \in Nat /\ pushes \in Nat /\ clock \in 0 .. MaxEvents
      /\ awaiting \subseteq 1 .. clock /\ IsFiniteSet(awaiting)
      /\ Cardinality(awaiting) \in Nat /\ Cardinality(awaiting) + pushes <= clock
  BY CountFacts
<1>2. at \in awaiting /\ clock' = clock /\ awaiting' = awaiting \ {at}
  BY DEF GlobalUnresolved
<1>3. IsFiniteSet(awaiting') /\ Cardinality(awaiting') = Cardinality(awaiting) - 1
  BY <1>1, <1>2, FS_RemoveElement
<1>4. /\ clock' \in 0 .. MaxEvents /\ clock <= clock' /\ awaiting' \subseteq 1 .. clock'
      /\ Cardinality(awaiting') + pushes <= clock'
  BY <1>1, <1>2, <1>3
<1> QED
  BY <1>3, <1>4, AwaitKeeps DEF GlobalUnresolved

-----------------------------------------------------------------------------
(* The stream and the page *)

\* A step of the connection leaves the feed alone ...
LEMMA FeedKept ==
  ASSUME Inv, UNCHANGED <<server, clock, pushes>>
  PROVE  Counted' /\ Buffered' /\ OnlyGlobalEntriesAreLate'
<1>1. buffer' = buffer /\ awaiting' = awaiting /\ clock' = clock /\ pushes' = pushes
  BY DEF server
<1> QED
  BY <1>1 DEF Inv, Counted, Buffered, OnlyGlobalEntriesAreLate

\* ... and shows no entry that was not there.
LEMMA NamesKept ==
  ASSUME Inv, pushes' = pushes, Known' \subseteq Known
  PROVE  Named'
BY DEF Inv, Named

LEMMA EmptyIsEntries ==
  ASSUME NEW S
  PROVE  <<>> \in Seq(S) /\ Len(<<>>) = 0 /\ Range(<<>>) = {}
BY DEF Range

LEMMA MountInv ==
  ASSUME Inv, Mount
  PROVE  Inv'
<1>1. /\ page = "away" /\ page' = "connecting" /\ entries' = <<>> /\ buffer' = buffer
      /\ awaiting' = awaiting /\ subscribed' = subscribed /\ wire' = wire /\ received' = received
      /\ clock' = clock /\ pushes' = pushes /\ drops' = drops /\ restarts' = restarts
  BY DEF Mount, server, bounds
<1>2. TypeOK'
  BY <1>1, EmptyIsEntries DEF Inv, TypeOK
<1>3. Linked' /\ Joined'
  BY <1>1 DEF Inv, Linked, Joined
<1>4. Known' \subseteq Known
  BY <1>1, EmptyIsEntries DEF Known
<1> QED
  BY <1>1, <1>2, <1>3, <1>4, FeedKept, NamesKept DEF Inv, server

LEMMA UnmountInv ==
  ASSUME Inv, Unmount
  PROVE  Inv'
<1>1. /\ page' = "away" /\ drops < MaxDrops /\ drops' = drops + 1 /\ subscribed' = FALSE
      /\ wire' = <<>> /\ received' = 0 /\ buffer' = buffer /\ awaiting' = awaiting
      /\ entries' = entries /\ clock' = clock /\ pushes' = pushes /\ restarts' = restarts
  BY DEF Unmount, server
<1>2. TypeOK'
  <2>1. drops' \in 0 .. MaxDrops
    BY <1>1 DEF Inv, TypeOK
  <2> QED
    BY <1>1, <2>1, EmptyIsEntries DEF Inv, TypeOK
<1>3. Linked' /\ Joined'
  BY <1>1 DEF Linked, Joined
<1>4. Known' \subseteq Known
  BY <1>1, EmptyIsEntries DEF Known
<1> QED
  BY <1>1, <1>2, <1>3, <1>4, FeedKept, NamesKept DEF Inv, server

\* The replay is the end of the buffer, so it ends at the latest push.
LEMMA ConnectInv ==
  ASSUME Inv, Connect
  PROVE  Inv'
<1>1. /\ page' = "open" /\ subscribed' = TRUE /\ wire' = Recent(ReplayCount) /\ received' = 0
      /\ buffer' = buffer /\ awaiting' = awaiting
      /\ entries' = entries /\ clock' = clock /\ pushes' = pushes
      /\ drops' = drops /\ restarts' = restarts
  BY DEF Connect, server, bounds
<1>2. /\ buffer \in Seq(Entry) /\ Len(buffer) \in Nat /\ DOMAIN buffer = 1 .. Len(buffer)
      /\ Len(entries) \in Nat /\ pushes \in Nat /\ ReplayCount \in Nat \ {0} /\ ListCapacity \in Nat \ {0}
  BY Types DEF Inv
<1>3. /\ wire' \in Seq(Entry) /\ Len(wire') = SmallerOf(ReplayCount, Len(buffer))
      /\ \A i \in 1 .. Len(wire') :
           /\ Len(buffer) - Len(wire') + i \in 1 .. Len(buffer)
           /\ wire'[i] = buffer[Len(buffer) - Len(wire') + i]
  BY <1>1, RecentIsEnd DEF Inv
<1>4. Len(wire') \in Nat /\ DOMAIN wire' = 1 .. Len(wire')
  BY <1>3
<1>5. TypeOK'
  BY <1>1, <1>3 DEF Inv, TypeOK
<1>6. Linked'
  BY <1>1 DEF Linked
<1>7. Joined'
  <2>1. ASSUME NEW i \in 1 .. Len(wire')
        PROVE  wire'[i].n = pushes' - Len(wire') + i
    <3>1. wire'[i].n = pushes - Len(buffer) + (Len(buffer) - Len(wire') + i)
      BY <1>3 DEF Inv, Buffered
    <3> QED
      BY <1>1, <1>2, <1>4, <3>1
  <2>2. \A i \in 1 .. Len(entries') : ~ (i <= received')
    BY <1>1, <1>2
  <2>3. Len(entries') >= SmallerOf(received', ListCapacity)
    BY <1>1, <1>2 DEF SmallerOf
  <2>4. received' + Len(wire') >= SmallerOf(ReplayCount, Len(buffer'))
    <3>1. received' + Len(wire') = Len(wire')
      BY <1>1, <1>4
    <3>2. SmallerOf(ReplayCount, Len(buffer')) = Len(wire')
      BY <1>1, <1>3
    <3> QED
      BY <1>4, <3>1, <3>2
  <2> QED
    BY <2>1, <2>2, <2>3, <2>4 DEF Joined
<1>8. Known' \subseteq Known
  <2>1. Range(wire') \subseteq Range(buffer)
    BY <1>2, <1>3, <1>4 DEF Range
  <2> QED
    BY <1>1, <2>1 DEF Known
<1> QED
  BY <1>1, <1>5, <1>6, <1>7, <1>8, FeedKept, NamesKept DEF Inv, server

LEMMA ReceiveInv ==
  ASSUME Inv, Receive
  PROVE  Inv'
<1>1. /\ page = "open" /\ wire # <<>> /\ wire' = Tail(wire) /\ received' = received + 1
      /\ buffer' = buffer /\ awaiting' = awaiting /\ subscribed' = subscribed /\ page' = page
      /\ clock' = clock /\ pushes' = pushes /\ drops' = drops /\ restarts' = restarts
  BY DEF Receive, server, bounds
<1>2. /\ wire \in Seq(Entry) /\ Len(wire) \in Nat /\ DOMAIN wire = 1 .. Len(wire)
      /\ entries \in Seq(Entry) /\ Len(entries) \in Nat /\ DOMAIN entries = 1 .. Len(entries)
      /\ Len(buffer) \in Nat /\ pushes \in Nat /\ received \in Nat
      /\ ReplayCount \in Nat \ {0} /\ ListCapacity \in Nat \ {0}
  BY Types DEF Inv
<1>3. /\ entries' \in Seq(Entry)
      /\ Len(entries') = SmallerOf(Len(entries) + 1, ListCapacity)
      /\ entries'[1] = wire[1]
      /\ \A i \in 2 .. Len(entries') : i - 1 \in 1 .. Len(entries) /\ entries'[i] = entries[i - 1]
  BY Prepended DEF Inv, Receive
<1>4. /\ wire' \in Seq(Entry) /\ Len(wire') = Len(wire) - 1
      /\ \A i \in 1 .. Len(wire') : wire'[i] = wire[i + 1]
  BY <1>1, <1>2, HeadTailProperties
<1>5. Len(wire') \in Nat /\ Len(wire) >= 1 /\ DOMAIN wire' = 1 .. Len(wire')
      /\ Len(entries') \in Nat /\ Len(entries') >= 1 /\ DOMAIN entries' = 1 .. Len(entries')
  BY <1>2, <1>3, <1>4 DEF SmallerOf
<1>6. TypeOK'
  <2>1. Len(entries') <= ListCapacity /\ received' \in Nat
    BY <1>1, <1>2, <1>3 DEF SmallerOf
  <2> QED
    BY <1>1, <1>3, <1>4, <2>1 DEF Inv, TypeOK
<1>7. Linked'
  BY <1>1 DEF Inv, Linked
<1>8. Joined'
  <2>1. /\ \A i \in 1 .. Len(wire) : wire[i].n = pushes - Len(wire) + i
        /\ \A i \in 1 .. Len(entries) : i <= received => entries[i].n = pushes - Len(wire) + 1 - i
        /\ Len(entries) >= SmallerOf(received, ListCapacity)
        /\ received + Len(wire) >= SmallerOf(ReplayCount, Len(buffer))
    BY <1>1 DEF Inv, Joined
  <2>2. ASSUME NEW i \in 1 .. Len(wire')
        PROVE  wire'[i].n = pushes' - Len(wire') + i
    <3>1. i + 1 \in 1 .. Len(wire) /\ wire'[i] = wire[i + 1]
      BY <1>2, <1>4
    <3>2. wire'[i].n = pushes - Len(wire) + (i + 1)
      BY <2>1, <3>1
    <3> QED
      BY <1>1, <1>2, <1>4, <3>2
  <2>3. ASSUME NEW i \in 1 .. Len(entries'), i <= received'
        PROVE  entries'[i].n = pushes' - Len(wire') + 1 - i
    <3>1. CASE i = 1
      <4>1. 1 \in 1 .. Len(wire)
        BY <1>2, <1>5
      <4>2. entries'[1].n = pushes - Len(wire) + 1
        BY <1>3, <2>1, <4>1
      <4> QED
        BY <1>1, <1>2, <1>4, <3>1, <4>2
    <3>2. CASE i # 1
      <4>1. i - 1 \in 1 .. Len(entries) /\ entries'[i] = entries[i - 1]
        BY <1>3, <1>5, <3>2
      <4>2. i - 1 <= received
        BY <1>1, <1>2, <2>3
      <4>3. entries'[i].n = pushes - Len(wire) + 1 - (i - 1)
        BY <2>1, <4>1, <4>2
      <4> QED
        BY <1>1, <1>2, <1>4, <4>3
    <3> QED
      BY <3>1, <3>2
  <2>4. Len(entries') >= SmallerOf(received', ListCapacity)
    BY <1>1, <1>2, <1>3, <2>1 DEF SmallerOf
  <2>5. received' + Len(wire') >= SmallerOf(ReplayCount, Len(buffer'))
    <3>1. received' + Len(wire') = received + Len(wire)
      BY <1>1, <1>2, <1>4
    <3> QED
      BY <1>1, <2>1, <3>1
  <2> QED
    BY <2>2, <2>3, <2>4, <2>5 DEF Joined
<1>9. Known' \subseteq Known
  <2>1. Range(wire') \subseteq Range(wire)
    <3>1. \A i \in 1 .. Len(wire') : i + 1 \in 1 .. Len(wire)
      BY <1>2, <1>4
    <3> QED
      BY <1>2, <1>4, <1>5, <3>1 DEF Range
  <2>2. Range(entries') \subseteq Range(wire) \cup Range(entries)
    <3>1. ASSUME NEW i \in 1 .. Len(entries')
          PROVE  entries'[i] \in Range(wire) \cup Range(entries)
      <4>1. CASE i = 1
        <5>1. 1 \in DOMAIN wire
          BY <1>2, <1>5
        <5> QED
          BY <1>3, <4>1, <5>1 DEF Range
      <4>2. CASE i # 1
        <5>1. i - 1 \in 1 .. Len(entries) /\ entries'[i] = entries[i - 1]
          BY <1>3, <1>5, <4>2
        <5> QED
          BY <1>2, <5>1 DEF Range
      <4> QED
        BY <4>1, <4>2
    <3> QED
      BY <1>5, <3>1 DEF Range
  <2> QED
    BY <1>1, <2>1, <2>2 DEF Known
<1> QED
  BY <1>1, <1>6, <1>7, <1>8, <1>9, FeedKept, NamesKept DEF Inv, server

LEMMA DropInv ==
  ASSUME Inv, Drop
  PROVE  Inv'
<1>1. /\ drops < MaxDrops /\ drops' = drops + 1 /\ subscribed' = FALSE /\ wire' = <<>> /\ received' = 0
      /\ page' = IF page = "open" THEN "error" ELSE page
      /\ buffer' = buffer /\ awaiting' = awaiting /\ entries' = entries
      /\ clock' = clock /\ pushes' = pushes /\ restarts' = restarts
  BY DEF Drop, Break, server
<1>2. page' # "open" /\ page' \in {"away", "connecting", "open", "error"}
  BY <1>1 DEF Inv, TypeOK
<1>3. TypeOK'
  <2>1. drops' \in 0 .. MaxDrops
    BY <1>1 DEF Inv, TypeOK
  <2> QED
    BY <1>1, <1>2, <2>1, EmptyIsEntries DEF Inv, TypeOK
<1>4. Linked' /\ Joined'
  BY <1>1, <1>2 DEF Linked, Joined
<1>5. Known' \subseteq Known
  BY <1>1, EmptyIsEntries DEF Known
<1> QED
  BY <1>1, <1>3, <1>4, <1>5, FeedKept, NamesKept DEF Inv, server

\* A restart empties the feed, and pushes go on being numbered.
LEMMA RestartInv ==
  ASSUME Inv, Restart
  PROVE  Inv'
<1>1. /\ restarts < MaxRestarts /\ restarts' = restarts + 1 /\ buffer' = <<>> /\ awaiting' = {}
      /\ subscribed' = FALSE /\ wire' = <<>> /\ received' = 0
      /\ page' = IF page = "open" THEN "error" ELSE page
      /\ entries' = entries /\ clock' = clock /\ pushes' = pushes /\ drops' = drops
  BY DEF Restart, Break
<1>2. page' # "open" /\ page' \in {"away", "connecting", "open", "error"}
  BY <1>1 DEF Inv, TypeOK
<1>3. TypeOK'
  <2>1. restarts' \in 0 .. MaxRestarts
    BY <1>1 DEF Inv, TypeOK
  <2>2. buffer' \in Seq(Entry) /\ Len(buffer') <= BufferCapacity /\ wire' \in Seq(Entry)
    BY <1>1
  <2> QED
    BY <1>1, <1>2, <2>1, <2>2 DEF Inv, TypeOK
<1>4. Counted'
  <2>1. clock \in Nat /\ pushes \in Nat /\ Cardinality(awaiting) \in Nat
        /\ Cardinality(awaiting) + pushes <= clock
    BY CountFacts
  <2>2. awaiting' \subseteq 1 .. clock' /\ IsFiniteSet(awaiting') /\ Cardinality(awaiting') = 0
    BY <1>1, FS_EmptySet
  <2> QED
    BY <1>1, <2>1, <2>2 DEF Counted
<1>5. Buffered' /\ OnlyGlobalEntriesAreLate'
  <2>1. Len(buffer') = 0 /\ DOMAIN buffer' = {}
    BY <1>1
  <2> QED
    BY <2>1 DEF Buffered, OnlyGlobalEntriesAreLate
<1>6. Linked' /\ Joined'
  BY <1>1, <1>2 DEF Linked, Joined
<1>7. Known' \subseteq Known
  BY <1>1, EmptyIsEntries DEF Known
<1> QED
  BY <1>1, <1>3, <1>4, <1>5, <1>6, <1>7, NamesKept DEF Inv

-----------------------------------------------------------------------------
(* The theorems *)

LEMMA InitInv == Init => Inv
<1> SUFFICES ASSUME Init PROVE Inv
  OBVIOUS
<1>1. /\ buffer = <<>> /\ awaiting = {} /\ subscribed = FALSE /\ wire = <<>> /\ page = "away"
      /\ entries = <<>> /\ received = 0 /\ clock = 0 /\ pushes = 0 /\ drops = 0 /\ restarts = 0
  BY DEF Init
<1>2. TypeOK
  <2>1. /\ buffer \in Seq(Entry) /\ Len(buffer) <= BufferCapacity /\ wire \in Seq(Entry)
        /\ entries \in Seq(Entry) /\ Len(entries) <= ListCapacity
    BY <1>1, EmptyIsEntries
  <2>2. awaiting \subseteq 1 .. MaxEvents /\ subscribed \in BOOLEAN
        /\ page \in {"away", "connecting", "open", "error"}
    BY <1>1
  <2>3. received \in Nat /\ clock \in 0 .. MaxEvents /\ pushes \in 0 .. MaxEvents
        /\ drops \in 0 .. MaxDrops /\ restarts \in 0 .. MaxRestarts
    BY <1>1
  <2> QED
    BY <2>1, <2>2, <2>3 DEF TypeOK
<1>3. Counted
  <2>1. IsFiniteSet({}) /\ Cardinality({}) = 0
    BY FS_EmptySet
  <2> QED
    BY <1>1, <2>1 DEF Counted
<1>4. Buffered /\ OnlyGlobalEntriesAreLate
  <2>1. Len(buffer) = 0 /\ DOMAIN buffer = {}
    BY <1>1
  <2> QED
    BY <2>1 DEF Buffered, OnlyGlobalEntriesAreLate
<1>5. Linked /\ Joined
  BY <1>1 DEF Linked, Joined
<1>6. Known = {}
  BY <1>1, EmptyIsEntries DEF Known
<1> QED
  BY <1>2, <1>3, <1>4, <1>5, <1>6 DEF Inv, Named

LEMMA NextInv == Inv /\ [Next]_vars => Inv'
<1> SUFFICES ASSUME Inv, [Next]_vars PROVE Inv'
  OBVIOUS
<1>1. CASE MailEvent \/ StallEvent
  BY <1>1, EventInv DEF MailEvent, StallEvent, WorkerEvent
<1>2. CASE GlobalEvent
  BY <1>2, EventInv DEF GlobalEvent
<1>3. CASE GlobalCompleted
  BY <1>3, GlobalCompletedInv
<1>4. CASE \E at \in 1 .. MaxEvents : GlobalResolved(at)
  BY <1>4, GlobalResolvedInv
<1>5. CASE \E at \in 1 .. MaxEvents : GlobalUnresolved(at)
  BY <1>5, GlobalUnresolvedInv
<1>6. CASE Mount
  BY <1>6, MountInv
<1>7. CASE Unmount
  BY <1>7, UnmountInv
<1>8. CASE Connect
  BY <1>8, ConnectInv
<1>9. CASE Receive
  BY <1>9, ReceiveInv
<1>10. CASE Drop
  BY <1>10, DropInv
<1>11. CASE Restart
  BY <1>11, RestartInv
<1>12. CASE UNCHANGED vars
  <2>1. /\ buffer' = buffer /\ awaiting' = awaiting /\ subscribed' = subscribed /\ wire' = wire
        /\ page' = page /\ entries' = entries /\ received' = received
        /\ clock' = clock /\ pushes' = pushes /\ drops' = drops /\ restarts' = restarts
    BY <1>12 DEF vars, server, browser, bounds
  <2>2. clock' \in 0 .. MaxEvents /\ clock <= clock'
    BY <2>1, CountFacts
  <2>3. /\ awaiting' \subseteq 1 .. clock' /\ IsFiniteSet(awaiting')
        /\ Cardinality(awaiting') + pushes <= clock'
    BY <2>1, CountFacts
  <2> QED
    BY <2>1, <2>2, <2>3, AwaitKeeps DEF browser, bounds
<1> QED
  BY <1>1, <1>2, <1>3, <1>4, <1>5, <1>6, <1>7, <1>8, <1>9, <1>10, <1>11, <1>12 DEF Next

LEMMA Invariance == Spec => []Inv
BY InitInv, NextInv, PTL DEF Spec

\* The feed, the stream and the page have the declared types for any
\* capacities.
THEOREM TypeCorrect == Spec => []TypeOK
<1>1. Inv => TypeOK
  BY DEF Inv
<1> QED
  BY <1>1, Invariance, PTL

\* A live page with nothing in flight shows the newest of the feed, whatever
\* was lost with earlier connections.
THEOREM FeedShown == Spec => []PageShowsFeed
<1>1. Inv => PageShowsFeed
  <2> SUFFICES ASSUME Inv, StatusLabel = "live", wire = <<>>,
                      NEW shown, shown = SmallerOf(SmallerOf(ReplayCount, Len(buffer)), ListCapacity)
               PROVE  /\ Len(entries) >= shown
                      /\ SubSeq(entries, 1, shown) = SubSeq(NewestFirstOf(buffer), 1, shown)
    BY DEF PageShowsFeed
  <2>1. page = "open"
    BY DEF StatusLabel
  <2>2. /\ buffer \in Seq(Entry) /\ Len(buffer) \in Nat /\ DOMAIN buffer = 1 .. Len(buffer)
        /\ entries \in Seq(Entry) /\ Len(entries) \in Nat /\ DOMAIN entries = 1 .. Len(entries)
        /\ pushes \in Nat /\ received \in Nat /\ Len(wire) = 0
        /\ ReplayCount \in Nat \ {0} /\ ListCapacity \in Nat \ {0}
    BY Types DEF Inv
  <2>3. /\ \A i \in 1 .. Len(entries) : i <= received => entries[i].n = pushes - Len(wire) + 1 - i
        /\ Len(entries) >= SmallerOf(received, ListCapacity)
        /\ received + Len(wire) >= SmallerOf(ReplayCount, Len(buffer))
    BY <2>1 DEF Inv, Joined
  <2>4. /\ shown \in Nat /\ shown <= received /\ shown <= Len(buffer) /\ shown <= Len(entries)
    <3>1. received >= SmallerOf(ReplayCount, Len(buffer))
      BY <2>2, <2>3
    <3>2. \A a, b \in Nat : /\ SmallerOf(a, b) \in Nat
                            /\ SmallerOf(a, b) <= a /\ SmallerOf(a, b) <= b
      BY DEF SmallerOf
    <3>3. /\ SmallerOf(ReplayCount, Len(buffer)) \in Nat
          /\ SmallerOf(ReplayCount, Len(buffer)) <= Len(buffer)
      BY <2>2, <3>2
    <3>4. /\ shown \in Nat /\ shown <= SmallerOf(ReplayCount, Len(buffer))
          /\ shown <= ListCapacity
      BY <2>2, <3>2, <3>3
    <3>5. shown <= received /\ shown <= Len(buffer)
      BY <2>2, <3>1, <3>3, <3>4
    <3>6. shown <= SmallerOf(received, ListCapacity)
      BY <3>4, <3>5 DEF SmallerOf
    <3>7. SmallerOf(received, ListCapacity) \in Nat
      BY <2>2, <3>2
    <3> QED
      BY <2>2, <2>3, <3>4, <3>5, <3>6, <3>7
  <2>5. ASSUME NEW i \in 1 .. shown
        PROVE  entries[i] = buffer[Len(buffer) + 1 - i] /\ Len(buffer) + 1 - i \in 1 .. Len(buffer)
    <3>1. i \in 1 .. Len(entries) /\ i <= received /\ Len(buffer) + 1 - i \in 1 .. Len(buffer)
      BY <2>2, <2>4
    <3>2. entries[i].n = pushes + 1 - i
      BY <2>2, <2>3, <3>1
    <3>3. buffer[Len(buffer) + 1 - i].n = pushes - Len(buffer) + (Len(buffer) + 1 - i)
      BY <3>1 DEF Inv, Buffered
    <3>4. entries[i].n = buffer[Len(buffer) + 1 - i].n
      BY <2>2, <3>1, <3>2, <3>3
    <3>5. entries[i] \in Known /\ buffer[Len(buffer) + 1 - i] \in Known
      BY <2>2, <3>1 DEF Known, Range
    <3> QED
      BY <3>1, <3>4, <3>5 DEF Inv, Named
  <2>6. \A i \in 1 .. Len(buffer) : NewestFirstOf(buffer)[i] = buffer[Len(buffer) + 1 - i]
    BY <2>2 DEF NewestFirstOf
  <2>7. \A i \in 1 .. shown : entries[i] \in Entry /\ NewestFirstOf(buffer)[i] = entries[i]
    <3> SUFFICES ASSUME NEW i \in 1 .. shown
                 PROVE  entries[i] \in Entry /\ NewestFirstOf(buffer)[i] = entries[i]
      OBVIOUS
    <3>1. i \in 1 .. Len(entries) /\ i \in 1 .. Len(buffer)
      BY <2>2, <2>4
    <3> QED
      BY <2>2, <2>5, <2>6, <3>1
  <2>8. /\ SubSeq(entries, 1, shown) \in Seq(Entry)
        /\ Len(SubSeq(entries, 1, shown)) = IF 1 <= shown THEN shown - 1 + 1 ELSE 0
        /\ \A i \in 1 .. shown - 1 + 1 : SubSeq(entries, 1, shown)[i] = entries[1 + i - 1]
    BY <2>4, <2>7, SubSeqProperties
  <2>9. /\ SubSeq(NewestFirstOf(buffer), 1, shown) \in Seq(Entry)
        /\ Len(SubSeq(NewestFirstOf(buffer), 1, shown)) = IF 1 <= shown THEN shown - 1 + 1 ELSE 0
        /\ \A i \in 1 .. shown - 1 + 1 :
             SubSeq(NewestFirstOf(buffer), 1, shown)[i] = NewestFirstOf(buffer)[1 + i - 1]
    BY <2>4, <2>7, SubSeqProperties
  <2>10. Len(SubSeq(entries, 1, shown)) = shown /\ Len(SubSeq(NewestFirstOf(buffer), 1, shown)) = shown
    BY <2>4, <2>8, <2>9
  <2>11. ASSUME NEW i \in 1 .. shown
         PROVE  SubSeq(entries, 1, shown)[i] = SubSeq(NewestFirstOf(buffer), 1, shown)[i]
    <3>1. i \in 1 .. shown - 1 + 1 /\ 1 + i - 1 = i
      BY <2>4
    <3> QED
      BY <2>7, <2>8, <2>9, <3>1
  <2>12. SubSeq(entries, 1, shown) = SubSeq(NewestFirstOf(buffer), 1, shown)
    BY <2>8, <2>9, <2>10, <2>11, SeqEqual
  <2> QED
    BY <2>4, <2>12
<1> QED
  BY <1>1, Invariance, PTL

\* Neither a gap nor a repetition in what one connection delivers, replay and
\* live part together.
THEOREM DeliveredOnce == Spec => []ConnectionDeliversOnce
<1>1. Inv => ConnectionDeliversOnce
  <2> SUFFICES ASSUME Inv PROVE ConnectionDeliversOnce
    OBVIOUS
  <2> DEFINE k    == SmallerOf(received, Len(entries))
             seen == SubSeq(entries, 1, k)
             all  == NewestFirstOf(wire) \o seen
  <2>1. /\ wire \in Seq(Entry) /\ Len(wire) \in Nat /\ DOMAIN wire = 1 .. Len(wire)
        /\ entries \in Seq(Entry) /\ Len(entries) \in Nat
        /\ pushes \in Nat /\ received \in Nat
    BY Types DEF Inv
  <2>2. k \in Nat /\ k <= received /\ k <= Len(entries)
    BY <2>1 DEF SmallerOf
  <2>3. /\ seen \in Seq(Entry) /\ Len(seen) = k /\ \A i \in 1 .. k : seen[i] = entries[i]
    <3> HIDE DEF k
    <3>1. \A i \in 1 .. k : entries[i] \in Entry
      BY <2>1, <2>2
    <3>2. /\ seen \in Seq(Entry) /\ Len(seen) = IF 1 <= k THEN k - 1 + 1 ELSE 0
          /\ \A i \in 1 .. k - 1 + 1 : seen[i] = entries[1 + i - 1]
      BY <2>2, <3>1, SubSeqProperties
    <3> HIDE DEF seen
    <3>3. \A i \in 1 .. k : i \in 1 .. k - 1 + 1 /\ 1 + i - 1 = i
      BY <2>2
    <3> QED
      BY <2>2, <3>2, <3>3
  <2>4. /\ NewestFirstOf(wire) \in Seq(Entry) /\ Len(NewestFirstOf(wire)) = Len(wire)
        /\ \A i \in 1 .. Len(wire) : NewestFirstOf(wire)[i] = wire[Len(wire) + 1 - i]
    <3>1. \A i \in 1 .. Len(wire) : Len(wire) + 1 - i \in 1 .. Len(wire)
      BY <2>1
    <3>2. NewestFirstOf(wire) = [i \in 1 .. Len(wire) |-> wire[Len(wire) + 1 - i]]
      BY <2>1 DEF NewestFirstOf
    <3>3. NewestFirstOf(wire) \in [1 .. Len(wire) -> Entry]
      BY <2>1, <3>1, <3>2
    <3> QED
      BY <2>1, <3>2, <3>3
  <2> HIDE DEF k, seen
  <2>5. /\ Len(all) = Len(wire) + k
        /\ \A i \in 1 .. Len(wire) + k :
             all[i] = IF i <= Len(wire) THEN NewestFirstOf(wire)[i] ELSE seen[i - Len(wire)]
    <3>1. /\ Len(all) = Len(NewestFirstOf(wire)) + Len(seen)
          /\ \A i \in 1 .. Len(NewestFirstOf(wire)) + Len(seen) :
               all[i] = IF i <= Len(NewestFirstOf(wire))
                        THEN NewestFirstOf(wire)[i] ELSE seen[i - Len(NewestFirstOf(wire))]
      BY <2>3, <2>4, ConcatProperties
    <3> HIDE DEF all
    <3> QED
      BY <2>3, <2>4, <3>1
  <2> HIDE DEF all
  <2>6. ASSUME NEW i \in 1 .. Len(wire) + k
        PROVE  all[i].n = pushes + 1 - i
    <3>1. page = "open"
      BY <2>1, <2>2 DEF Inv, Linked
    <3>2. /\ \A j \in 1 .. Len(wire) : wire[j].n = pushes - Len(wire) + j
          /\ \A j \in 1 .. Len(entries) : j <= received => entries[j].n = pushes - Len(wire) + 1 - j
      BY <3>1 DEF Inv, Joined
    <3>3. CASE i <= Len(wire)
      <4>1. i \in 1 .. Len(wire) /\ Len(wire) + 1 - i \in 1 .. Len(wire)
        BY <2>1, <2>2, <3>3
      <4>2. all[i] = wire[Len(wire) + 1 - i]
        BY <2>4, <2>5, <3>3, <4>1
      <4>3. all[i].n = pushes - Len(wire) + (Len(wire) + 1 - i)
        BY <3>2, <4>1, <4>2
      <4> QED
        BY <2>1, <4>1, <4>3
    <3>4. CASE ~ (i <= Len(wire))
      <4>1. i - Len(wire) \in 1 .. k /\ i - Len(wire) \in 1 .. Len(entries) /\ i - Len(wire) <= received
        BY <2>1, <2>2, <3>4
      <4>2. all[i] = entries[i - Len(wire)]
        BY <2>3, <2>5, <3>4, <4>1
      <4>3. all[i].n = pushes - Len(wire) + 1 - (i - Len(wire))
        BY <3>2, <4>1, <4>2
      <4> QED
        BY <2>1, <2>2, <4>3
    <3> QED
      BY <3>3, <3>4
  <2>7. ASSUME NEW i \in 1 .. Len(all) - 1
        PROVE  all[i].n = all[i + 1].n + 1
    <3>1. i \in 1 .. Len(wire) + k /\ i + 1 \in 1 .. Len(wire) + k
      BY <2>1, <2>2, <2>5
    <3>2. all[i].n = pushes + 1 - i /\ all[i + 1].n = pushes + 1 - (i + 1)
      BY <2>6, <3>1
    <3> QED
      BY <2>1, <3>1, <3>2
  <2> QED
    BY <2>7 DEF ConnectionDeliversOnce, all, seen, k
<1> QED
  BY <1>1, Invariance, PTL

\* No entry overtakes another in the buffer but the awaited ones.
THEOREM OnlyGlobalsLate == Spec => []OnlyGlobalEntriesAreLate
<1>1. Inv => OnlyGlobalEntriesAreLate
  BY DEF Inv
<1> QED
  BY <1>1, Invariance, PTL

=============================================================================
