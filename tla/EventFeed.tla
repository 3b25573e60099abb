----------------------------- MODULE EventFeed -----------------------------
(***************************************************************************)
(* The event feed and one dashboard that watches it.                       *)
(*                                                                         *)
(* Queue listeners push entries into a bounded buffer, which the API also  *)
(* pushes to the open SSE subscription (apps/api/src/events).  A new       *)
(* subscription is first given the last few entries.  The browser hook     *)
(* (apps/web/lib/use-event-stream.ts) prepends what arrives to a bounded   *)
(* list; its EventSource reconnects by itself after a lost connection,     *)
(* and keeps the list.                                                     *)
(*                                                                         *)
(* The listeners stamp and push in one turn, but for one: the global       *)
(* completed listener stamps its entry, awaits the job, and pushes then.   *)
(***************************************************************************)
EXTENDS Naturals, Sequences

CONSTANTS
  BufferCapacity,   \* FEED_BUFFER_CAPACITY
  ReplayCount,      \* SSE_REPLAY_COUNT
  ListCapacity,     \* MAX_FEED_ENTRIES, the browser's bound
  MaxEvents,        \* bound on queue events
  MaxDrops,         \* bound on lost connections and on departures
  MaxRestarts       \* bound on API restarts

ASSUME BoundsAssumption ==
  /\ BufferCapacity \in Nat \ {0}
  /\ ReplayCount \in 1 .. BufferCapacity
  /\ ListCapacity \in Nat \ {0}
  /\ MaxEvents \in Nat /\ MaxDrops \in Nat /\ MaxRestarts \in Nat

VARIABLES
  \* the API process
  buffer,      \* EventFeed.buffer, newest last
  awaiting,    \* stamps of global entries whose job is being resolved
  subscribed,  \* whether an SSE subscription is open
  \* the connection
  wire,        \* messages sent and not yet received, oldest first
  \* the browser
  page,        \* "away", or the hook's status: "connecting", "open", "error"
  entries,     \* the hook's list, newest first
  received,    \* messages received over the present connection (history)
  \* time and bounds
  clock,       \* stamps given so far; every event gets a later one
  pushes,      \* entries pushed so far; they number the entries
  drops, restarts

server  == <<buffer, awaiting>>
browser == <<page, entries, received>>
bounds  == <<drops, restarts>>
vars    == <<server, subscribed, wire, browser, clock, pushes, bounds>>

\* n: place in the push order; at: the entry's stamp.
\* The global completed listener's entries are told from the other global ones.
Entry == [n : 1 .. MaxEvents, at : 1 .. MaxEvents, source : {"worker", "global", "completed"}]

TypeOK ==
  /\ buffer \in Seq(Entry) /\ Len(buffer) <= BufferCapacity
  /\ awaiting \subseteq 1 .. MaxEvents
  /\ subscribed \in BOOLEAN
  /\ wire \in Seq(Entry)
  /\ page \in {"away", "connecting", "open", "error"}
  /\ entries \in Seq(Entry) /\ Len(entries) <= ListCapacity
  /\ received \in Nat
  /\ clock \in 0 .. MaxEvents
  /\ pushes \in 0 .. MaxEvents
  /\ drops \in 0 .. MaxDrops
  /\ restarts \in 0 .. MaxRestarts

Init ==
  /\ buffer = <<>>
  /\ awaiting = {}
  /\ subscribed = FALSE
  /\ wire = <<>>
  /\ page = "away"
  /\ entries = <<>>
  /\ received = 0
  /\ clock = 0
  /\ pushes = 0
  /\ drops = 0
  /\ restarts = 0

-----------------------------------------------------------------------------
(* The feed *)

\* The oldest entry is shifted out once the buffer is over-full.
Trimmed(seq) == IF Len(seq) > BufferCapacity THEN Tail(seq) ELSE seq

\* EventFeed.push(): record, evict, broadcast to the live subscription.
Push(e) ==
  /\ buffer' = Trimmed(Append(buffer, e))
  /\ wire' = IF subscribed THEN Append(wire, e) ELSE wire
  /\ pushes' = pushes + 1

\* recent(limit)
Recent(limit) ==
  SubSeq(buffer, IF Len(buffer) > limit THEN Len(buffer) - limit + 1 ELSE 1, Len(buffer))

-----------------------------------------------------------------------------
(* The listeners *)

\* Seeded fault: a worker listener that reuses the time its job was created.
WorkerEventStale ==
  /\ clock < MaxEvents
  /\ clock' = clock + 1
  /\ Push([n |-> pushes + 1, at |-> 1, source |-> "worker"])
  /\ UNCHANGED <<awaiting, subscribed, browser, bounds>>

\* A worker-local listener.
WorkerEvent ==
  /\ clock < MaxEvents
  /\ clock' = clock + 1
  /\ Push([n |-> pushes + 1, at |-> clock + 1, source |-> "worker"])
  /\ UNCHANGED <<awaiting, subscribed, browser, bounds>>

\* The listeners of the mail worker and of the stall demo's.
MailEvent  == WorkerEvent
StallEvent == WorkerEvent

\* onGlobalFailed(), onGlobalActive().
GlobalEvent ==
  /\ clock < MaxEvents
  /\ clock' = clock + 1
  /\ Push([n |-> pushes + 1, at |-> clock + 1, source |-> "global"])
  /\ UNCHANGED <<awaiting, subscribed, browser, bounds>>

\* onGlobalCompleted() up to its await ...
GlobalCompleted ==
  /\ clock < MaxEvents
  /\ clock' = clock + 1
  /\ awaiting' = awaiting \cup {clock + 1}
  /\ UNCHANGED <<buffer, subscribed, wire, browser, pushes, bounds>>

\* ... and after it.  Answers arrive in any order.
GlobalResolved(at) ==
  /\ at \in awaiting
  /\ awaiting' = awaiting \ {at}
  /\ Push([n |-> pushes + 1, at |-> at, source |-> "completed"])
  /\ UNCHANGED <<subscribed, browser, clock, bounds>>

\* The job could not be looked up: the listener throws, nothing is pushed.
GlobalUnresolved(at) ==
  /\ at \in awaiting
  /\ awaiting' = awaiting \ {at}
  /\ UNCHANGED <<buffer, subscribed, wire, browser, clock, pushes, bounds>>

-----------------------------------------------------------------------------
(* The stream *)

\* The dashboard mounts the hook with an empty list.
Mount ==
  /\ page = "away"
  /\ page' = "connecting"
  /\ entries' = <<>>
  /\ UNCHANGED <<server, subscribed, wire, received, clock, pushes, bounds>>

\* Navigating away closes the source.
Unmount ==
  /\ page # "away"
  /\ page' = "away"
  /\ drops < MaxDrops
  /\ drops' = drops + 1
  /\ subscribed' = FALSE
  /\ wire' = <<>>
  /\ received' = 0
  /\ UNCHANGED <<server, entries, clock, pushes, restarts>>

\* Seeded faults: no replay; the live part is subscribed to first, so that an
\* entry pushed meanwhile is replayed as well.
ConnectLiveOnly ==
  /\ page \in {"connecting", "error"}
  /\ ~ subscribed
  /\ subscribed' = TRUE
  /\ wire' = <<>>
  /\ page' = "open"
  /\ received' = 0
  /\ UNCHANGED <<server, entries, clock, pushes, bounds>>
ConnectOverlapping ==
  /\ page \in {"connecting", "error"}
  /\ ~ subscribed
  /\ subscribed' = TRUE
  /\ wire' = IF buffer = <<>> THEN <<>> ELSE Append(Recent(ReplayCount), buffer[Len(buffer)])
  /\ page' = "open"
  /\ received' = 0
  /\ UNCHANGED <<server, entries, clock, pushes, bounds>>

\* Seeded fault: no reconnection after an error.
ConnectOnce ==
  /\ page = "connecting"
  /\ ~ subscribed
  /\ subscribed' = TRUE
  /\ wire' = Recent(ReplayCount)
  /\ page' = "open"
  /\ received' = 0
  /\ UNCHANGED <<server, entries, clock, pushes, bounds>>

\* GET /events/stream: the replay is emitted and the live part subscribed to
\* in one turn; the hook's list is kept.
Connect ==
  /\ page \in {"connecting", "error"}
  /\ ~ subscribed
  /\ subscribed' = TRUE
  /\ wire' = Recent(ReplayCount)
  /\ page' = "open"
  /\ received' = 0
  /\ UNCHANGED <<server, entries, clock, pushes, bounds>>

\* handleMessage(): prepend, keep the first ListCapacity.
Receive ==
  /\ page = "open"
  /\ wire # <<>>
  /\ entries' = LET grown == <<Head(wire)>> \o entries
                IN  SubSeq(grown, 1, IF Len(grown) > ListCapacity
                                     THEN ListCapacity ELSE Len(grown))
  /\ wire' = Tail(wire)
  /\ received' = received + 1
  /\ UNCHANGED <<server, subscribed, page, clock, pushes, bounds>>

\* The connection breaks; what it carried is lost.
Break ==
  /\ subscribed' = FALSE
  /\ wire' = <<>>
  /\ page' = IF page = "open" THEN "error" ELSE page
  /\ received' = 0
  /\ UNCHANGED <<entries, clock, pushes>>

Drop ==
  /\ subscribed
  /\ drops < MaxDrops
  /\ drops' = drops + 1
  /\ Break
  /\ UNCHANGED <<server, restarts>>

\* The API restarts: the feed is lost, and so are the awaited entries.
Restart ==
  /\ restarts < MaxRestarts
  /\ restarts' = restarts + 1
  /\ buffer' = <<>>
  /\ awaiting' = {}
  /\ Break
  /\ UNCHANGED drops

-----------------------------------------------------------------------------

Next ==
  \/ MailEvent \/ StallEvent
  \/ GlobalEvent
  \/ GlobalCompleted
  \/ \E at \in 1 .. MaxEvents : GlobalResolved(at)
  \/ \E at \in 1 .. MaxEvents : GlobalUnresolved(at)
  \/ Mount
  \/ Unmount
  \/ Connect
  \/ Receive
  \/ Drop
  \/ Restart

\* The browser reconnects and reads by itself, a getJob is answered one way or
\* the other; nothing obliges a page to be opened, an event to happen or a
\* connection to break.
Fairness ==
  /\ WF_vars(Connect)
  /\ WF_vars(Receive)
  /\ \A at \in 1 .. MaxEvents : WF_vars(GlobalResolved(at) \/ GlobalUnresolved(at))

Spec     == Init /\ [][Next]_vars
FairSpec == Spec /\ Fairness

-----------------------------------------------------------------------------
(* Properties *)

\* The chip of the Events page.
StatusLabel == CASE page = "connecting" -> "connecting..."
                 [] page = "open"       -> "live"
                 [] page = "error"      -> "disconnected"
                 [] OTHER               -> "no page"

SmallerOf(a, b) == IF a < b THEN a ELSE b
NewestFirstOf(seq) == [i \in DOMAIN seq |-> seq[Len(seq) + 1 - i]]

\* Replay and live part join without a gap: with everything received, the top
\* of the page is the newest of the feed, at least as many as a replay gives,
\* whatever was lost with earlier connections.
PageShowsFeed ==
  StatusLabel = "live" /\ wire = <<>> =>
    LET shown == SmallerOf(SmallerOf(ReplayCount, Len(buffer)), ListCapacity)
    IN  /\ Len(entries) >= shown
        /\ SubSeq(entries, 1, shown) = SubSeq(NewestFirstOf(buffer), 1, shown)

\* ... and without an overlap: what one connection delivers, and what it has
\* in flight, is consecutive in the push order, each entry once.
ConnectionDeliversOnce ==
  LET seen == SubSeq(entries, 1, SmallerOf(received, Len(entries)))
      all  == NewestFirstOf(wire) \o seen
  IN  \A i \in 1 .. Len(all) - 1 : all[i].n = all[i + 1].n + 1

\* The entries' stamps run with the feed's order, but for the global completed
\* entries, which may be late: nothing else overtakes.
OnlyGlobalEntriesAreLate ==
  \A i, k \in DOMAIN buffer :
    i < k /\ buffer[i].at > buffer[k].at => buffer[k].source = "completed"

\* A page left open recovers from every lost connection and restart: in the
\* end it says "live", with no entry in flight or still awaited, and then
\* PageShowsFeed says what it shows.
PageCatchesUp ==
  <>[](page = "away" \/ (StatusLabel = "live" /\ wire = <<>> /\ awaiting = {}))

=============================================================================
