----------------------------- MODULE BoundedLog -----------------------------
(***************************************************************************)
(* What every in-memory trail of the API promises: the newest Capacity     *)
(* entries, oldest first, and nothing else.  The services that keep a      *)
(* plain array (AuditTrail, WebhookLog, MailerStub, EventFeed) implement   *)
(* it literally, with a push followed by a shift on overflow; the ones     *)
(* built on BoundedRingBuffer implement it with an overwriting head index  *)
(* (module BoundedRingBuffer, which is shown to refine this one).          *)
(***************************************************************************)
EXTENDS Naturals, Sequences

CONSTANTS
  Entry,      \* what can be appended
  Capacity    \* the retention limit of the log, at least 1

VARIABLE entries

\* The array after push() and the shift() that follows an overflow.
Bounded(seq) == IF Len(seq) > Capacity THEN Tail(seq) ELSE seq

Init == entries = <<>>

Record(e) == entries' = Bounded(Append(entries, e))

Next == \E e \in Entry : Record(e)

Spec == Init /\ [][Next]_entries

=============================================================================
