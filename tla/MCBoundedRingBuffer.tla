------------------------ MODULE MCBoundedRingBuffer ------------------------
(* BoundedRingBuffer over a small alphabet, long enough to wrap twice. *)
EXTENDS BoundedRingBuffer

=============================================================================
