--------------------------- MODULE DependencyTree ---------------------------
(***************************************************************************)
(* What a tree of dependent jobs promises, without workers, attempts,      *)
(* stalls and bookkeeping: each job ends once; a job that waits becomes    *)
(* ready at the very moment its children allow it or doom it; and it       *)
(* completes only over children that allow it.  Fulfillment is shown to    *)
(* implement it.                                                           *)
(***************************************************************************)
CONSTANTS
  Jobs,  \* the jobs of the tree
  Kids   \* the children of each

VARIABLES
  phase,     \* "absent", "waits", "ready", "completed" or "failed"
  optional,  \* jobs that may fail without keeping their parent
  fatal      \* jobs that doom their parent when they fail

vars == <<phase, optional, fatal>>

Init ==
  /\ phase = [n \in Jobs |-> "absent"]
  /\ optional = {}
  /\ fatal = {}

\* The children of n allow it to run; one of them dooms it.
Allowed(ph, n) ==
  \A c \in Kids[n] : ph[c] = "completed" \/ (ph[c] = "failed" /\ c \in optional)
Doomed(ph, n) == \E c \in Kids[n] : ph[c] = "failed" /\ c \in fatal

Add ==
  /\ \A n \in Jobs : phase[n] = "absent"
  /\ phase' = [n \in Jobs |-> IF Kids[n] = {} THEN "ready" ELSE "waits"]
  /\ optional' \in SUBSET Jobs
  /\ fatal' \in SUBSET (Jobs \ optional')

\* n ends for good, and its parent is woken exactly if that decides it.
End(n, final) ==
  LET ended == [phase EXCEPT ![n] = final]
  IN  /\ phase[n] = "ready" /\ phase'[n] = final
      /\ final = "completed" => Allowed(phase, n)
      /\ phase' = [m \in Jobs |->
           IF phase[m] = "waits" /\ (Allowed(ended, m) \/ Doomed(ended, m))
           THEN "ready" ELSE ended[m]]
      /\ UNCHANGED <<optional, fatal>>

Next == Add \/ \E n \in Jobs, final \in {"completed", "failed"} : End(n, final)

Spec == Init /\ [][Next]_vars

=============================================================================
