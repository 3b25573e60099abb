----------------------------- MODULE MCSchedulers -----------------------------
EXTENDS Schedulers

\* One boot scheduler on each queue, and an operator's own beside the heartbeat.
IdQueue == [i \in {"nightly", "heartbeat", "own"} |->
              IF i = "nightly" THEN "maintenance" ELSE "monitoring"]
=============================================================================
