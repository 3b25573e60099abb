----------------------------- MODULE MailLedger -----------------------------
(***************************************************************************)
(* What the email processor promises about receipts, without its queue,    *)
(* its slots and its marker map: a receipt is mailed again only after the  *)
(* processor has forgotten it, and is reported delivered at most once, by  *)
(* a mail that went out.  EmailReceipts is shown to implement it.          *)
(***************************************************************************)
EXTENDS Naturals

CONSTANT Receipts

VARIABLES
  mailed,     \* mails sent for the receipt
  forgotten,  \* how often the memory of the receipt was lost
  reported    \* the mail a completed receipt returned, 0 for none yet

vars == <<mailed, forgotten, reported>>

Init ==
  /\ mailed    = [r \in Receipts |-> 0]
  /\ forgotten = [r \in Receipts |-> 0]
  /\ reported  = [r \in Receipts |-> 0]

Forget(rs) ==
  forgotten' = [r \in Receipts |-> IF r \in rs THEN forgotten[r] + 1 ELSE forgotten[r]]

\* Mailing a receipt, and remembering it, may push out the memory of another.
Mail(r) ==
  /\ mailed[r] <= forgotten[r]
  /\ mailed' = [mailed EXCEPT ![r] = @ + 1]
  /\ UNCHANGED forgotten \/ \E other \in Receipts \ {r} : Forget({other})
  /\ UNCHANGED reported

Report(r) ==
  /\ reported[r] = 0
  /\ \E mail \in 1 .. mailed[r] : reported' = [reported EXCEPT ![r] = mail]
  /\ UNCHANGED <<mailed, forgotten>>

ForgetAll == Forget(Receipts) /\ UNCHANGED <<mailed, reported>>

Next == ForgetAll \/ \E r \in Receipts : Mail(r) \/ Report(r)

Spec == Init /\ [][Next]_vars

=============================================================================
