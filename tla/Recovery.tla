------------------------------ MODULE Recovery ------------------------------
(***************************************************************************)
(* What failed-payment recovery promises about one invoice, whoever drives *)
(* it: the record opens once, an attempt counts once and is judged against *)
(* the retry budget, a challenge only pauses, and a verdict is final.      *)
(* Module Collections refines it when handlers do not overlap.             *)
(***************************************************************************)
EXTENDS Integers

CONSTANTS Invoices, Retries

VARIABLES
    status,   \* status[i]: "none" before the record exists
    tries     \* tries[i]: outcomes counted so far

vars == <<status, tries>>

Final == {"paid", "uncollectible"}

Init ==
    /\ status = [i \in Invoices |-> "none"]
    /\ tries = [i \in Invoices |-> 0]

Open(i) ==
    /\ status[i] = "none"
    /\ status' = [status EXCEPT ![i] = "scheduled"]
    /\ UNCHANGED tries

\* One outcome is counted.  A soft failure is forgiven while the budget
\* lasts and writes the invoice off after that, never before.
Attempt(i) ==
    /\ status[i] \notin Final \cup {"none"}
    /\ tries' = [tries EXCEPT ![i] = @ + 1]
    /\ \E verdict \in {"paid", "requires_action",
                       IF tries'[i] > Retries THEN "uncollectible" ELSE "retrying"} :
          status' = [status EXCEPT ![i] = verdict]

\* The bank wants the customer: recovery waits, nothing is counted.
Pause(i) ==
    /\ status[i] \notin Final \cup {"none"}
    /\ status' = [status EXCEPT ![i] = "requires_action"]
    /\ UNCHANGED tries

Next == \E i \in Invoices : Open(i) \/ Attempt(i) \/ Pause(i)

Spec == Init /\ [][Next]_vars
=============================================================================
