------------------------------ MODULE Finalize ------------------------------
(***************************************************************************)
(* POST /v1/invoices/finalize: compute the bill, draw a number, push the   *)
(* bill to Stripe line by line, save it, open its recovery record.  Every  *)
(* call makes an invoice id of its own, and the id is the base of every    *)
(* idempotency key of the push, so the calls of two requests never share a *)
(* key: a request that is tried again starts from nothing.                 *)
(*                                                                         *)
(* All requests here are of one customer.  The rail is external, modelled  *)
(* from how stripe.go uses it: an invoice item waits as "pending" on the   *)
(* customer, and an invoice is created "over the pending items".  The bill *)
(* of a request is its lines with a non-zero amount, numbered.             *)
(***************************************************************************)
EXTENDS Integers, FiniteSets

CONSTANTS
    Requests,      \* finalize calls; the invoice id of a call is the call
    Agents,        \* those through the finalize_invoice tool: nothing pushed
    Lines,         \* lines of each bill with a non-zero amount
    OneAtATime,    \* a call is only made when the one before has ended
    MaxFaults      \* bound: errors and restarts in all

ASSUME FinalizeAssumption ==
    /\ Agents \subseteq Requests
    /\ Lines \in Nat \ {0}
    /\ OneAtATime \in BOOLEAN
    /\ MaxFaults \in Nat

VARIABLES
    pc,           \* pc[r]: what the handler of r does next, or how it ended
    posted,       \* posted[r]: the lines pushed so far
    number,       \* number[r]: the invoice number drawn, 0 for none
    status,       \* status[r]: inv.Status, the one the push answered in the end
    sequence,     \* the last number handed out
    pending,      \* the customer's items on the rail that no invoice has yet
    rail,         \* rail[r]: the rail invoice created for r
    invoices,     \* invoices[r]: the status saved for r, "none" if not saved
    opened,       \* the requests whose recovery record was written
    faults

handler == <<pc, posted, number, status>>
vars    == <<handler, sequence, pending, rail, invoices, opened, faults>>

Steps == {"number", "items", "invoice", "finalize", "save", "open"}
Ends  == {"done", "failed", "lost"}

Item == [inv : Requests, line : 1..Lines]

Bill(r) == {[inv |-> r, line |-> n] : n \in 1..Lines}

RailInvoice == [items : SUBSET Item, status : {"none", "draft", "open", "paid"}]

Init ==
    /\ pc = [r \in Requests |-> "idle"]
    /\ posted = [r \in Requests |-> 0]
    /\ number = [r \in Requests |-> 0]
    /\ status = [r \in Requests |-> "finalized"]
    /\ sequence = 0
    /\ pending = {}
    /\ rail = [r \in Requests |-> [items |-> {}, status |-> "none"]]
    /\ invoices = [r \in Requests |-> "none"]
    /\ opened = {}
    /\ faults = 0

Fault == faults < MaxFaults /\ faults' = faults + 1

Goto(r, step) == pc' = [pc EXCEPT ![r] = step]

\* The tool saves the bill it has computed and numbered and does no more.
AfterNumber(r) == IF r \in Agents THEN "save" ELSE "items"

-----------------------------------------------------------------------------
\* Deliberate slips of the operators that follow them; nothing else uses them.

DrawNumberByCounting(r) ==   \* the number of saved invoices plus one
    /\ pc[r] = "number"
    /\ number' = [number EXCEPT ![r] =
                    Cardinality({q \in Requests : invoices[q] # "none"}) + 1]
    /\ sequence' = sequence + 1
    /\ Goto(r, AfterNumber(r))
    /\ UNCHANGED <<posted, status, pending, rail, invoices, opened, faults>>

PostItemOneMore(r) ==   \* the loop runs past the last line
    /\ pc[r] = "items"
    /\ pending' = pending \cup {[inv |-> r, line |-> posted[r] + 1]}
    /\ posted' = [posted EXCEPT ![r] = @ + 1]
    /\ Goto(r, IF posted[r] = Lines THEN "invoice" ELSE "items")
    /\ UNCHANGED <<number, status, sequence, rail, invoices, opened, faults>>

PostItemForgetsLast(r) ==   \* the loop ends one line early
    /\ pc[r] = "items"
    /\ pending' = IF posted[r] + 1 < Lines
                  THEN pending \cup {[inv |-> r, line |-> posted[r] + 1]} ELSE pending
    /\ posted' = [posted EXCEPT ![r] = @ + 1]
    /\ Goto(r, IF posted[r] + 1 = Lines THEN "invoice" ELSE "items")
    /\ UNCHANGED <<number, status, sequence, rail, invoices, opened, faults>>

CreateInvoiceExcludes(r) ==   \* an invoice that does not take the pending items
    /\ pc[r] = "invoice"
    /\ rail' = [rail EXCEPT ![r] = [items |-> {}, status |-> "draft"]]
    /\ Goto(r, "finalize")
    /\ UNCHANGED <<posted, number, status, sequence, pending, invoices, opened, faults>>

SaveBeforeFinalize(r) ==   \* the last call of the push left for later
    /\ pc[r] = "invoice"
    /\ rail' = [rail EXCEPT ![r] = [items |-> pending, status |-> "draft"]]
    /\ pending' = {}
    /\ status' = [status EXCEPT ![r] = "open"]
    /\ Goto(r, "save")
    /\ UNCHANGED <<posted, number, sequence, invoices, opened, faults>>

SaveOpensPaid(r) ==   \* the condition on the status dropped
    /\ pc[r] = "save"
    /\ invoices' = [invoices EXCEPT ![r] = status[r]]
    /\ Goto(r, IF r \notin Agents THEN "open" ELSE "done")
    /\ UNCHANGED <<posted, number, status, sequence, pending, rail, opened, faults>>

-----------------------------------------------------------------------------
(* The handler.  Reading the subscription and computing the bill change    *)
(* nothing.  An error in drawing the number is ignored.                    *)

Start(r) ==
    /\ pc[r] = "idle"
    /\ OneAtATime => \A q \in Requests : pc[q] \in Ends \cup {"idle"}
    /\ Goto(r, "number")
    /\ UNCHANGED <<posted, number, status, sequence, pending, rail, invoices, opened, faults>>

DrawNumber(r) ==
    /\ pc[r] = "number"
    /\ sequence' = sequence + 1
    /\ \/ number' = [number EXCEPT ![r] = sequence'] /\ UNCHANGED faults
       \/ Fault /\ UNCHANGED number
    /\ Goto(r, AfterNumber(r))
    /\ UNCHANGED <<posted, status, pending, rail, invoices, opened>>

PostItem(r) ==
    /\ pc[r] = "items"
    /\ pending' = pending \cup {[inv |-> r, line |-> posted[r] + 1]}
    /\ posted' = [posted EXCEPT ![r] = @ + 1]
    /\ Goto(r, IF posted[r] + 1 = Lines THEN "invoice" ELSE "items")
    /\ UNCHANGED <<number, status, sequence, rail, invoices, opened, faults>>

\* The rail creates the invoice: it takes what is pending on the customer.
Take(r) ==
    /\ rail' = [rail EXCEPT ![r] = [items |-> pending, status |-> "draft"]]
    /\ pending' = {}

CreateInvoice(r) ==
    /\ pc[r] = "invoice"
    /\ Take(r)
    /\ Goto(r, "finalize")
    /\ UNCHANGED <<posted, number, status, sequence, invoices, opened, faults>>

\* The status the rail answers: nothing left to pay, or open.
FinalStatus(r) == {"paid"} \cup (IF rail[r].items = {} THEN {} ELSE {"open"})

\* The rail refuses to finalize an invoice it has already finalized by itself.
FinalizeOnRail(r) ==
    /\ pc[r] = "finalize"
    /\ IF rail[r].status = "draft"
       THEN \E s \in FinalStatus(r) : /\ rail' = [rail EXCEPT ![r].status = s]
                                      /\ status' = [status EXCEPT ![r] = s]
                                      /\ Goto(r, "save")
       ELSE Goto(r, "failed") /\ UNCHANGED <<rail, status>>
    /\ UNCHANGED <<posted, number, sequence, pending, invoices, opened, faults>>

\* An error of one of the calls above, with or without its effect on the
\* rail: the handler answers 502 and leaves everything as it is.
PushFails(r) ==
    /\ pc[r] \in {"items", "invoice", "finalize"}
    /\ Fault
    /\ \/ UNCHANGED <<pending, rail>>
       \/ /\ pc[r] = "items"
          /\ pending' = pending \cup {[inv |-> r, line |-> posted[r] + 1]}
          /\ UNCHANGED rail
       \/ pc[r] = "invoice" /\ Take(r)
       \/ /\ pc[r] = "finalize" /\ rail[r].status = "draft"
          /\ \E s \in FinalStatus(r) : rail' = [rail EXCEPT ![r].status = s]
          /\ UNCHANGED pending
    /\ Goto(r, "failed")
    /\ UNCHANGED <<posted, number, status, sequence, invoices, opened>>

\* One transaction saves the invoice, its lines and its ledger.
Saved(r) == invoices' = [invoices EXCEPT ![r] = status[r]]

Save(r) ==
    /\ pc[r] = "save"
    /\ Saved(r)
    /\ Goto(r, IF r \notin Agents /\ status[r] # "paid" THEN "open" ELSE "done")
    /\ UNCHANGED <<posted, number, status, sequence, pending, rail, opened, faults>>

SaveFails(r) ==
    /\ pc[r] = "save"
    /\ Fault
    /\ Saved(r) \/ UNCHANGED invoices
    /\ Goto(r, "failed")
    /\ UNCHANGED <<posted, number, status, sequence, pending, rail, opened>>

\* The recovery record of a pushed, unpaid invoice; its error is ignored.
OpenCollection(r) ==
    /\ pc[r] = "open"
    /\ \/ opened' = opened \cup {r} /\ UNCHANGED faults
       \/ Fault /\ UNCHANGED opened
    /\ Goto(r, "done")
    /\ UNCHANGED <<posted, number, status, sequence, pending, rail, invoices>>

-----------------------------------------------------------------------------
\* The rail on its own: auto_advance finalizes a draft and collects.
RailAdvances(r) ==
    /\ rail[r].status \in {"draft", "open"}
    /\ \E s \in IF rail[r].status = "draft" THEN FinalStatus(r) ELSE {"paid"} :
          rail' = [rail EXCEPT ![r].status = s]
    /\ UNCHANGED <<handler, sequence, pending, invoices, opened, faults>>

Crash ==
    /\ Fault
    /\ pc' = [r \in Requests |-> IF pc[r] \in Steps THEN "lost" ELSE pc[r]]
    /\ UNCHANGED <<posted, number, status, sequence, pending, rail, invoices, opened>>

Next ==
    \/ \E r \in Requests :
          \/ Start(r) \/ DrawNumber(r) \/ PostItem(r) \/ CreateInvoice(r)
          \/ FinalizeOnRail(r) \/ PushFails(r) \/ Save(r) \/ SaveFails(r)
          \/ OpenCollection(r) \/ RailAdvances(r)
    \/ Crash

Spec == Init /\ [][Next]_vars
-----------------------------------------------------------------------------
TypeOK ==
    /\ pc \in [Requests -> Steps \cup Ends \cup {"idle"}]
    /\ posted \in [Requests -> 0..Lines]
    /\ number \in [Requests -> Nat]
    /\ status \in [Requests -> {"finalized", "open", "paid"}]
    /\ sequence \in Nat
    /\ pending \subseteq Item
    /\ rail \in [Requests -> RailInvoice]
    /\ invoices \in [Requests -> {"none", "finalized", "open", "paid"}]
    /\ opened \subseteq Requests
    /\ faults \in Nat

Pushed == {r \in Requests \ Agents : invoices[r] # "none"}

SavedIsFinal == \A r \in Pushed : rail[r].status \in {"open", "paid"}

UnsavedIsCutShort ==
    \A r \in Requests :
       rail[r].status # "none" /\ invoices[r] = "none"
          => pc[r] \in {"finalize", "save", "failed", "lost"}

\* phase2.go:84, "we never record a finalized invoice the processor doesn't
\* have": a pushed invoice that is saved was finalized on the rail first.  The
\* other way round, an invoice on the rail that is not saved is one of a call
\* under way, cut short or answered with an error, never of one that succeeded.
RailHasSaved == SavedIsFinal /\ UnsavedIsCutShort

\* Numbers drawn by overlapping requests, and around failed ones, are never
\* shared (store.go:51, "the next human-readable sequential invoice number").
NumbersDiffer ==
    \A q, r \in Requests : q # r /\ number[q] # 0 => number[q] # number[r]

\* Every line of a bill whose push went through is on some rail invoice, and
\* on one only: overlap and failure move a line but never lose or repeat it.
NothingUnbilled ==
    \A r \in Pushed : \A item \in Bill(r) :
       /\ item \notin pending
       /\ \E q \in Requests : /\ item \in rail[q].items
                              /\ \A p \in Requests \ {q} : item \notin rail[p].items

\* What waits on the customer belongs to a push under way or cut short: a
\* finished push never leaks into a later bill.
LeftoversOnly ==
    \A item \in pending : pc[item.inv] \in {"items", "invoice", "failed", "lost"}

\* Recovery is opened for exactly the bills that went out unpaid, unless
\* something failed (phase2.go:116-118).
OpenedForUnpaid ==
    /\ opened \subseteq {r \in Pushed : invoices[r] = "open"}
    /\ \A r \in Pushed : pc[r] = "done" /\ invoices[r] = "open" /\ faults = 0
                            => r \in opened

\* phase2.go:85, "a retry after a transient failure is safe", and stripe.go:162,
\* "so retries never duplicate": the rail bills what the saved invoice says.
RailBillsLedger == \A r \in Pushed : rail[r].items = Bill(r)
=============================================================================
