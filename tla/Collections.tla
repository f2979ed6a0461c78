----------------------------- MODULE Collections -----------------------------
(***************************************************************************)
(* Concurrent collection of finalized invoices: finalize opens a record,   *)
(* the scheduler, POST /v1/dunning/run, POST .../collect and the agent     *)
(* tools charge the rail and fold the outcome into the record, and the     *)
(* rail's webhooks fold outcomes into the same record.                     *)
(*                                                                         *)
(* Every handler reads the record, talks to the rail or computes, and      *)
(* writes the record it read back with PutCollection, which checks nothing:*)
(* the copy is stale by whatever happened in between.  A worker is one     *)
(* handler goroutine at a time; the store is the Postgres one, so it       *)
(* survives a crash.  `now' is sampled in the step that writes.            *)
(***************************************************************************)
EXTENDS Dunning

CONSTANTS
    Invoices,            \* invoices pushed to the rail and still unpaid then
    Workers,             \* handler goroutines
    Agents,              \* the workers serving MCP tools: they send no webhook
    PayAgainSucceeds,    \* the rail answers a pay of a paid invoice with success
    MaxTime,             \* bound: the clock stops here, or at the last retry ahead
    MaxDeclines,         \* bound: declines and pending payments of each invoice,
                         \* after which cards work
    MaxFaults            \* bound: faults, crashes, duplicate deliveries in all

ASSUME CollectionsAssumption ==
    /\ Agents \subseteq Workers
    /\ PayAgainSucceeds \in BOOLEAN
    /\ MaxTime \in Nat /\ MaxFaults \in Nat
    /\ MaxDeclines \in [Invoices -> Nat]

VARIABLES
    collections,  \* the collections table
    opening,      \* invoices whose finalize handler has yet to write the record
    todo,         \* todo[w]: invoices the handler on w still has to process
    copy,         \* copy[w][i]: the record the handler on w read for i
    outcome,      \* outcome[w]: the answer it is about to fold in ({} or one)
    paid,         \* the invoices the rail holds as paid
    declines,     \* declines[i]: charges of i the rail has declined
    pending,      \* pending[i]: charges of i answered 2xx with i still open
    unread,       \* open invoices of which a 2xx came without a usable body
    inbox,        \* webhooks the rail has sent and smolbill has not taken
    told,         \* told[i]: the outbound webhooks sent about i
    now,
    faults        \* how much of MaxFaults is used up

store  == <<collections, opening>>
worker == <<todo, copy, outcome>>
rail   == <<paid, declines, pending, unread, inbox>>
vars   == <<store, worker, rail, told, now, faults>>

Outcome == [inv : Invoices, kind : {"paid", "failed", "action_required"},
            reason : Reasons]

Paid(i)          == [inv |-> i, kind |-> "paid", reason |-> NoReason]
Failed(i, r)     == [inv |-> i, kind |-> "failed", reason |-> r]
Challenge(i)     == [inv |-> i, kind |-> "action_required", reason |-> NoReason]

Notices == {"invoice.paid", "invoice.recovered", "invoice.payment_failed",
            "invoice.action_required", "invoice.uncollectible"}

NoCopy == [i \in Invoices |-> Absent]

Idle(w) == todo[w] = {} /\ outcome[w] = {}

Init ==
    /\ collections = [i \in Invoices |-> Absent]
    /\ opening = Invoices
    /\ todo = [w \in Workers |-> {}]
    /\ copy = [w \in Workers |-> NoCopy]
    /\ outcome = [w \in Workers |-> {}]
    /\ paid = {}
    /\ declines = [i \in Invoices |-> 0]
    /\ pending = [i \in Invoices |-> 0]
    /\ unread = {}
    /\ inbox = {}
    /\ told = [i \in Invoices |-> {}]
    /\ now = 1
    /\ faults = 0

Fault == faults < MaxFaults /\ faults' = faults + 1

-----------------------------------------------------------------------------
(* Deliberate slips of the operators that follow them, to see that the      *)
(* properties notice; nothing else refers to them.                         *)

FoldKeepsEventName(c, e) ==   \* the rail's word stored as the status
    IF e.kind = "action_required"
    THEN [c EXCEPT !.status = e.kind, !.next = NoTime]
    ELSE RecordAttempt(c, e.kind = "paid", e.reason, now)

FoldChallengeAsAttempt(c, e) == RecordAttempt(c, e.kind # "failed", e.reason, now)

FinishKeepsItem(w, i) ==   \* the sweep forgets to move on to the next item
    /\ outcome' = [outcome EXCEPT ![w] = {}]
    /\ UNCHANGED <<todo, copy>>

OpenTwice(i) ==   \* the opening write is retried after it succeeded
    /\ i \in opening
    /\ collections' = [collections EXCEPT ![i] = New]
    /\ UNCHANGED <<opening, worker, rail, told, now, faults>>

NoticeIgnoringOutcome(prev, c) ==   \* one branch of the switch missing
    IF c.status = "paid" THEN {"invoice.recovered"} ELSE {"invoice.payment_failed"}

CollectTerminalToo(w, i) ==   \* the early return on a terminal record dropped
    /\ Idle(w)
    /\ collections[i].status # "none"
    /\ todo' = [todo EXCEPT ![w] = {i}]
    /\ copy' = [copy EXCEPT ![w][i] = collections[i]]
    /\ UNCHANGED <<store, outcome, rail, told, now, faults>>

ReceiveTerminalToo(w, e) ==   \* the early return on a terminal record dropped
    /\ w \notin Agents
    /\ Idle(w)
    /\ e \in inbox
    /\ inbox' = inbox \ {e}
    /\ collections[e.inv].status # "none"
    /\ copy' = [copy EXCEPT ![w][e.inv] = collections[e.inv]]
    /\ outcome' = [outcome EXCEPT ![w] = {e}]
    /\ UNCHANGED <<store, todo, paid, declines, pending, unread, told, now, faults>>

-----------------------------------------------------------------------------
(* Finalize's tail: the record is written after the invoice is on the rail *)
(* and saved; an error of that write is ignored and the record never is.   *)

OpenCollection(i) ==
    /\ i \in opening
    /\ collections' = [collections EXCEPT ![i] = New]
    /\ opening' = opening \ {i}
    /\ UNCHANGED <<worker, rail, told, now, faults>>

OpenFails(i) ==
    /\ i \in opening
    /\ Fault
    /\ opening' = opening \ {i}
    /\ UNCHANGED <<collections, worker, rail, told, now>>

-----------------------------------------------------------------------------
(* Handlers that will charge: the sweep over a snapshot of every due       *)
(* record, and the manual collect of one that is not terminal.             *)

CollectionsDue == {i \in Invoices : Due(collections[i], now)}

Sweep(w) ==
    /\ Idle(w)
    /\ CollectionsDue # {}
    /\ todo' = [todo EXCEPT ![w] = CollectionsDue]
    /\ copy' = [copy EXCEPT ![w] =
                  [i \in Invoices |-> IF i \in CollectionsDue THEN collections[i]
                                                              ELSE Absent]]
    /\ UNCHANGED <<store, outcome, rail, told, now, faults>>

Collect(w, i) ==
    /\ Idle(w)
    /\ collections[i].status # "none"
    /\ ~Terminal(collections[i].status)
    /\ todo' = [todo EXCEPT ![w] = {i}]
    /\ copy' = [copy EXCEPT ![w][i] = collections[i]]
    /\ UNCHANGED <<store, outcome, rail, told, now, faults>>

\* The handler is done with i, whatever came of it.
Finish(w, i) ==
    /\ todo' = [todo EXCEPT ![w] = @ \ {i}]
    /\ copy' = [copy EXCEPT ![w][i] = Absent]
    /\ outcome' = [outcome EXCEPT ![w] = {}]

Charging(w, i) == i \in todo[w] /\ outcome[w] = {}

\* The rail's side of a charge.  Each outcome is also sent as a webhook.  The
\* webhook of a decline carries the failure code, not the decline code of the
\* answer, so it may be one that Classify does not know.
RailPays(i) ==
    /\ paid' = paid \cup {i}
    /\ inbox' = inbox \cup {Paid(i)}
    /\ UNCHANGED <<declines, pending, unread>>

MayFail(i) == i \notin paid /\ declines[i] + pending[i] < MaxDeclines[i]

RailDeclines(i, r) ==
    /\ MayFail(i)
    /\ declines' = [declines EXCEPT ![i] = @ + 1]
    /\ \E code \in {r, NoReason} : inbox' = inbox \cup {Failed(i, code)}
    /\ UNCHANGED <<paid, pending, unread>>

ChargeSucceeds(w, i) ==
    /\ Charging(w, i)
    /\ i \notin paid
    /\ RailPays(i)
    /\ outcome' = [outcome EXCEPT ![w] = {Paid(i)}]
    /\ UNCHANGED <<store, todo, copy, told, now, faults>>

ChargeDeclined(w, i, r) ==
    /\ Charging(w, i)
    /\ RailDeclines(i, r)
    /\ outcome' = [outcome EXCEPT ![w] = {Failed(i, r)}]
    /\ UNCHANGED <<store, todo, copy, told, now, faults>>

\* A 2xx with another status than "paid": the payment is under way and the
\* invoice still open.  ChargeInvoice passes the status on, and whatever is
\* not "paid" is folded in as a failure without a code.  The rail settles the
\* payment later, by RailCollects or RailFails.
ChargePending(w, i) ==
    /\ Charging(w, i)
    /\ MayFail(i)
    /\ pending' = [pending EXCEPT ![i] = @ + 1]
    /\ outcome' = [outcome EXCEPT ![w] = {Failed(i, NoReason)}]
    /\ UNCHANGED <<store, todo, copy, paid, declines, unread, inbox, told, now, faults>>

\* A 2xx whose body is empty, cut off or not JSON: the errors of reading and
\* decoding it are dropped and the missing status becomes "paid", here of an
\* invoice the rail has left open.
ChargeUnread(w, i) ==
    /\ Charging(w, i)
    /\ i \notin paid
    /\ Fault
    /\ unread' = unread \cup {i}
    /\ outcome' = [outcome EXCEPT ![w] = {Paid(i)}]
    /\ UNCHANGED <<store, todo, copy, paid, declines, pending, inbox, told, now>>

\* A pay of an invoice that is paid already: success again, or an API error,
\* which is not a decline and leaves the record as it is.
ChargePaidAgain(w, i) ==
    /\ Charging(w, i)
    /\ i \in paid
    /\ IF PayAgainSucceeds
       THEN /\ outcome' = [outcome EXCEPT ![w] = {Paid(i)}]
            /\ UNCHANGED <<todo, copy>>
       ELSE Finish(w, i)
    /\ UNCHANGED <<store, rail, told, now, faults>>

\* No answer, or an error that is not a decline (network, timeout, 5xx, auth):
\* the charge may or may not have happened at the rail.
ChargeFaults(w, i) ==
    /\ Charging(w, i)
    /\ Fault
    /\ \/ UNCHANGED rail
       \/ i \notin paid /\ RailPays(i)
       \/ \E r \in Reasons : RailDeclines(i, r)
    /\ Finish(w, i)
    /\ UNCHANGED <<store, told, now>>

-----------------------------------------------------------------------------
(* Folding an outcome into the record that was read, and saying so.        *)

\* The bank wants the customer: recovery waits and nothing is counted.
Pause(c) == [status |-> "requires_action", attempts |-> c.attempts,
             first |-> c.first, next |-> NoTime, reason |-> c.reason]

Fold(c, e) ==
    IF e.kind = "action_required"
    THEN Pause(c)
    ELSE RecordAttempt(c, e.kind = "paid", e.reason, now)

Notice(prev, c) ==
    CASE c.status = "paid" ->
           IF c.attempts > 1 \/ prev \in {"retrying", "requires_action"}
           THEN {"invoice.recovered"} ELSE {"invoice.paid"}
      [] c.status = "retrying"        -> {"invoice.payment_failed"}
      [] c.status = "requires_action" -> {"invoice.action_required"}
      [] c.status = "uncollectible"   -> {"invoice.uncollectible"}
      [] OTHER                        -> {}

\* An attempt made by a tool is reported to the agent and to nobody else.
Tells(w) == w \notin Agents

Record(w) ==
    \E e \in outcome[w] :
       LET i == e.inv
           c == Fold(copy[w][i], e)
       IN  /\ collections' = [collections EXCEPT ![i] = c]
           /\ told' = IF Tells(w)
                      THEN [told EXCEPT ![i] = @ \cup Notice(copy[w][i].status, c)]
                      ELSE told
           /\ Finish(w, i)
           /\ UNCHANGED <<opening, rail, now, faults>>

\* PutCollection returns an error: the outcome is not recorded anywhere.
RecordFails(w) ==
    /\ Fault
    /\ \E e \in outcome[w] : Finish(w, e.inv)
    /\ UNCHANGED <<store, rail, told, now>>

-----------------------------------------------------------------------------
(* Inbound webhooks: at least once, in any order.  A delivery for a record *)
(* that is missing or terminal is acknowledged and dropped.                *)

Deliver(e) ==
    /\ e \in inbox
    /\ \/ inbox' = inbox \ {e} /\ UNCHANGED faults
       \/ Fault /\ UNCHANGED inbox       \* the rail will deliver it again

Receive(w, e) ==
    /\ w \notin Agents
    /\ Idle(w)
    /\ Deliver(e)
    /\ LET c == collections[e.inv]
       IN  IF c.status = "none" \/ Terminal(c.status)
           THEN UNCHANGED worker
           ELSE /\ copy' = [copy EXCEPT ![w][e.inv] = c]
                /\ outcome' = [outcome EXCEPT ![w] = {e}]
                /\ UNCHANGED todo
    /\ UNCHANGED <<store, paid, declines, pending, unread, told, now>>

-----------------------------------------------------------------------------
(* The rail on its own (automatic collection, the hosted payment page, a   *)
(* challenge sent to the customer), the clock, and a restart of the server.*)

RailCollects(i) ==
    /\ i \notin paid
    /\ RailPays(i)
    /\ UNCHANGED <<store, worker, told, now, faults>>

RailFails(i, r) ==
    /\ RailDeclines(i, r)
    /\ UNCHANGED <<store, worker, told, now, faults>>

RailChallenges(i) ==
    /\ MayFail(i)
    /\ declines' = [declines EXCEPT ![i] = @ + 1]
    /\ inbox' = inbox \cup {Challenge(i)}
    /\ UNCHANGED <<store, worker, paid, pending, unread, told, now, faults>>

\* The clock runs past MaxTime only as far as a retry that is still ahead.
Tick ==
    /\ now < MaxTime \/ \E i \in Invoices : collections[i].next > now
    /\ now' = now + 1
    /\ UNCHANGED <<store, worker, rail, told, faults>>

Crash ==
    /\ Fault
    /\ opening' = {}
    /\ todo' = [w \in Workers |-> {}]
    /\ copy' = [w \in Workers |-> NoCopy]
    /\ outcome' = [w \in Workers |-> {}]
    /\ UNCHANGED <<collections, rail, told, now>>

-----------------------------------------------------------------------------
Charge(w) ==
    \E i \in Invoices :
       \/ ChargeSucceeds(w, i)
       \/ \E r \in Reasons : ChargeDeclined(w, i, r)
       \/ ChargePending(w, i)
       \/ ChargePaidAgain(w, i)

Next ==
    \/ \E i \in Invoices : \/ OpenCollection(i) \/ OpenFails(i)
                           \/ RailCollects(i) \/ RailChallenges(i)
                           \/ \E r \in Reasons : RailFails(i, r)
    \/ \E w \in Workers :
          \/ Sweep(w) \/ Charge(w) \/ Record(w) \/ RecordFails(w)
          \/ \E i \in Invoices :
                Collect(w, i) \/ ChargeUnread(w, i) \/ ChargeFaults(w, i)
          \/ \E e \in inbox : Receive(w, e)
    \/ Tick
    \/ Crash

Spec == Init /\ [][Next]_vars

\* The scheduler's ticker goes on, and a handler that has started goes on to
\* its end; the rail's webhooks and the operator's requests are not promised.
Fairness ==
    /\ WF_now(Tick)
    /\ \A w \in Workers \ Agents : /\ WF_vars(Sweep(w))
                                   /\ WF_vars(Charge(w))
                                   /\ WF_vars(Record(w))
    /\ \A i \in Invoices : WF_vars(OpenCollection(i))

FairSpec == Spec /\ Fairness
-----------------------------------------------------------------------------
TypeOK ==
    /\ collections \in [Invoices -> Collection]
    /\ opening \subseteq Invoices
    /\ todo \in [Workers -> SUBSET Invoices]
    /\ copy \in [Workers -> [Invoices -> Collection]]
    /\ outcome \in [Workers -> SUBSET Outcome]
    /\ paid \subseteq Invoices
    /\ declines \in [Invoices -> Nat]
    /\ pending \in [Invoices -> Nat]
    /\ unread \subseteq Invoices
    /\ inbox \subseteq Outcome
    /\ told \in [Invoices -> SUBSET Notices]
    /\ now \in Nat \ {0}
    /\ faults \in Nat

(***************************************************************************)
(* Invariants, whatever overlaps.                                          *)
(***************************************************************************)

OnCadence(c) ==
    IF c.status = "retrying"
    THEN /\ c.attempts \in 1..Retries
         /\ c.first # NoTime
         /\ c.next = c.first + DefaultSchedule[c.attempts]
    ELSE c.next = NoTime

Exhausted(c) ==
    c.status = "uncollectible" =>
        /\ c.attempts > Retries
        /\ c.first # NoTime
        /\ Classify(c.reason) = "soft"

\* A record waits for a retry exactly at its first failure plus the delay the
\* schedule gives the attempts counted, and only while "retrying": neither a
\* stale write nor a manual collect ever moves a retry off the published
\* cadence (dunning.go, RecordAttempt).
RetryCadence == \A i \in Invoices : OnCadence(collections[i])

\* An invoice is written off only with more outcomes counted than there are
\* retries, and on a soft decline: a dead card or a challenge never writes
\* off revenue (dunning.go, RecordAttempt and Classify).
WriteOffExhausts == \A i \in Invoices : Exhausted(collections[i])

\* What the rail can have said of i: that it is paid, by holding it as paid or
\* by a 2xx nobody could read; that it is not, by a decline or an open invoice.
SaidPaid(i)   == i \in paid \/ i \in unread
SaidUnpaid(i) == declines[i] > 0 \/ pending[i] > 0

\* A record says "paid" only of an invoice the rail holds as paid, with one
\* exception, a 2xx that came without a usable body: never after a decline or
\* for a payment that is still under way, and however webhooks and other
\* answers were lost, repeated or reordered (phase8.go, applyProcessorEvent
\* and attemptCollection; stripe.go, ChargeInvoice).
PaidMeansPaid ==
    \A i \in Invoices : collections[i].status = "paid" => SaidPaid(i)

\* The unconditional write that opens a record never lands on one that has
\* already moved: until it happens no other handler can have written
\* (phase2.go, the PutCollection of finalizeInvoice).
OpensFirst == \A i \in opening : collections[i] = Absent

\* Subscribers are told what the rail has said: a payment that is announced is
\* one the rail holds, or one it answered 2xx to without a usable body; and a
\* failure, a challenge, a write-off or a recovery had a decline before it, or
\* an answer that left the invoice open (phase8.go, emitCollectionEvent).
NoticesAreTrue ==
    \A i \in Invoices :
       /\ told[i] \cap {"invoice.paid", "invoice.recovered"} # {} => SaidPaid(i)
       /\ told[i] \ {"invoice.paid"} # {} => SaidUnpaid(i)

\* The one way a final record changes: a handler that read it before the
\* verdict writes its stale copy back (phase8.go, the reads of applyProcessor-
\* Event, collectInvoice and RunDueDunning against their PutCollection).
StaleWrite ==
    \A i \in Invoices :
       (Terminal(collections[i].status) /\ collections'[i] # collections[i])
          => \E w \in Workers : /\ \E e \in outcome[w] : e.inv = i
                                /\ ~Terminal(copy[w][i].status)

OnlyStaleWriters == [][StaleWrite]_vars

(***************************************************************************)
(* Properties when no two handlers overlap (one worker).                   *)
(***************************************************************************)

\* Every copy a handler still has to act on is the record as stored.
FreshCopies ==
    \A w \in Workers, i \in Invoices :
       (i \in todo[w] \/ \E e \in outcome[w] : e.inv = i)
          => copy[w][i] = collections[i]

\* A verdict is final: dunning.go:107, "a status is final (paid or written
\* off) - no further attempts will ever be made".
TerminalIsFinal ==
    [][\A i \in Invoices :
          Terminal(collections[i].status) => collections'[i] = collections[i]]_vars

\* The origin of the whole cadence never moves once set, and the attempts
\* counted never go down.
FirstFailureSticks ==
    [][\A i \in Invoices :
          /\ collections'[i].attempts >= collections[i].attempts
          /\ collections[i].first # NoTime
                => collections'[i].first = collections[i].first]_vars

\* A subscriber hears one verdict about an invoice, never two that disagree.
Verdicts == {"invoice.paid", "invoice.recovered", "invoice.uncollectible"}

OneVerdict ==
    \A i \in Invoices : \A a, b \in told[i] \cap Verdicts : a = b

\* The record follows the life Recovery promises.
R == INSTANCE Recovery WITH
        status <- [i \in Invoices |-> collections[i].status],
        tries  <- [i \in Invoices |-> collections[i].attempts]

RecoveryRefined == R!Spec

\* A record that waits for a charge gets its verdict or is handed to the
\* customer: no retry is forgotten, through crashes, faults and lost answers.
Settles ==
    \A i \in Invoices :
       collections[i].status \in {"scheduled", "retrying"}
          ~> collections[i].status \in {"paid", "uncollectible", "requires_action"}

(***************************************************************************)
(* What the documentation says and the code does not do.                   *)
(***************************************************************************)

\* dunning.go:27, "every scheduled retry failed": an invoice is written off
\* only after the rail has declined it, or answered a charge of it with the
\* invoice still open, once per scheduled attempt.
WriteOffAfterAllRetries ==
    \A i \in Invoices :
       collections[i].status = "uncollectible"
          => declines[i] + pending[i] > Retries
=============================================================================
