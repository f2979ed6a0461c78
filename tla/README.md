# smolbill: formal models, checks and proofs

smolbill is a usage-based billing engine: it ingests usage events, rates them
into invoices, pushes invoices to a payment rail, recovers failed payments and
proves after the fact that meter and invoice agree. This directory holds TLA+
modules of its core, the TLC configurations that check them on small instances,
and TLAPS proofs, for every instance, of all the safety those runs check.

Run from this directory:

    tlc -workers 2 -config collections_race.cfg MCCollections.tla
    tlapm CollectionsProofs.tla     (and the other *Proofs modules, and Sums)

`PROJECT.json` lists components, runs, hazards, findings and, under `map`, the
source lines every definition stands for.

## The system

| part (under `src/`) | state | operations | talks to |
|---|---|---|---|
| dunning (`internal/dunning`) | none: a pure state machine over `State` | `RecordAttempt`, `Classify`, `Due`, `Terminal` | - |
| collections (`internal/api/phase8.go`) | the `collections` table | manual collect, due sweep (scheduler, `POST /v1/dunning/run`), webhook in, notices out | dunning, rail, store |
| finalize (`internal/api/phase2.go`) | `invoices`, `reconciliation_ledger`, the number sequence | `POST /v1/invoices/finalize`: compute, number, push, save, open recovery | engine, rail, store |
| ingest (`internal/ingest`, `internal/api/api.go`) | the `events` table with its unique key | `Accept`: seen-key check, append, answer | store, alerts |
| alerts (`internal/alerts`, `internal/api/phase3.go`) | `alerts.max_fired` | evaluation after every accepted event: read mark, rate, POST, store mark | engine, store, endpoint |
| rating (`internal/meter`, `pricing`, `invoice`, `money`) | none: pure | aggregate, price, prorate, tax, hash | - |
| engine (`internal/engine`) | none | `Compute`, `ComputeAsOf`, `SimulatePlanChange`, `Gate`, analytics | store, rating |
| reconcile, revrec | none: pure | compare a stored ledger with a live recompute; straight-line recognition | engine |
| wallet (`internal/api/wallet.go`, stores) | `wallets`, `wallet_transactions` | idempotent top-up | store |
| gate (`internal/engine/gate.go`, `entitlements.go`, `internal/api/gate.go`) | `entitlements` | grant, allow or deny a use or a cost | store, wallet |
| limiter (`internal/api/ratelimit.go`) | a token bucket per key | admit or refuse an ingest call | - |
| rails (`internal/payments/*`) | at the processor | push, fetch, charge; verify webhook (Stripe) | the processor |
| agent surface (`internal/mcp`) | armed flag and cap | the same operations as tools | all of the above |
| stores (`internal/store/memory`, `postgres`) | all tables | one lock, or one statement or transaction, per call | - |
| server (`cmd/smolbill`, `internal/api/api.go`) | rate buckets | scheduler ticker, routing, drain at stop | - |
| SDKs, site, dashboard | none | clients and pages | HTTP |

Parts meet in three ways. Handler goroutines of one process share the *store*
only, call by call: no handler holds a lock or a transaction over two calls. They
meet the *rail* through calls out (charge, push) and webhooks in, which tell the
same facts twice, late and in any order. And a *restart* drops every handler
between two calls, while store and rail keep what they have.

### What is hard, and what makes each part correct

- **Collections.** Every handler reads a record, waits (up to minutes, in a
  sweep over a snapshot) and writes its copy back unconditionally. Correct means:
  retries stay on the published cadence, a write-off is deserved, "paid" and the
  notices say no more than the rail has said, verdicts are final, no record is
  forgotten.
- **Finalize.** Four calls to Stripe, a save and a second save, with an error or a
  stop possible between any two, and a retry that shares no idempotency key with
  the call before. Correct means: nothing is saved that the rail lacks and
  nothing on the rail is unsaved but what was cut short, every line is billed exactly
  once, the rail bills what the ledger says, recovery opens for unpaid bills only.
- **Ingest.** Check and append are two calls, the window of the check is finite and
  the key of the store is for ever, and the clock is sampled before both. Correct
  means: one event per key, an answer the client may rely on, a past bill that
  does not change.
- **Alerts.** Read-rate-send-store by overlapping handlers, with an unconditional
  update of the mark. Correct means: no false alarm, no threshold silenced unsent,
  every reached threshold told, and told once.
- **Wallet.** A Postgres top-up is five statements at READ COMMITTED; two of them
  can meet on a missing row, on a key and on a row lock. Correct means: the balance
  is the sum of the ledger, a key credits once, a success is durable, a read shows
  all that was credited.
- **Gate.** Three reads at three moments, nothing reserved, usage metered later.
  Correct means: each verdict was true at some moment of the call, and what
  overlapping calls can overrun is bounded.
- **Rating and bills.** Tier edges, half-open periods, proration, rounding in minor
  units of different currencies. Correct means: the reference price, events counted
  once, nothing but rounding between a bill and the exact price.
- **Proof, simulation, recognition, verification.** Each recomputes or reads back
  and compares, by joins in maps, in an order or at a moment the writer did not fix.
  Correct means: what they say of the stored bill is so.

`PROJECT.json` lists each hazard at its line, with the properties that cover it.

## Modules

| module | models | stands on |
|---|---|---|
| `Dunning` | the pure state machine, as operators on the stored record | - |
| `Recovery` | abstract specification: the life of one recovery record | - |
| `Collections` | all handlers and the rail on the `collections` table | `Dunning`; refines `Recovery` |
| `CollectionsProofs` | theorems about `Collections` | `Collections`, `TLAPS` |
| `Ingest` | `Accept` and the store's append, call by call | - |
| `Alerts` | the evaluation inside the ingest handler | `Ingest` |
| `Finalize` | finalize and the Stripe push, call by call | - |
| `IngestProofs`, `AlertsProofs`, `FinalizeProofs` | theorems about these three | each on its module; alerts on ingest |
| `Wallet` | top-ups on both stores, statement by statement | - |
| `Gate` | entitlements, the gate, metering behind the limiter | `Wallet` |
| `Rating` | money, aggregation, price models, proration: operators | - |
| `Invoices` | bill, hash, ledger and proof, deltas, recognition: operators | `Rating` |
| `Rails` | what each adapter bills and reads back, which one is chosen | `Invoices` |
| `Billing` | catalogue, log, finalize, rail document, simulation as a state machine | `Rails` |
| `Sums` | theorems about sums over finite sets and folds | `TLAPS` |
| `GateProofs` | theorems about `Wallet` and `Gate` | `Gate`, `Sums` |
| `RatingProofs` | lemmas about the operators of `Rating` and `Invoices` | `Invoices`, `Sums` |
| `BillingProofs` | theorems about `Billing` | `Billing`, `RatingProofs` |
| `MCCollections`, `MCAlerts`, `MCGate`, `MCBilling` | values of constants TLC needs definitions for | the above |

### Dunning and Collections

A record is `[status, attempts, first, next, reason]`, the columns that decide
anything; status "none" is the absent row. Decline codes are members of `Reasons`
with their class given by `HardDeclines` and `AuthenticationRequired`: the rest
is soft, as in `Classify`. Times are naturals; zero is Go's zero time and SQL's
NULL, which `toState`, `applyState` and `nilIfZero` map to each other.

| action | code |
|---|---|
| `OpenCollection`, `OpenFails` | the `PutCollection` at the end of `finalizeInvoice`, whose error is dropped |
| `Sweep` | `RunDueDunning` and `runDunningTool` take their snapshot with `CollectionsDue` |
| `Collect` | `collectInvoice`, `collectInvoiceTool`: read, not found or terminal returns early |
| `ChargeSucceeds`, `ChargeDeclined`, `ChargePending`, `ChargeUnread`, `ChargePaidAgain`, `ChargeFaults` | the outcomes of `ChargeInvoice`, see below |
| `Record`, `RecordFails` | `RecordAttempt`, `PutCollection`, `emitCollectionEvent` |
| `Receive` | `processorWebhook` up to the read in `applyProcessorEvent`; `Record` is its rest |
| `RailCollects`, `RailFails`, `RailChallenges` | the rail by itself: external |
| `Tick`, `Crash` | the clock; a stop of the process, after which only the store and the rail remain |

A *worker* is one handler goroutine at a time. `todo`, `copy` and `outcome` are
its local variables: items left, records as read, answer in hand. Workers in
`Agents` serve tools: they call the same core, send no notice and take no
webhook; they are modelled armed, since unarmed ones change nothing. One step of
a handler is everything between two calls to store or rail, so every interleaving
of calls is a behaviour. The clock is read in the step that writes: the code
reads it just before the write. A notice belongs to the step that writes the
record; the goroutine that sends it may die, so `told` is what may have been
told, and the properties about it say what must *not* be told.

The webhook of a decline carries either the code of the answer or one that
`Classify` does not know, because `VerifyWebhook` reads other fields than
`ChargeInvoice` does (no `decline_code`).

`ChargeInvoice` believes a 2xx, and there are three kinds of them. `ChargeSucceeds` is
one with the payment made. `ChargePending` is one with the invoice still open, as for an
asynchronous payment: its status is not "paid", so it is folded as a failure without
a code and announced as one, though nothing was declined; the rail settles it later
(`RailCollects`, `RailFails`). `ChargeUnread` is one whose body is empty, cut off or not
JSON: both errors are dropped, the missing status becomes "paid", and the rail may hold
the invoice open. `ChargeDeclined` is the 402 of a card; `ChargeFaults` is every other
error, and no answer, after which the charge may or may not have been made and the
record is left alone. The ghosts `pending` and `unread` keep what the rail said in
this way, so that the properties can tell what a record or a notice rests on: `SaidPaid`
is a paid invoice or an unread 2xx, `SaidUnpaid` a decline or an open invoice.
`PaidMeansPaid` then says that the unread 2xx is the *only* way to a wrong "paid", and
`NoticesAreTrue` that nothing is announced the rail has not said, right or wrong.
`ChargeUnread` is a fault and counts as one; `ChargePending` is an answer like others.

What a paid-again charge answers is the constant `PayAgainSucceeds`; the
repository does not say. The race run takes the error, the serial run the
success: with the error and the webhook lost, a record whose payment was captured
stays due for ever, which `PROJECT.json` lists as a hazard.

### Ingest and Alerts

`log` is the events table, one row per `[key, call, when, at]`: which call wrote
it tells an event from the retry of it. `phase[c]` is the position of call `c` in
`ingestEvent`/`Accept`. `Appended` is `INSERT ... ON CONFLICT DO NOTHING` and the
memory store's `seenKeys`. Store errors may or may not have taken effect. A
retry of a client is another call with the same key.

`Alerts` adds the evaluation between the append and the answer, for calls that
came through the API: `ReadAlerts`, `Project`, `Notify`, `UpdateAlertFired` are
its four calls and `EvaluateFails`, `NotifyFails`, `UpdateFails` their errors.
The bill is the number of events in the period: any price that never goes down
with usage gives the same order of events. One alert in the bill's currency with
a positive budget; the handler treats several in turn. The mark is never reset when a
period ends, as in the code (see the findings), so one period is modelled.

### Finalize

`pc[r]` is the position of request `r` in `finalizeInvoice`, with one step per
call to the rail inside `PushInvoice`. The request is its invoice id, since each
call makes a new one. `pending` are the items that wait on the Stripe customer,
`rail[r]` the invoice created for `r`. Requests of the tool push nothing and open
nothing. That a created invoice takes *all* pending items of the customer follows
the code's own comment, "Invoice over the pending items" (`stripe.go:201`); the
client sends no `Stripe-Version`, so the account's default decides, and only
`RailBillsLedger` and `NothingUnbilled` depend on it. `auto_advance` lets the
rail finalize and collect by itself between any two steps.

### Wallet and Gate

A wallet row is `[id, customer, currency, balance]`, named by the call that made
it; a ledger row is `[key, wallet, amount]`. `step[c]` is how far the transaction of
top-up `c` is:

| action | code |
|---|---|
| `Arrive` | the handler or tool up to the store: an amount that is not positive is refused, an agent's is withheld unarmed or above the cap |
| `Find` | `SELECT ... FROM wallets`, then `INSERT` if there is none; another currency ends the call |
| `InsertTxn` | `INSERT ... ON CONFLICT DO NOTHING`: waits for an open holder of the key |
| `Credit` | `UPDATE wallets`: waits for an open holder of the row, and locks it |
| `Commit`, `CommitUnheard`, `RollBack` | commit, commit whose answer is lost, deferred rollback or restart |
| `TopUpMemory` | the memory store's `TopUpWallet` under its lock |

Locks are derived: a call *holds* a key or row while its transaction is past the
statement and open. `CONSTANT Stores` says which store a deployment has; both are
initial states of one run. `met` remembers pairs of calls that were in flight
together, so that `WholeBalance` can promise one row to customers whose top-ups did
not overlap, which is all the code gives.

`Gate` adds clients that ask, serve and meter: `ReadEntitlement`, `ReadUsage` and
`ReadBalance` are the three reads of `engine.Gate`, each at its own moment, and
`Record` is the ingest call behind `rateLimiter.allow`. Entitlements are appended,
never replaced; the memory store picks the oldest, Postgres, which orders by feature
only, any. An entitlement whose meter does not exist, or without a period, counts
nothing, as in `meteredUsage`. One feature and requests of one unit are modelled;
`meteredUsage` reads meters and events in two calls, of which only the second can
change the answer.

### Rating, Invoices, Rails, Billing

Amounts are integers in mills, thousandths of the major unit, so that the minor
units of JPY, USD and BHD are 1000, 10 and 1; decimals the code keeps to more places
are left out, and rounding happens exactly where the code calls `RoundDown`. A
fraction (proration, recognition) is a number of parts of `Scale`, rounded half up
as `DivRound` does; the code has 12 digits there, the model 5, enough for the
periods of the scenes. Amounts stay below TLC's 32-bit integers: 15 000 mills times
`Scale`. Hashes are the hashed content itself: equal hashes mean equal content.

Two operators are written so that they can be reasoned about. A tier's step of the
graduated price is a function of its own, `TierTakes`, of the loop's three variables;
that an empty step keeps `lower`, which the loop moves on, changes nothing, as nothing
is left then. The stable sort of the lines is `InOrder`: the line at place `k` is the
one with `k - 1` lines before it.

`Billing` puts these functions on state. `MeterCodes` are the codes events and prices
may carry. A *scene* is a record that says what a
deployment sells and what may be written: the run explores every order of its
writes, events, finalize, rail edits and simulation, under both stores.

| action | code |
|---|---|
| `CreateCustomer`, `CreateMeter`, `CreatePlan`, `CreateSubscription` | the API's writes; a meter is overwritten in place |
| `CreateMeterByAgent`, `AttachPlan`, `Quickstart` | the tools; quickstart may stop after any of its writes |
| `Ingest` | an event of the pool is in the log |
| `FinalizeComputes`, `FinalizeSaves` | the bill is computed, then pushed and saved; the catalogue may change in between |
| `RailEdits` | the processor adds a tax line, a credit, an edit: external |
| `SimulateReads`, `SimulateAnswers` | the two reads of `SimulatePlanChange` |

A bill is computed from one moment. The code reads plan, meters, events and tax rate
one after the other; plans and tax rates never change, events are only added, and
each is either in the bill or not, so only a meter that is overwritten in these
milliseconds could make a bill no moment has. Simulation and finalize, where the gap
matters, are two steps.

`ReadBack` is the order in which `GetLedger` returns rows: by random id under
Postgres. An adapter in `Rails` is the four facts that distinguish it; the document
it creates is external. `Select` chooses one from the credentials, those set only in
part included, which stop the process wherever they come first.

The models are of the Go code on a schema that has what its queries name. The schema
the server applies by itself has not (see the findings): on a fresh database every
Postgres `PutCustomer` fails, and with it everything after.

## Runs

| run | instance | what it shows |
|---|---|---|
| `collections_race` | 1 invoice, an API and an agent handler, 2 retries, soft and hard codes, 3 declines or open payments, 1 fault or unread answer | records are sound under any overlap, order, loss and repetition; only a stale copy undoes a verdict |
| `collections_serial` | 2 invoices, 1 handler, 1 retry, 1 fault, fair | without overlap verdicts are final, the record refines `Recovery` and always settles |
| `collections_final` | as the race, no fault | violation: `Terminal` is not final when handlers overlap |
| `collections_writeoff` | 1 invoice, 1 handler, 2 retries | violation: write-off with a scheduled retry never made |
| `usage_alerts` | 3 calls (2 with one key, one of these through the tool), 2 thresholds, 1 fault, fair | one event per key, durable answers, settled replays, no false, hidden or missing alarm |
| `ingest_accepted` | as above, no fault | violation: "accepted" with nothing recorded |
| `alerts_once` | as above, no fault | violation: a threshold POSTed twice |
| `finalize` | 2 API requests and 1 of the tool, 2 lines each, 2 faults | the save follows the rail and only a call cut short leaves it out, numbers differ, no line lost or billed twice |
| `finalize_retry` | 2 requests one after the other, 1 fault | violation: a retried push bills the leftover items too |
| `gate` | both stores, 2 top-ups of 7 kinds, 2 gated clients, 3 workloads, 1 fault | exact and idempotent credits, durable answers, true verdicts, bounded overrun, the limiter's bucket |
| `billing` | both stores, 8 scenes: tiers, aggregations, proration and currencies, finalize, rails, simulation, quickstart, a yearly plan | reference prices, bills that are the exact price but for rounding, honest proofs, fair simulation, recognition that adds up, honest verification |
| `verify_exact` | a plan in `jpy` on every rail | violation: the rail bills a hundred times the ledger and verify agrees |

Why the bounds are enough for what they show:

- *Retries*: two give a first, a last and an exhausted position; the offsets 1 and
  3 differ in their steps, so an offset counted from the wrong failure shows.
- *Declines*: `MaxDeclines`, a bound on declines and open payments together, is one
  more than the retries for the invoice that is to be written off; a decline counts
  twice through its webhook, so the write-off is reached with redelivery too. After
  the bound cards work: otherwise a run would be infinite.
- *Clock*: it runs to `MaxTime` and then only to a retry that is ahead, so every
  retry becomes due and the state space stays finite.
- *Faults*: `MaxFaults` counts errors, unread answers, restarts and redeliveries
  together. One at any point of any interleaving; the finalize run takes two, since
  its worst case is a failed retry of a failed push.
- *Workers*: the race needs two; what a third could add is a third stale copy, and
  the theorems cover any number.
- *Calls*: two retry one key, the third carries another event: the shortest history
  with a duplicate, a race and a second threshold.

- *Top-ups*: two calls suffice for every conflict of the code, which are between two
  transactions: a missing row, a key, a row lock; a third one was tried, too (three
  million states), and adds nothing. Their seven kinds are every branch of the
  handler and both stores.
- *Workloads*: wallet only, entitlements only, and both together, so that the usage
  and clock of the one do not multiply the other. Four events and two ticks empty
  and refill a bucket of two; limits of one and two are below and at the number of
  clients.
- *Scenes*: each has the smallest catalogue in which its hazard happens: events on,
  before and after both ends of the period; a quantity on, over and past each tier
  edge; subscriptions from before to after the period; two lines of one code; every
  rail in the registry, named or found.

`CHECK_DEADLOCK FALSE` everywhere: a system whose records are all settled, whose
requests are all served and whose clock is at its bound really stops.

### Fairness

`Collections!Fairness` is weak fairness of the clock (`time.NewTicker` goes on),
of `Sweep` (the scheduler of `main.go` runs at every tick), of the charge and
record steps of a handler that has started (goroutines are scheduled; the HTTP
client of the rail has a timeout, so a call ends) and of `OpenCollection`. Nothing
is assumed of webhooks, manual collects or the agent. `Alerts!AlertsFairSpec`
assumes only that a handler that has started goes on to its answer. The scheduler
is opt-in (`SMOLBILL_DUNNING_INTERVAL`): `Settles` is about a server that has it.

### Sensitivity

Every property of a passing run has a *slip*: an operator in the same module, in a
block of "deliberate slips", that changes a definition the way a plausible bug
would (the retry counted from this failure, the early return dropped, the save
before the finalize, ...). With the slip in place of the definition TLC finds the
property violated under the run's own configuration. `PROJECT.json` lists the
pairs under `mutants`.

## Findings

Each with its quotation in `PROJECT.json`.

1. A paid or written-off record is reopened by a handler that read it before
   (`collections_final`).
2. A decline counts twice, from the answer and from the webhook, and eats a
   scheduled retry (`collections_writeoff`).
3. An event can be answered `accepted` and not be stored (`ingest_accepted`).
4. A threshold can fire twice in a period (`alerts_once`).
5. A finalize that is tried again after a failed push double-bills on the rail
   (`finalize_retry`).
6. A currency in small letters has other minor units in the ledger than on the
   rail, and the verification compares the numbers only (`verify_exact`).
7. Read in the source, without a run:
   - collections: the webhook and the answer of one decline are classified by
     different codes; one `invoice.payment_failed` per failed retry; recovery opens
     on rails that cannot charge; `run_dunning` ignores the cap; a 2xx that leaves the
     invoice open is a failed attempt and announced as a failure, one that cannot be read
     is a payment;
   - usage: the usage tool evaluates no alert and reports a duplicate as an error;
     the alert mark is never reset; Postgres reads numbers back as floats;
   - wallet and gate: overlapping first top-ups split a wallet; an event that cannot
     be read makes the gate count zero; the gate compares amounts of two currencies;
   - bills: a prorated fee can be billed a minor unit more than its exact price rounds
     down to, as the fraction of the period is rounded half up first, to 12 digits. A
     plan of 645.97 a year with 25,288,067 seconds left is billed 517.99, the exact
     share being 517.98999999968. The excess is below 5e-13 of the fee, so the docs'
     "we always under-bill" is off by a hair; `BilledToRounding` says by how much;
   - stores: the schema the server applies lacks columns and a sequence its queries
     name, and `migrations/0001_init.sql` lacks others;
   - rails and catalogue: two rails fetch an order by the id of a checkout; the tools
     accept the reserved meter `tax`.

## Proofs

Every invariant and every action property of the passing runs is a theorem, for all
values of the constants that the named assumptions allow. Each of the six parts has
one inductive invariant, and its properties are read off it:

| module | invariant | properties |
|---|---|---|
| `CollectionsProofs` | `IInv` | `TypeOK`, `RetryCadence`, `WriteOffExhausts`, `PaidMeansPaid`, `OpensFirst`, `NoticesAreTrue`; action `OnlyStaleWriters` |
| `CollectionsProofs`, one handler | `SerialInv` | `FreshCopies`, `OneVerdict`; actions `TerminalIsFinal`, `FirstFailureSticks`; refinement `RecoveryRefined` |
| `IngestProofs` | `IngestInv` | `OneEventPerKey`, `AnswersAreDurable`; action `AsOfSettles` |
| `AlertsProofs` | `AlertsInv` | the above beside the evaluation, `AlertsTypeOK`, `NoFalseAlarm`, `MarkIsHonest` |
| `FinalizeProofs` | `FinalizeInv` | `TypeOK`, `RailHasSaved`, `NumbersDiffer`, `NothingUnbilled`, `LeftoversOnly`, `OpenedForUnpaid` |
| `GateProofs` | `GateInv` | `GateTypeOK`, `BalanceIsLedger`, `AnswersHold`, `WholeBalance`, `VerdictWasTrue`, `OverrunBounded`, `RateBounded`; action `CreditNeverShrinks` |
| `BillingProofs` | `BillingInv` | `BillingTypeOK`, `RatedRight`, `BilledToRounding`, `ProofIsRight`, `SimulationIsFair`, `RecognitionAddsUp`, `VerifyIsHonest` |

`CreditNeverShrinks`, that no step takes away what a customer was credited, is stated
in `GateProofs` only.

### Collections

`CollectionsProofs` proves, for every set of invoices, workers and agents, every
schedule of positive delays, every classification of codes and every bound, from
the named assumptions `DunningAssumption` and `CollectionsAssumption`, what the
table names.

None of these is inductive alone. `Record` writes a function of a *copy*, so what
the store says after it depends on what a handler read long ago and on an answer
it was given in between. The invariant `IInv` therefore says of copies what the
properties say of records:

- `RecordsAreSound`: stored records are on the cadence, exhausted if written off,
  paid only if the rail has said so, and missing while finalize has still to open them;
- `CopiesAreSound`: so is every copy in a handler's hands, and it is of an open record;
- `HeldIsCopied`: a handler only holds an item or an answer whose record it has read;
- `AnswersAreTrue`: an answer in hand, or a webhook in flight, says no more than the rail
  has said: "paid" of a paid invoice or one with an unread 2xx, and failed of one that
  was declined or left open. What was said is monotone (`Forward`), so an old answer
  stays true, which is why staleness is harmless to
  these properties and harmful only to finality.

`FoldSound` and `NoticeSound` say that folding a true answer into a sound copy
gives a sound record and a true notice; they carry the arithmetic. `QuietStep`,
`TakeStep`, `ReadStep` and `AnswerStep` treat steps by what they touch, with one
lemma per action under them, and `NextIInv` collects these. `OnlyStaleWritersUndo`
follows since only `Record` writes a record that exists, and it holds a copy
that was open.

The second half of the module takes the hypothesis `OneWorker`, that `Workers` has one
element at most. It is needed: with two, `collections_final` shows a verdict undone. It
is all that is assumed; errors, restarts, lost, late and repeated webhooks, sweeps over
a snapshot and stale answers remain. `SerialInv` adds to `IInv` that a held copy *is*
the stored record (`FreshCopies`) and that whoever heard a verdict can rely on it
(`VerdictsAreFinal`): `OneVerdict` is not inductive without it. The argument: a record
is written in two ways only (`Writes`), opened or folded by the one handler that holds
it; so the fold is of the stored record (`FoldsTheStored`), a handler never holds a
final one, and a fold counts upwards and keeps the first failure (`FoldForward`). The refinement of `Recovery`
follows step by step with the records' statuses and attempts as its state
(`StepRefined`): opening, an attempt or a pause, and every other step is a stutter.

### Ingest and Alerts

`IngestProofs` proves `OneEventPerKey`, `AnswersAreDurable` and the action property
`AsOfSettles` of ingest for any calls, keys, window and faults. Durability is not
inductive: "accepted" is told one step after the append, hence `AppendedIsLogged`.
`AppendedLog` is the lemma all steps rest on: an append keeps what the log had, adds
at most an event of the caller's clock, and leaves one event a key.

`AlertsProofs` carries these over to the handler with its evaluation and proves
`AlertsTypeOK`, `NoFalseAlarm` and `MarkIsHonest`, from `AlertsAssumption`. What a
handler sends depends on a bill it computed earlier and what it stores on a mark it
read before that. So the invariant `AlertsInv` says that a bill in hand is at most the
bill (`BillsInHand`; `SpendGrows`, as events are never removed), that a mark in hand
is as honest as the stored one (`MarksInHand`), and that between POST and store
nothing it fired is unsent (`FiredIsTold`). `Aside` is a step ingest does not see but
for the fault counter: every step of the evaluation is one, so `IngestNext` and
`AsOfStep` serve both modules. That a set of crossed thresholds has a highest one
comes from the well-foundedness of the naturals (`HasGreatest`).

### Finalize

`FinalizeProofs` proves all six invariants of the `finalize` run for any number of
requests and lines, from `FinalizeAssumption`. `HandlersInStep` says what the place of
a handler implies of its counters, its rail invoice and its save, and `NextUnsaved` that
an invoice on the rail waits for its save only in the two places of the handler where
it is due, or was left there. The items need the
most: `ItemsOnce` (an item is in one place only), `ItemsCounted` (a handler that
posts has exactly the lines it counts on the rail) and `ItemsTaken` (from the creation
of its invoice on, all its lines are on some invoice, not always its own). The lemmas
`PlacesStay`, `ItemPosted` and `ItemsMove` treat the three things a step can do to
items; `NextItems` sorts the actions under them.

### Sums

Balances, bills and tiers are sums and folds, and the laws of both need induction,
which the provers have no rule for over data. `Sums` gets by with sets: a sum is
*defined* by counting units (`SumOf`, a difference of two cardinalities), a finite set
of subsets has a smallest member (`SmallestSubset`, from the well-foundedness of
strict subsets), and with it any function that grows by a term when one is added is
the sum (`SumUnique`). What the models write, `MapThenSumSet` and `FoldLeft`, is
`CHOOSE` of a solution of a recursive equation: `ChoiceAdds`, `FoldExists`,
`FoldUnique` and `FoldAdds` say that there is a solution and what every one of them
is. The laws of arithmetic on sums (`SumPlus`, `SumTimes`, `SumMonotone`, `SumRenamed`
under a bijection, ...) follow from `SumUnique`.

### Wallet and Gate

From `WalletAssumption` and `GateAssumption`, for any customers, keys, calls,
entitlements, workloads and limits, and any finite set of clients that is not empty.
`WalletInv` is the invariant of the top-ups:

- `Booked`: rows and ledger rows have one id and one key each, every ledger row has its
  wallet, and each balance is the sum of its rows;
- `CallSound`: what a transaction in progress may rely on between two statements. The
  row it read or inserted is there or its own; the key it holds is in nobody's hands;
  the key it skipped is in the ledger for good. The last is why a success is durable
  although its call inserted nothing: it waited for the key's holder to commit;
- `LedgerSound`: every ledger row is of a call that is done, in a row of its customer;
- `MeetingsSound`: calls in flight together have met, and a customer whose calls never
  met has one row, and none while a call is about to make it. This is what
  `WholeBalance` rests on, and exactly what fails when two first top-ups overlap.

`GateInv` adds of each client what its reads were true of (`ClientSound`: what it saw
*before* is at most what is so now, since usage and credit only grow), of the bucket
that every stretch of time up to its last use has room for what it holds
(`BucketSound`, the strengthening of `RateBounded`), and of the overrun that events
*and* clients past their check together stay below limit plus clients
(`OverrunSound`, without which the bound is not inductive).

### Rating and Billing

`RatingProofs` is about operators: rounding, proration, the order of lines, meters,
tiers, the shape of a bill, recognition, deltas and the rows of the proof, for all
inputs that `Books` describes, a computable subscription with its prices, meters and
events. `BillingProofs` is about the state. `BillingInv` says that the catalogue is
what the assumption on scenes allows (`CatalogueInv`), and that every bill in the
draft, the store or a simulation is one that *could be computed from some meters and
events*, not from those of now: meters are overwritten and events added after a
finalize, so that is all there is, and it is kept when the books grow (`BillKept`). The rest
then is about any such bill:

- `RatedRight`: `GraduatedIsReference` follows the loop over the tiers with what is
  left and where the next tier begins, and counts the units of the reference in each
  tier (`TierUnits`); `VolumeIsReference`, `LeastPackages` and `WindowSplits` do the rest.
- `BilledToRounding`: `LineBounds` bounds one line, by the bounds of `RoundDown` and of
  the fraction (`FlatBounds`), and `LinesAddUp` sums them; the order of the lines does
  not matter (`SumRenamed`), and tax is cut last (`TaxBounds`).
- `ProofIsRight`: the maps of the join keep the last row of a code (`LastOne`), equal
  hashes mean an equal bag of lines (`SameBag`), and any order of the rows read back is
  a bijection.
- `RecognitionAddsUp`, `SimulationIsFair`, `VerifyIsHonest`: sums over the lines, over
  the codes, and of minor units.

The assumption on scenes, `BillingAssumption`, is what the code's own checks and types
let in: plans of at least one price with a known model, integers for amounts and
moments, a tax rate that is not negative. It does not say that ladders ascend, that
sizes are positive, that the currencies of a plan agree or that a period ends after it
starts: such plans and subscriptions are in, and their bills cannot be computed.

The proofs changed a property of the model. "A bill is never above the exact price",
as the docs have it, held in the scenes there were, and the attempt to prove it gave
the fraction that breaks it: one rounded up to the scale just below a minor unit. The
scene `Yearly` has one (at 5 digits a small fee suffices, 5.88 with 18 of 365 days
left), and `BilledToRounding` now bounds a bill on both sides, where before nothing was
said of a bill too low.

### Left to TLC

`Settles` and `ReachedIsTold` are liveness under fairness, which this prover does not
handle. What the violation runs show is shown by their traces.

## Not modelled, and why

- Signatures, form encoding, message wording, pages: I/O and layout.
- Rails other than Stripe: no webhook reaches smolbill from them and their
  `ChargeInvoice` is an error, so of `Collections` only `ChargeFaults` remains.
- The memory store over a restart: it keeps nothing, and so has nothing to get wrong.
- Several server processes: the handlers of two processes share the store exactly
  as two workers of one do, so `Workers` covers them, except a restart of one only.
- Analytics: a fold over computed bills and stored collections, with no state.
- The drift scan and the lists of the dashboard: the modelled proof and reads in a
  loop. JSON-RPC dispatch and API keys: no state a property is about.
- The cap on `run_dunning`: the code has none there, so there is nothing to check.
- The limiter's map of buckets, which grows with every key and never shrinks: a bound on
  memory is nothing the code promises.
- Events the meters cannot read, in `Gate`: `Billing` has them, where they fail the
  bill; in the gate they are a finding.
- Plan templates, invoice numbers' format, hosted invoice pages: data and layout.
- Reading one bill in several store calls: see *Rating, Invoices, Rails, Billing*.

## Plan

Done, in the order of what a mistake costs: collections, ingest and alerts, finalize,
wallet and gate, rating to rails; proofs of the safety of all of them. What is left:

1. An abstract wallet, a balance and a set of keys per customer, which `Wallet` with
   top-ups that never meet implements; and an abstract event log for `Ingest`.
2. `Select` picks a rail that is configured, and what each adapter pushes is the
   bill's total, as theorems of `Rails` by themselves.
