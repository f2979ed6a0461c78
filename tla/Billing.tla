------------------------------ MODULE Billing ------------------------------
(***************************************************************************)
(* From a catalogue and an event log to a bill, a saved invoice and the    *)
(* document of a payment rail.  Operators and agents write customers,      *)
(* meters, plans and subscriptions over the API or the agent's tools; a    *)
(* meter may be written again at any time.  Previews, proofs, usage and    *)
(* recognition change nothing: they are the functions of Invoices on the   *)
(* state at one moment.  Two handlers read twice, and are two steps here:  *)
(* finalize computes, then pushes and saves; a plan simulation computes    *)
(* the current bill, then reads meters and log again for the proposed one. *)
(* One bill is computed from one moment: the code reads the plan, the      *)
(* meters, the events and the tax rate one after the other, and of these   *)
(* only a meter written again just then could make a difference.           *)
(* One customer, one invoice, one simulation at a time.                    *)
(***************************************************************************)
EXTENDS Rails

CONSTANTS
    Scenes,    \* the catalogues and logs a run looks at, one chosen at the
               \* start: [tax, writes, plans, periods, pool, agent, proposed,
               \* rails, edits, finalizes, quick, maxSubs], see SceneOK
    MeterCodes \* the codes a price or a meter may name

PlanOK(prices) == prices # <<>>

SceneOK(s) ==
    /\ s.tax \in Nat                                  \* the customer's rate
    /\ \A w \in s.writes : w.code \in MeterCodes /\ w.agg \in Aggregations
    /\ \A n \in DOMAIN s.plans :                     \* plans that may be created
          s.plans[n] \in Seq(PricesOn(MeterCodes)) /\ PlanOK(s.plans[n])
    /\ \A t \in s.periods : t.start \in Int /\ t.end \in Int /\ t.started \in Int
    /\ \A e \in s.pool : EventOK(e)
    /\ s.quick \in DOMAIN s.plans \cup {"none"}       \* the quickstart's plan
    /\ s.proposed \in DOMAIN s.plans \cup {"none"}    \* the plan simulated
    /\ s.edits \subseteq Int /\ s.maxSubs \in Nat
    /\ s.finalizes \in BOOLEAN

ASSUME BillingAssumption ==
    /\ TaxCode \in MeterCodes
    /\ \A s \in Scenes : SceneOK(s)

Absent == -1
None == [none |-> TRUE]

VARIABLES
    store,      \* "memory" or "postgres"
    scene,
    customer,   \* the customer's tax rate, or Absent
    meters,     \* meters[code]: the aggregation, NoMeter if there is none
    plans,      \* the plans created
    subs,       \* the customer's subscriptions, all active
    log,        \* the customer's events
    draft,      \* a bill computed by finalize and not yet saved
    invoice, ledger,   \* the saved invoice and its ledger rows as they are read
    rail, doc,  \* the rail it was pushed to and the rail's document
    sim         \* a simulation between its two reads

catalogue == <<customer, meters, plans, subs>>
saved     == <<draft, invoice, ledger, rail, doc>>
vars      == <<store, scene, catalogue, log, saved, sim>>

Prices(sub) == scene.plans[sub.plan]

Init ==
    /\ store \in {"memory", "postgres"}
    /\ scene \in Scenes
    /\ customer = Absent
    /\ meters = [c \in MeterCodes |-> NoMeter]
    /\ plans = {}
    /\ subs = <<>>
    /\ log = {}
    /\ draft = None /\ invoice = None /\ ledger = <<>>
    /\ rail = "none" /\ doc = None
    /\ sim = None

-----------------------------------------------------------------------------
(* The catalogue.                                                          *)

\* A customer is written once: nothing in the code changes a tax rate.
PutCustomer(rate) == customer = Absent /\ customer' = rate

CreateCustomer ==
    /\ PutCustomer(scene.tax)
    /\ UNCHANGED <<store, scene, meters, plans, subs, log, saved, sim>>

\* A meter of an existing code is overwritten.
PutMeter(code, agg) == meters' = [meters EXCEPT ![code] = agg]

CreateMeterUnreserved(w) ==   \* a deliberate slip; nothing else uses it
    /\ PutMeter(w.code, w.agg)
    /\ UNCHANGED <<store, scene, customer, plans, subs, log, saved, sim>>
CreateMeter(w) ==
    /\ w.code # TaxCode
    /\ PutMeter(w.code, w.agg)
    /\ UNCHANGED <<store, scene, customer, plans, subs, log, saved, sim>>

\* The agent's tool takes the reserved code too.
CreateMeterByAgent(w) ==
    /\ scene.agent
    /\ PutMeter(w.code, w.agg)
    /\ UNCHANGED <<store, scene, customer, plans, subs, log, saved, sim>>

\* A plan keeps its prices for good: no operation writes to one again.
PutPlan(n) == plans' = plans \cup {n}

CreatePlan(n) ==
    /\ PlanOK(scene.plans[n])
    /\ PutPlan(n)
    /\ UNCHANGED <<store, scene, customer, meters, subs, log, saved, sim>>

\* A subscription is added; no operation ends one.
PutSubscription(sub) == Len(subs) < scene.maxSubs /\ subs' = Append(subs, sub)

CreateSubscription(n, t) ==
    /\ customer # Absent /\ n \in plans
    /\ PutSubscription([plan |-> n, start |-> t.start, end |-> t.end, started |-> t.started])
    /\ UNCHANGED <<store, scene, customer, meters, plans, log, saved, sim>>

AttachPlan(n, t) ==
    /\ scene.agent
    /\ customer # Absent /\ n \in plans
    /\ PutSubscription([plan |-> n, start |-> t.start, end |-> t.end, started |-> t.start])
    /\ UNCHANGED <<store, scene, customer, meters, plans, log, saved, sim>>

\* quickstart_billing makes a sum meter, a plan, an untaxed customer of its own
\* and its subscription, one after the other: an error ends it after any of
\* them.  It overwrites the meter whoever uses it; its customer is ours if we
\* have none yet.
Quickstart(t, done) ==
    /\ scene.quick # "none"
    /\ PutMeter("calls", "sum")
    /\ IF done >= 2 THEN PutPlan(scene.quick) ELSE UNCHANGED plans
    /\ customer' = IF customer = Absent /\ done >= 3 THEN 0 ELSE customer
    /\ IF customer = Absent /\ done = 4
       THEN PutSubscription([plan |-> scene.quick, start |-> t.start, end |-> t.end,
                             started |-> t.start])
       ELSE UNCHANGED subs
    /\ UNCHANGED <<store, scene, log, saved, sim>>

\* An event is checked for its key and times only; its property may be anything.
Ingest(e) ==
    /\ customer # Absent
    /\ log' = log \cup {e}
    /\ UNCHANGED <<store, scene, catalogue, saved, sim>>

-----------------------------------------------------------------------------
(* Finalize.                                                               *)

CanCompute(i) == Computable(subs[i], Prices(subs[i]), meters, log)
Compute(i) == Calculate(subs[i], Prices(subs[i]), meters, log, customer)

FinalizeComputes(i, agent) ==
    /\ scene.finalizes /\ draft = None /\ invoice = None
    /\ agent => scene.agent
    /\ CanCompute(i)
    /\ draft' = [sub |-> i, bill |-> Compute(i), push |-> ~agent]
    /\ UNCHANGED <<store, scene, catalogue, log, invoice, ledger, rail, doc, sim>>

\* The ledger as it is read back: in the order written, or of random row ids.
ReadBack(rows) ==
    IF store = "memory" THEN {rows}
    ELSE {s \in [DOMAIN rows -> ToSet(rows)] : ToBag(s) = ToBag(rows)}

\* The rails a process may be started with, "none" among them.
Deployed == {Select(s.want, s.has, s.broken) : s \in scene.rails} \ {"error"}

FinalizeSaves ==
    /\ draft # None
    /\ \E r \in IF draft.push THEN Deployed ELSE {"none"} :
         /\ rail' = r
         /\ doc' = IF r = "none" THEN None ELSE Document(Adapter(r), draft.bill)
    /\ ledger' \in ReadBack(LedgerOf(draft.bill))
    /\ invoice' = [sub |-> draft.sub, bill |-> draft.bill]
    /\ draft' = None
    /\ UNCHANGED <<store, scene, catalogue, log, sim>>

\* The rail changes what it bills: a tax line, a credit, a manual edit.
RailEdits ==
    /\ doc # None
    /\ \E n \in scene.edits : doc' \in {[doc EXCEPT !.total = n], [doc EXCEPT !.due = n]}
    /\ UNCHANGED <<store, scene, catalogue, log, draft, invoice, ledger, rail, sim>>

-----------------------------------------------------------------------------
(* SimulatePlanChange.                                                     *)

\* The first active subscription: in no particular order in either store.
SimulateReads(i) ==
    /\ scene.proposed # "none" /\ sim = None
    /\ CanCompute(i)
    /\ sim' = [sub |-> subs[i], current |-> Compute(i), meters |-> meters, log |-> log]
    /\ UNCHANGED <<store, scene, catalogue, log, saved>>

Proposed == scene.plans[scene.proposed]
ProposedBill == Calculate(sim.sub, Proposed, meters, log, customer)
AnswersNow == sim # None /\ Computable(sim.sub, Proposed, meters, log)

SimulateAnswers ==
    /\ sim # None
    /\ sim' = None
    /\ UNCHANGED <<store, scene, catalogue, log, saved>>

-----------------------------------------------------------------------------
Catalogue ==
    \/ CreateCustomer
    \/ \E w \in scene.writes : CreateMeter(w) \/ CreateMeterByAgent(w)
    \/ \E n \in DOMAIN scene.plans : CreatePlan(n)
    \/ \E n \in DOMAIN scene.plans, t \in scene.periods :
          CreateSubscription(n, t) \/ AttachPlan(n, t)
    \/ \E t \in scene.periods, done \in 1..4 : Quickstart(t, done)

Next ==
    \/ Catalogue
    \/ \E e \in scene.pool : Ingest(e)
    \/ \E i \in DOMAIN subs :
          \/ \E agent \in BOOLEAN : FinalizeComputes(i, agent)
          \/ SimulateReads(i)
    \/ FinalizeSaves \/ RailEdits \/ SimulateAnswers

Spec == Init /\ [][Next]_vars

-----------------------------------------------------------------------------
(* What a charge should be, said another way than pricing.go says it.      *)

LowerOf(tiers, i) == IF i = 1 THEN 0 ELSE tiers[i - 1].upTo
HoldsUnit(tiers, i, u) ==
    LowerOf(tiers, i) < u /\ (tiers[i].upTo = Unbounded \/ u <= tiers[i].upTo)

\* Unit by unit, each at the price of the tier it falls in.
GraduatedReference(tiers, q) ==
    MapThenSumSet(LAMBDA i :
        tiers[i].unit * Cardinality({u \in 1..q : HoldsUnit(tiers, i, u)})
            + (IF LowerOf(tiers, i) < q THEN tiers[i].flat ELSE 0), DOMAIN tiers)
VolumeReference(tiers, q) ==
    LET i == CHOOSE k \in DOMAIN tiers : HoldsUnit(tiers, k, Max({q, 1}))
    IN q * tiers[i].unit + tiers[i].flat
Reference(p, q) ==
    CASE p.model = "tiered_graduated" -> GraduatedReference(p.tiers, q)
      [] p.model = "tiered_volume" -> VolumeReference(p.tiers, q)
      [] p.model = "package" -> p.unit * Min({n \in 0..q : n * p.size >= q})
      [] p.model = "percentage" -> (q * 1000 * p.percent) \div 100
      [] p.model = "flat" -> p.flat
      [] p.model = "per_unit" -> MapThenSumSet(LAMBDA u : p.unit, 1..q)

Billable == {i \in DOMAIN subs : CanCompute(i)}
QuantityOf(p, sub) ==
    IF p.model = "flat" THEN 1 ELSE Aggregate(meters[p.code], Events(p, sub, log))

\* How long of its period a subscription runs.
LengthOf(sub) == sub.end - sub.start
Active(sub) == Max({0, Min({LengthOf(sub), sub.end - sub.started})})

\* The exact price of a plan in the period, times the period's length.
Exact(sub) ==
    MapThenSumSet(LAMBDA k :
        LET p == Prices(sub)[k]
        IN Charge(p, QuantityOf(p, sub)) * (IF p.model = "flat" THEN Active(sub) ELSE LengthOf(sub)),
        DOMAIN Prices(sub))

\* What the rounding of a part of a period to the scale can make of its flat
\* fees: half a part of the scale of each, times the period's length.
Slack(sub) ==
    MapThenSumSet(LAMBDA k :
        LET p == Prices(sub)[k]
        IN IF p.model = "flat" /\ Active(sub) \in 1..(LengthOf(sub) - 1)
           THEN Charge(p, 1) * LengthOf(sub) ELSE 0, DOMAIN Prices(sub)) \div (2 * Scale)

\* What is billed for the prices, before tax, times the period's length.
Billed(b, sub) == Total(SubSeq(b.lines, 1, Len(Prices(sub)))) * LengthOf(sub)
NothingCredited(sub) ==
    \A k \in DOMAIN Prices(sub) : Charge(Prices(sub)[k], QuantityOf(Prices(sub)[k], sub)) >= 0

-----------------------------------------------------------------------------
\* Types; amounts billed are whole minor units; a meter on the reserved code
\* is an agent's; a finalize under way has saved nothing.
BillingTypeOK ==
    /\ store \in {"memory", "postgres"} /\ scene \in Scenes
    /\ customer \in {Absent, 0, scene.tax}
    /\ meters \in [MeterCodes -> Aggregations \cup {NoMeter}]
    /\ meters[TaxCode] # NoMeter => scene.agent
    /\ plans \subseteq DOMAIN scene.plans
    /\ \A i \in DOMAIN subs : subs[i].plan \in plans /\ customer # Absent
    /\ log \subseteq scene.pool
    /\ draft = None \/ invoice = None
    /\ \A b \in {draft, invoice} \ {None} : MinorUnits(b.bill.total, b.bill.currency)
                                            * Unit(b.bill.currency) = b.bill.total
    /\ rail \in ToSet(registry) \cup {"none"}
    /\ (doc = None) = (rail = "none")
    /\ (ledger = <<>>) = (invoice = None)

\* Every charge of a bill is the reference price of the usage in its period,
\* inside its bounds (pricing.Calculate); and a period cut in two at any
\* moment counts every event once (meter.Aggregate, "never double-count").
RatedRight ==
    \A i \in Billable : \A k \in DOMAIN Prices(subs[i]) :
        LET p == Prices(subs[i])[k]
            q == QuantityOf(p, subs[i])
            r == Reference(p, q)
            floored == IF p.minimum # 0 THEN Max({r, p.minimum}) ELSE r
        IN /\ Charge(p, q) = IF p.maximum # 0 THEN Min({floored, p.maximum}) ELSE floored
           /\ p.model # "flat" /\ meters[p.code] \in {"sum", "count"} =>
                \A cut \in subs[i].start..subs[i].end :
                    q = Aggregate(meters[p.code], InWindow(log, p.code, subs[i].start, cut))
                        + Aggregate(meters[p.code], InWindow(log, p.code, cut, subs[i].end))

\* Rounding, of money down and of a fraction to the scale, is all that comes
\* between a bill and the exact price: tax and proration included it is above
\* it by the fraction's slack at most, and below it by that and a minor unit
\* for every line (money.RoundDown, prorationFactor).
BilledToRounding ==
    \A i \in Billable :
        LET b == Compute(i)
            sub == subs[i]
            slack == Slack(sub)
        IN NothingCredited(sub) =>
            /\ Billed(b, sub) <= Exact(sub) + slack
            /\ Exact(sub) <= Billed(b, sub) + slack
                               + Len(Prices(sub)) * Unit(b.currency) * LengthOf(sub)
            /\ b.total * LengthOf(sub) * 100 <= (Exact(sub) + slack) * (100 + customer)

\* What GET /v1/reconcile and the agent's tool answer of the invoice.
Live == Compute(invoice.sub)
ReconcileSays == Consistent(invoice.bill, ledger, Live)

\* A proof that says consistent is right about every amount, whatever order
\* the ledger is read in, and about every count when no two lines share a
\* code; and then it raises no false alarm (reconcile.Build).
ProofIsRight ==
    (invoice # None /\ CanCompute(invoice.sub)) =>
        LET b == invoice.bill
            ok == ReconcileSays
        IN /\ ok => b.total = Live.total /\ Hash(b).lines = Hash(Live).lines
           /\ (ok /\ DistinctCodes(b)) => ToSet(b.lines) = ToSet(Live.lines)
           /\ (DistinctCodes(b) /\ b.lines = Live.lines) => ok

\* The differences a simulation shows by code add up to the one in total,
\* when no two lines share a code; and a plan compared with itself differs in
\* nothing, if no event of its meters came between the two reads and no meter
\* was written again (SimulatePlanChange, "can't disagree").
SimulationIsFair ==
    AnswersNow =>
        LET c == sim.current
            p == ProposedBill
            codes == Codes(c) \cup Codes(p)
        IN /\ (DistinctCodes(c) /\ DistinctCodes(p)) =>
                  MapThenSumSet(LAMBDA k : Max(Deltas(c, p, k)), codes) = TotalDelta(c, p)
           /\ (/\ Proposed = Prices(sim.sub) /\ meters = sim.meters
               /\ \A k \in DOMAIN Proposed : Events(Proposed[k], sim.sub, log \ sim.log) = {})
                  => TotalDelta(c, p) = 0 /\ Hash(c) = Hash(p)

\* What is recognised and what is deferred of an invoice add up to it line by
\* line and in total, at any moment; recognition only grows, from nothing at
\* the start of the period to all of it at the end (revrec.Recognize).
RecognitionAddsUp ==
    invoice # None =>
        LET b == invoice.bill
            lines == ToSet(b.lines)
        IN \A t \in (b.start - 1)..(b.end + 1) :
              /\ \A l \in lines : l.amount >= 0 => RecognizedLine(l, b, t) \in 0..l.amount
              /\ TotalDeferred(b, t) =
                    FoldLeft(LAMBDA a, l : a + DeferredLine(l, b, t), 0, b.lines)
              /\ (\A l \in lines : l.amount >= 0) =>
                    TotalRecognized(b, t) <= TotalRecognized(b, t + 1)
              /\ t <= b.start => TotalRecognized(b, t) = 0
              /\ t >= b.end => TotalDeferred(b, t) = 0

\* What GET .../verify answers: nothing of an invoice that was not pushed.
VerifiedNow == doc # None /\ Verifiable(Adapter(rail)) /\ Verified(Adapter(rail), doc, invoice.bill)
RailMatches == doc.total * Unit(doc.currency) = invoice.bill.total

\* An invoice that verifies is billed by the rail to the ledger's amount, for
\* currencies written in capitals, unless the rail's total has become zero
\* and the adapter looks at another amount (verifyInvoice).
VerifyIsHonest ==
    (/\ VerifiedNow
     /\ Upper(invoice.bill.currency) = invoice.bill.currency
     /\ Adapter(rail).fallsBack => doc.total # 0) => RailMatches

\* phase2.go:187, "asserts it equals the ledger total to the exact minor unit".
VerifiedIsBilled == VerifiedNow => RailMatches
=============================================================================
