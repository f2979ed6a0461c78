---------------------------- MODULE BillingProofs ----------------------------
(***************************************************************************)
(* Theorems about Billing, for any scenes: what a bill, its ledger, its    *)
(* proof, a simulation, recognised revenue and the rail's document show.   *)
(* The inductive invariant says of every bill kept (the draft, the saved   *)
(* invoice, the first half of a simulation) that it was computed from      *)
(* meters and events that could be computed from, for a subscription that  *)
(* is still there, at the customer's rate; the lemmas of RatingProofs say  *)
(* what such a bill is.                                                    *)
(***************************************************************************)
EXTENDS Billing, RatingProofs

-----------------------------------------------------------------------------
(* The inductive invariant.                                                *)

Subscriptions == [plan : DOMAIN scene.plans, start : Int, end : Int, started : Int]

CatalogueInv ==
    /\ store \in {"memory", "postgres"} /\ scene \in Scenes
    /\ customer \in {Absent, 0, scene.tax}
    /\ meters \in [MeterCodes -> Aggregations \cup {NoMeter}]
    /\ meters[TaxCode] # NoMeter => scene.agent
    /\ plans \subseteq DOMAIN scene.plans
    /\ subs \in Seq(Subscriptions)
    /\ \A i \in DOMAIN subs : subs[i].plan \in plans /\ customer # Absent
    /\ log \subseteq scene.pool /\ IsFiniteSet(log)

\* b is a bill of the subscription, computed from these meters and events.
BillFrom(b, sub, m, events) ==
    /\ Books(MeterCodes, sub, Prices(sub), m, events)
    /\ b = Calculate(sub, Prices(sub), m, events, customer)
BillOf(b, i) == i \in DOMAIN subs /\ \E m, events : BillFrom(b, subs[i], m, events)

\* The rows of a bill, in any order.
RowsOf(b) ==
    LET rows == LedgerOf(b)
    IN {s \in [DOMAIN rows -> ToSet(rows)] : ToBag(s) = ToBag(rows)}

SavedInv ==
    /\ draft = None \/ invoice = None
    /\ draft # None => BillOf(draft.bill, draft.sub)
    /\ invoice # None => /\ BillOf(invoice.bill, invoice.sub)
                         /\ ledger \in RowsOf(invoice.bill)
    /\ invoice = None => ledger = <<>> /\ doc = None
    /\ rail \in ToSet(registry) \cup {"none"}
    /\ (doc = None) = (rail = "none")
    /\ doc # None => /\ DOMAIN doc = {"total", "due", "currency"}
                     /\ doc.currency = IF Adapter(rail).currency
                                       THEN Upper(invoice.bill.currency) ELSE "USD"

SimInv ==
    sim # None => /\ \E i \in DOMAIN subs : sim.sub = subs[i]
                  /\ BillFrom(sim.current, sim.sub, sim.meters, sim.log)
                  /\ sim.log \subseteq log
                  /\ scene.proposed # "none"

BillingInv == CatalogueInv /\ SavedInv /\ SimInv

-----------------------------------------------------------------------------
(* The catalogue.                                                          *)

\* What the code lets a deployment sell and write (BillingAssumption), of its scene.
LEMMA SceneIsOK ==
    ASSUME CatalogueInv
    PROVE  /\ scene.tax \in Nat /\ customer \in Int
           /\ \A w \in scene.writes : w.code \in MeterCodes /\ w.agg \in Aggregations
           /\ \A n \in DOMAIN scene.plans :
                 scene.plans[n] \in Seq(PricesOn(MeterCodes)) /\ scene.plans[n] # <<>>
           /\ \A t \in scene.periods : t.start \in Int /\ t.end \in Int /\ t.started \in Int
           /\ \A e \in scene.pool : EventOK(e)
           /\ scene.quick \in DOMAIN scene.plans \cup {"none"}
           /\ scene.proposed \in DOMAIN scene.plans \cup {"none"}
BY BillingAssumption DEF CatalogueInv, SceneOK, PlanOK, Absent

\* What stays as it is whatever happens.
Grows ==
    /\ scene' = scene /\ store' = store
    /\ \A i \in DOMAIN subs : i \in DOMAIN subs' /\ subs'[i] = subs[i]
    /\ (\E i : i \in DOMAIN subs) => customer' = customer
    /\ log \subseteq log'

\* A subscription more at the end.
LEMMA SubsGrow ==
    ASSUME CatalogueInv, NEW sub, sub \in Subscriptions, PutSubscription(sub)
    PROVE  /\ subs' \in Seq(Subscriptions)
           /\ \A i \in DOMAIN subs : i \in DOMAIN subs' /\ subs'[i] = subs[i]
           /\ \A i \in DOMAIN subs' : i \in DOMAIN subs \/ subs'[i] = sub
BY DEF CatalogueInv, PutSubscription

\* Steps that only touch bills, rails or simulations keep the catalogue.
LEMMA CatalogueKept ==
    ASSUME CatalogueInv, UNCHANGED <<store, scene, catalogue, log>>
    PROVE  CatalogueInv' /\ Grows
BY DEF CatalogueInv, Grows, catalogue, Subscriptions

\* Writing a meter keeps them typed, and the reserved code an agent's.
LEMMA MeterPut ==
    ASSUME CatalogueInv, NEW code, code \in MeterCodes \/ code = "calls",
           NEW agg \in Aggregations, PutMeter(code, agg),
           code = TaxCode => scene.agent
    PROVE  /\ meters' \in [MeterCodes -> Aggregations \cup {NoMeter}]
           /\ meters'[TaxCode] # NoMeter => scene.agent
BY BillingAssumption DEF CatalogueInv, PutMeter

\* createCustomer, with the scene's tax rate or none.
LEMMA CreateCustomerStep ==
    ASSUME CatalogueInv, CreateCustomer
    PROVE  CatalogueInv' /\ Grows
BY DEF CatalogueInv, Grows, CreateCustomer, PutCustomer, Subscriptions

\* createMeter, by the API or by the tool.
LEMMA MeterStep ==
    ASSUME CatalogueInv, NEW w \in scene.writes, CreateMeter(w) \/ CreateMeterByAgent(w)
    PROVE  CatalogueInv' /\ Grows
<1>1. w.code \in MeterCodes /\ w.agg \in Aggregations
  BY SceneIsOK
<1>2. PutMeter(w.code, w.agg) /\ (w.code = TaxCode => scene.agent)
      /\ UNCHANGED <<store, scene, customer, plans, subs, log>>
  BY DEF CreateMeter, CreateMeterByAgent
<1>3. /\ meters' \in [MeterCodes -> Aggregations \cup {NoMeter}]
      /\ meters'[TaxCode] # NoMeter => scene.agent
  BY <1>1, <1>2, MeterPut
<1>4. QED  BY <1>2, <1>3 DEF CatalogueInv, Grows, Subscriptions

\* createPlan adds a plan of the scene.
LEMMA CreatePlanStep ==
    ASSUME CatalogueInv, NEW n \in DOMAIN scene.plans, CreatePlan(n)
    PROVE  CatalogueInv' /\ Grows
BY DEF CatalogueInv, Grows, CreatePlan, PutPlan, Subscriptions

\* createSubscription and attachPlan append one to a plan that exists.
LEMMA SubscribeStep ==
    ASSUME CatalogueInv, NEW n \in DOMAIN scene.plans, NEW t \in scene.periods,
           CreateSubscription(n, t) \/ AttachPlan(n, t)
    PROVE  CatalogueInv' /\ Grows
<1>1. PICK sub : /\ sub \in Subscriptions /\ sub.plan = n /\ PutSubscription(sub)
                 /\ customer # Absent /\ n \in plans
                 /\ UNCHANGED <<store, scene, customer, meters, plans, log>>
  BY SceneIsOK DEF CreateSubscription, AttachPlan, Subscriptions
<1>2. /\ subs' \in Seq(Subscriptions)
      /\ \A i \in DOMAIN subs : i \in DOMAIN subs' /\ subs'[i] = subs[i]
      /\ \A i \in DOMAIN subs' : i \in DOMAIN subs \/ subs'[i] = sub
  BY <1>1, SubsGrow
<1>3. Subscriptions' = Subscriptions
  BY <1>1 DEF Subscriptions
<1>4. QED  BY <1>1, <1>2, <1>3 DEF CatalogueInv, Grows

\* quickstart_billing, however many of its four writes it gets to make.
LEMMA QuickstartStep ==
    ASSUME CatalogueInv, NEW t \in scene.periods, NEW done \in 1..4, Quickstart(t, done)
    PROVE  CatalogueInv' /\ Grows
<1>1. /\ scene.quick \in DOMAIN scene.plans /\ scene.tax \in Nat
      /\ t.start \in Int /\ t.end \in Int
  BY SceneIsOK DEF Quickstart
<1>2. /\ UNCHANGED <<store, scene, log>>
      /\ PutMeter("calls", "sum") /\ plans \subseteq plans' /\ plans' \subseteq DOMAIN scene.plans
      /\ customer' = IF customer = Absent /\ done >= 3 THEN 0 ELSE customer
  BY <1>1 DEF Quickstart, PutPlan, CatalogueInv
<1>3. /\ meters' \in [MeterCodes -> Aggregations \cup {NoMeter}]
      /\ meters'[TaxCode] # NoMeter => scene.agent
  BY <1>2, MeterPut DEF Aggregations, TaxCode
<1>4. Subscriptions' = Subscriptions
  BY <1>2 DEF Subscriptions
<1>5. CASE customer = Absent /\ done = 4
  <2> DEFINE sub == [plan |-> scene.quick, start |-> t.start, end |-> t.end, started |-> t.start]
  <2>1. sub \in Subscriptions /\ PutSubscription(sub)
    BY <1>1, <1>5 DEF Quickstart, Subscriptions
  <2>2. scene.quick \in plans' /\ customer' = 0 /\ ~\E i : i \in DOMAIN subs
    BY <1>2, <1>5 DEF Quickstart, PutPlan, CatalogueInv
  <2>3. sub.plan = scene.quick
    OBVIOUS
  <2> HIDE DEF sub
  <2>4. /\ subs' \in Seq(Subscriptions)
        /\ \A i \in DOMAIN subs : i \in DOMAIN subs' /\ subs'[i] = subs[i]
        /\ \A i \in DOMAIN subs' : i \in DOMAIN subs \/ subs'[i] = sub
    BY <2>1, SubsGrow
  <2>5. CatalogueInv'
    BY <1>2, <1>3, <1>4, <2>2, <2>3, <2>4 DEF CatalogueInv, Absent
  <2>6. QED  BY <1>2, <2>2, <2>4, <2>5 DEF Grows
<1>6. CASE ~(customer = Absent /\ done = 4)
  <2>1. subs' = subs
    BY <1>6 DEF Quickstart
  <2>2. CatalogueInv'
    BY <1>2, <1>3, <1>4, <2>1 DEF CatalogueInv, Absent
  <2>3. (\E i : i \in DOMAIN subs) => customer' = customer
    BY <1>2 DEF CatalogueInv
  <2>4. QED  BY <1>2, <2>1, <2>2, <2>3 DEF Grows
<1>7. QED  BY <1>5, <1>6

\* An event is added to the log and none is lost.
LEMMA IngestStep ==
    ASSUME CatalogueInv, NEW e \in scene.pool, Ingest(e)
    PROVE  CatalogueInv' /\ Grows
<1>1. IsFiniteSet(log \cup {e}) /\ log \cup {e} \subseteq scene.pool
  BY FS_AddElement DEF CatalogueInv
<1>2. QED  BY <1>1 DEF CatalogueInv, Grows, Ingest, catalogue, Subscriptions

-----------------------------------------------------------------------------
(* Bills stay what they were.                                              *)

\* A bill stays one that could be computed when catalogue and log have grown.
LEMMA BillKept ==
    ASSUME Grows, NEW b, NEW i, BillOf(b, i)
    PROVE  BillOf(b, i)'
<1>1. i \in DOMAIN subs /\ i \in DOMAIN subs' /\ subs'[i] = subs[i] /\ scene' = scene
      /\ customer' = customer
  BY DEF Grows, BillOf
<1>2. PICK m, events : BillFrom(b, subs[i], m, events)
  BY DEF BillOf
<1>3. /\ Books(MeterCodes, subs[i], scene.plans[subs[i].plan], m, events)
      /\ b = Calculate(subs[i], scene.plans[subs[i].plan], m, events, customer)
  BY <1>2 DEF BillFrom, Prices
<1>4. /\ Books(MeterCodes, subs'[i], scene'.plans[subs'[i].plan], m, events)
      /\ b = Calculate(subs'[i], scene'.plans[subs'[i].plan], m, events, customer')
  BY <1>1, <1>3
<1>5. QED  BY <1>1, <1>4 DEF BillOf, BillFrom, Prices

\* So do the draft, the stored invoice with its ledger, and the rail's document.
LEMMA SavedKept ==
    ASSUME SavedInv, Grows, UNCHANGED saved
    PROVE  SavedInv'
<1>1. draft' = draft /\ invoice' = invoice /\ ledger' = ledger /\ rail' = rail /\ doc' = doc
  BY DEF saved
<1>2. ASSUME draft # None
      PROVE  BillOf(draft.bill, draft.sub)'
  <2>1. PICK b, i : b = draft.bill /\ i = draft.sub
    OBVIOUS
  <2>2. BillOf(b, i)
    BY <1>2, <2>1 DEF SavedInv
  <2>3. BillOf(b, i)'
    BY <2>2, BillKept
  <2>4. draft'.bill = b /\ draft'.sub = i
    BY <1>1, <2>1
  <2>5. QED  BY <2>3, <2>4
<1>3. ASSUME invoice # None
      PROVE  BillOf(invoice.bill, invoice.sub)'
  <2>1. PICK b, i : b = invoice.bill /\ i = invoice.sub
    OBVIOUS
  <2>2. BillOf(b, i)
    BY <1>3, <2>1 DEF SavedInv
  <2>3. BillOf(b, i)'
    BY <2>2, BillKept
  <2>4. invoice'.bill = b /\ invoice'.sub = i
    BY <1>1, <2>1
  <2>5. QED  BY <2>3, <2>4
<1>4. QED  BY <1>1, <1>2, <1>3 DEF SavedInv

\* And so do the two bills of a simulation.
LEMMA SimKept ==
    ASSUME SimInv, Grows, sim' = sim
    PROVE  SimInv'
<1>1. SUFFICES ASSUME sim # None
               PROVE  /\ \E i \in DOMAIN subs' : sim.sub = subs'[i]
                      /\ BillFrom(sim.current, sim.sub, sim.meters, sim.log)'
                      /\ sim.log \subseteq log'
                      /\ scene'.proposed # "none"
  BY DEF SimInv
<1>2. PICK i \in DOMAIN subs : sim.sub = subs[i]
  BY <1>1 DEF SimInv
<1>3. customer' = customer /\ scene' = scene /\ i \in DOMAIN subs' /\ subs'[i] = subs[i]
      /\ log \subseteq log'
  BY <1>2 DEF Grows
<1>4. BillFrom(sim.current, sim.sub, sim.meters, sim.log) /\ sim.log \subseteq log
      /\ scene.proposed # "none"
  BY <1>1 DEF SimInv
<1>5. QED  BY <1>2, <1>3, <1>4 DEF BillFrom, Prices

-----------------------------------------------------------------------------
(* Finalize and simulate.                                                  *)

\* What can be computed is what the lemmas on bills ask for.
LEMMA BooksNow ==
    ASSUME CatalogueInv, NEW sub \in Subscriptions,
           Computable(sub, Prices(sub), meters, log)
    PROVE  Books(MeterCodes, sub, Prices(sub), meters, log)
BY SceneIsOK DEF Books, CatalogueInv, Subscriptions, Prices

\* What compute answers is a bill of the meters and events of that moment.
LEMMA ComputeIsBill ==
    ASSUME CatalogueInv, NEW i \in DOMAIN subs, CanCompute(i)
    PROVE  BillFrom(Compute(i), subs[i], meters, log) /\ BillOf(Compute(i), i)
<1>1. subs[i] \in Subscriptions
  BY DEF CatalogueInv
<1>2. BillFrom(Compute(i), subs[i], meters, log)
  BY <1>1, BooksNow DEF CanCompute, Compute, BillFrom
<1>3. QED  BY <1>2 DEF BillOf

\* What BillShape says of such a bill.
LEMMA BillIsWhole ==
    ASSUME CatalogueInv, NEW b, NEW i, BillOf(b, i)
    PROVE  WholeBill(b)
<1>1. PICK m, events : BillFrom(b, subs[i], m, events)
  BY DEF BillOf
<1>2. customer \in Int
  BY SceneIsOK
<1>3. QED  BY <1>1, <1>2, BillShape DEF BillFrom

\* finalize computes a bill: the draft.
LEMMA FinalizeComputesStep ==
    ASSUME CatalogueInv, SavedInv, NEW i \in DOMAIN subs, NEW agent \in BOOLEAN,
           FinalizeComputes(i, agent)
    PROVE  CatalogueInv' /\ Grows /\ SavedInv' /\ UNCHANGED sim
<1>1. UNCHANGED <<store, scene, catalogue, log>> /\ sim' = sim
      /\ UNCHANGED <<invoice, ledger, rail, doc>>
      /\ draft = None /\ invoice = None /\ CanCompute(i)
      /\ draft' = [sub |-> i, bill |-> Compute(i), push |-> ~agent]
  BY DEF FinalizeComputes
<1>2. CatalogueInv' /\ Grows
  BY <1>1, CatalogueKept
<1>3. PICK b : b = Compute(i)
  OBVIOUS
<1>4. BillOf(b, i)
  BY <1>1, <1>3, ComputeIsBill
<1>5. BillOf(b, i)'
  BY <1>2, <1>4, BillKept
<1>6. draft'.sub = i /\ draft'.bill = b
  BY <1>1, <1>3
<1>7. SavedInv'
  BY <1>1, <1>5, <1>6 DEF SavedInv
<1>8. QED  BY <1>1, <1>2, <1>7

\* The registry's rails by name.
LEMMA RegistryNames ==
    ToSet(registry) = {"stripe", "dodo", "paddle", "lemonsqueezy", "polar", "creem",
                       "razorpay", "crypto"}
BY DEF ToSet, registry

\* A process starts with a rail of the registry, with none, or not at all.
LEMMA DeployedRails == Deployed \subseteq ToSet(registry) \cup {"none"}
<1>1. ASSUME NEW want, NEW configured, NEW broken
      PROVE  Select(want, configured, broken) \in ToSet(registry) \cup {"none", "error"}
  BY DEF Select
<1>2. QED  BY <1>1 DEF Deployed

\* The rows of a ledger read back, in either store's order, are rows of it.
LEMMA ReadBackRows ==
    ASSUME NEW b
    PROVE  ReadBack(LedgerOf(b)) \subseteq RowsOf(b)
<1> DEFINE rows == LedgerOf(b)
<1>1. rows \in [DOMAIN rows -> ToSet(rows)]
  BY DEF LedgerOf, ToSet
<1> HIDE DEF rows
<1>2. QED  BY <1>1 DEF ReadBack, RowsOf, rows

\* What a rail makes of a push is a document, in the rail's currency or the bill's.
LEMMA DocumentIsSome ==
    ASSUME NEW a, NEW b
    PROVE  /\ Document(a, b) # None
           /\ DOMAIN Document(a, b) = {"total", "due", "currency"}
           /\ Document(a, b).currency = IF a.currency THEN Upper(b.currency) ELSE "USD"
<1>1. "total" \in DOMAIN Document(a, b)
  BY DEF Document
<1>2. "total" \notin DOMAIN None
  BY DEF None
<1>3. QED  BY <1>1, <1>2 DEF Document

\* finalize pushes and saves: invoice, ledger and document are of the draft.
LEMMA FinalizeSavesStep ==
    ASSUME CatalogueInv, SavedInv, FinalizeSaves
    PROVE  CatalogueInv' /\ Grows /\ SavedInv' /\ UNCHANGED sim
<1>1. UNCHANGED <<store, scene, catalogue, log>> /\ sim' = sim /\ draft # None
      /\ draft' = None /\ invoice' = [sub |-> draft.sub, bill |-> draft.bill]
      /\ ledger' \in ReadBack(LedgerOf(draft.bill))
  BY DEF FinalizeSaves
<1>2. CatalogueInv' /\ Grows
  BY <1>1, CatalogueKept
<1>3. PICK b, i : b = draft.bill /\ i = draft.sub
  OBVIOUS
<1>4. BillOf(b, i)
  BY <1>1, <1>3 DEF SavedInv
<1>5. BillOf(b, i)'
  BY <1>2, <1>4, BillKept
<1>6. invoice'.sub = i /\ invoice'.bill = b
  BY <1>1, <1>3
<1>7. ledger' \in RowsOf(b)
  BY <1>1, <1>3, ReadBackRows
<1>8. PICK r \in (IF draft.push THEN Deployed ELSE {"none"}) :
         rail' = r /\ doc' = IF r = "none" THEN None ELSE Document(Adapter(r), b)
  BY <1>3 DEF FinalizeSaves
<1>9. r \in ToSet(registry) \cup {"none"}
  BY <1>8, DeployedRails
<1>10. (doc' = None) = (rail' = "none")
  BY <1>8, DocumentIsSome
<1>11. doc' # None => /\ DOMAIN doc' = {"total", "due", "currency"}
                      /\ doc'.currency = IF Adapter(rail').currency THEN Upper(b.currency) ELSE "USD"
  BY <1>8, DocumentIsSome
<1>12. invoice' # None
  <2>1. "sub" \in DOMAIN invoice' /\ "sub" \notin DOMAIN None
    BY <1>1 DEF None
  <2>2. QED  BY <2>1
<1>13. RowsOf(b)' = RowsOf(b)
  OBVIOUS
<1>14. SavedInv'
  BY <1>1, <1>5, <1>6, <1>7, <1>8, <1>9, <1>10, <1>11, <1>12 DEF SavedInv
<1>15. QED  BY <1>1, <1>2, <1>14

\* The processor's own edits touch its document only.
LEMMA RailEditsStep ==
    ASSUME CatalogueInv, SavedInv, RailEdits
    PROVE  CatalogueInv' /\ Grows /\ SavedInv' /\ UNCHANGED sim
<1>1. UNCHANGED <<store, scene, catalogue, log>> /\ sim' = sim /\ doc # None
      /\ UNCHANGED <<draft, invoice, ledger, rail>>
  BY DEF RailEdits
<1>2. CatalogueInv' /\ Grows
  BY <1>1, CatalogueKept
<1>3. PICK n \in scene.edits : doc' \in {[doc EXCEPT !.total = n], [doc EXCEPT !.due = n]}
  BY DEF RailEdits
<1>4. doc'.currency = doc.currency /\ DOMAIN doc' = DOMAIN doc
      /\ DOMAIN doc = {"total", "due", "currency"}
  BY <1>1, <1>3 DEF SavedInv
<1>5. doc' # None
  <2>1. "total" \in DOMAIN doc' /\ "total" \notin DOMAIN None
    BY <1>4 DEF None
  <2>2. QED  BY <2>1
<1>6. ASSUME invoice # None
      PROVE  BillOf(invoice.bill, invoice.sub)'
  <2>1. PICK b, i : b = invoice.bill /\ i = invoice.sub
    OBVIOUS
  <2>2. BillOf(b, i)'
    BY <1>2, <1>6, <2>1, BillKept DEF SavedInv
  <2>3. invoice'.bill = b /\ invoice'.sub = i
    BY <1>1, <2>1
  <2>4. QED  BY <2>2, <2>3
<1>7. ASSUME draft # None
      PROVE  BillOf(draft.bill, draft.sub)'
  <2>1. PICK b, i : b = draft.bill /\ i = draft.sub
    OBVIOUS
  <2>2. BillOf(b, i)'
    BY <1>2, <1>7, <2>1, BillKept DEF SavedInv
  <2>3. draft'.bill = b /\ draft'.sub = i
    BY <1>1, <2>1
  <2>4. QED  BY <2>2, <2>3
<1>8. SavedInv'
  BY <1>1, <1>4, <1>5, <1>6, <1>7 DEF SavedInv
<1>9. QED  BY <1>1, <1>2, <1>8

\* The simulation's first read and bill.
LEMMA SimulateReadsStep ==
    ASSUME CatalogueInv, SavedInv, NEW i \in DOMAIN subs, SimulateReads(i)
    PROVE  CatalogueInv' /\ Grows /\ SavedInv' /\ SimInv'
<1>1. UNCHANGED <<store, scene, catalogue, log>> /\ UNCHANGED saved /\ CanCompute(i)
      /\ scene.proposed # "none"
      /\ sim' = [sub |-> subs[i], current |-> Compute(i), meters |-> meters, log |-> log]
  BY DEF SimulateReads
<1>2. CatalogueInv' /\ Grows
  BY <1>1, CatalogueKept
<1>3. SavedInv'
  BY <1>1, <1>2, SavedKept
<1>4. BillFrom(Compute(i), subs[i], meters, log)
  BY <1>1, ComputeIsBill
<1>5. subs' = subs /\ scene' = scene /\ customer' = customer /\ log' = log
  BY <1>1 DEF catalogue
<1>6. BillFrom(sim.current, sim.sub, sim.meters, sim.log)'
  <2>1. sim'.current = Compute(i) /\ sim'.sub = subs[i] /\ sim'.meters = meters /\ sim'.log = log
    BY <1>1
  <2>2. PICK c, s, m, events : c = Compute(i) /\ s = subs[i] /\ m = meters /\ events = log
    OBVIOUS
  <2>3. BillFrom(c, s, m, events)
    BY <1>4, <2>2
  <2>4. BillFrom(c, s, m, events)'
    BY <1>5, <2>3 DEF BillFrom, Prices
  <2>5. sim'.current = c /\ sim'.sub = s /\ sim'.meters = m /\ sim'.log = events
    BY <2>1, <2>2
  <2>6. QED  BY <2>4, <2>5
<1>7. SimInv'
  <2>1. sim'.sub = subs'[i] /\ i \in DOMAIN subs' /\ sim'.log \subseteq log'
        /\ scene'.proposed # "none"
    BY <1>1, <1>5
  <2>2. QED  BY <1>6, <2>1 DEF SimInv
<1>8. QED  BY <1>2, <1>3, <1>7

-----------------------------------------------------------------------------
(* The invariant.                                                          *)

\* An empty store satisfies the invariant.
LEMMA BillingInitial == Init => BillingInv
<1>1. SUFFICES ASSUME Init PROVE BillingInv
  OBVIOUS
<1>2. CatalogueInv
  <2>1. /\ store \in {"memory", "postgres"} /\ scene \in Scenes
        /\ customer \in {Absent, 0, scene.tax}
        /\ plans \subseteq DOMAIN scene.plans
    BY <1>1 DEF Init
  <2>2. meters \in [MeterCodes -> Aggregations \cup {NoMeter}] /\ meters[TaxCode] = NoMeter
    BY <1>1, BillingAssumption DEF Init
  <2>3. subs \in Seq(Subscriptions) /\ DOMAIN subs = {}
    <3>1. subs = <<>>
      BY <1>1 DEF Init
    <3>2. QED  BY <3>1
  <2>4. log \subseteq scene.pool /\ IsFiniteSet(log)
    BY <1>1, FS_EmptySet DEF Init
  <2>5. QED  BY <2>1, <2>2, <2>3, <2>4 DEF CatalogueInv
<1>3. SavedInv /\ SimInv
  BY <1>1 DEF Init, SavedInv, SimInv
<1>4. QED  BY <1>2, <1>3 DEF BillingInv

\* Every step keeps the invariant.
LEMMA BillingStep == BillingInv /\ [Next]_vars => BillingInv'
<1>1. SUFFICES ASSUME BillingInv, [Next]_vars PROVE BillingInv'
  OBVIOUS
<1>2. CatalogueInv /\ SavedInv /\ SimInv
  BY <1>1 DEF BillingInv
<1>3. ASSUME CatalogueInv', Grows, UNCHANGED <<saved, sim>>
      PROVE  BillingInv'
  BY <1>2, <1>3, SavedKept, SimKept DEF BillingInv
<1>4. ASSUME CatalogueInv', Grows, SavedInv', UNCHANGED sim
      PROVE  BillingInv'
  BY <1>2, <1>4, SimKept DEF BillingInv
<1>5. CASE CreateCustomer
  BY <1>2, <1>3, <1>5, CreateCustomerStep DEF CreateCustomer
<1>6. ASSUME NEW w \in scene.writes, CreateMeter(w) \/ CreateMeterByAgent(w)
      PROVE  BillingInv'
  BY <1>2, <1>3, <1>6, MeterStep DEF CreateMeter, CreateMeterByAgent
<1>7. ASSUME NEW n \in DOMAIN scene.plans, CreatePlan(n)
      PROVE  BillingInv'
  BY <1>2, <1>3, <1>7, CreatePlanStep DEF CreatePlan
<1>8. ASSUME NEW n \in DOMAIN scene.plans, NEW t \in scene.periods,
             CreateSubscription(n, t) \/ AttachPlan(n, t)
      PROVE  BillingInv'
  BY <1>2, <1>3, <1>8, SubscribeStep DEF CreateSubscription, AttachPlan
<1>9. ASSUME NEW t \in scene.periods, NEW done \in 1..4, Quickstart(t, done)
      PROVE  BillingInv'
  BY <1>2, <1>3, <1>9, QuickstartStep DEF Quickstart
<1>10. ASSUME NEW e \in scene.pool, Ingest(e)
       PROVE  BillingInv'
  BY <1>2, <1>3, <1>10, IngestStep DEF Ingest
<1>11. ASSUME NEW i \in DOMAIN subs, NEW agent \in BOOLEAN, FinalizeComputes(i, agent)
       PROVE  BillingInv'
  BY <1>2, <1>4, <1>11, FinalizeComputesStep
<1>12. CASE FinalizeSaves
  BY <1>2, <1>4, <1>12, FinalizeSavesStep
<1>13. CASE RailEdits
  BY <1>2, <1>4, <1>13, RailEditsStep
<1>14. ASSUME NEW i \in DOMAIN subs, SimulateReads(i)
       PROVE  BillingInv'
  BY <1>2, <1>14, SimulateReadsStep DEF BillingInv
<1>15. CASE SimulateAnswers
  <2>1. UNCHANGED <<store, scene, catalogue, log, saved>> /\ sim' = None
    BY <1>15 DEF SimulateAnswers
  <2>2. CatalogueInv' /\ Grows
    BY <1>2, <2>1, CatalogueKept
  <2>3. SavedInv'
    BY <1>2, <2>1, <2>2, SavedKept
  <2>4. QED  BY <2>1, <2>2, <2>3 DEF BillingInv, SimInv
<1>16. CASE UNCHANGED vars
  <2>1. UNCHANGED <<store, scene, catalogue, log, saved, sim>>
    BY <1>16 DEF vars
  <2>2. CatalogueInv' /\ Grows
    BY <1>2, <2>1, CatalogueKept
  <2>3. QED  BY <1>3, <2>1, <2>2
<1>17. QED
  BY <1>1, <1>5, <1>6, <1>7, <1>8, <1>9, <1>10, <1>11, <1>12, <1>13, <1>14, <1>15, <1>16
     DEF Next, Catalogue

\* Every bill kept was computed from the books (CatalogueInv, SavedInv, SimInv).
THEOREM BillingInvariant == Spec => []BillingInv
<1>1. QED  BY BillingInitial, BillingStep, PTL DEF Spec

-----------------------------------------------------------------------------
(* Types, revenue, verification.                                           *)

\* The saved invoice's bill, and the draft's, are whole.
LEMMA SavedIsWhole ==
    ASSUME CatalogueInv, SavedInv
    PROVE  /\ draft # None => WholeBill(draft.bill)
           /\ invoice # None => WholeBill(invoice.bill)
<1>1. ASSUME draft # None
      PROVE  WholeBill(draft.bill)
  <2>1. PICK b, i : b = draft.bill /\ i = draft.sub
    OBVIOUS
  <2>2. BillOf(b, i)
    BY <1>1, <2>1 DEF SavedInv
  <2>3. WholeBill(b)
    BY <2>2, BillIsWhole
  <2>4. QED  BY <2>1, <2>3
<1>2. ASSUME invoice # None
      PROVE  WholeBill(invoice.bill)
  <2>1. PICK b, i : b = invoice.bill /\ i = invoice.sub
    OBVIOUS
  <2>2. BillOf(b, i)
    BY <1>2, <2>1 DEF SavedInv
  <2>3. WholeBill(b)
    BY <2>2, BillIsWhole
  <2>4. QED  BY <2>1, <2>3
<1>3. QED  BY <1>1, <1>2

\* A whole bill's total is a number of minor units, and it has lines.
LEMMA WholeBillUnits ==
    ASSUME NEW b, WholeBill(b)
    PROVE  MinorUnits(b.total, b.currency) * Unit(b.currency) = b.total
BY BillTotal, WholeType

\* The invariant types the state; amounts saved are whole minor units.
LEMMA InvImpliesTypes ==
    ASSUME CatalogueInv, SavedInv
    PROVE  BillingTypeOK
<1>1. /\ draft # None => WholeBill(draft.bill)
      /\ invoice # None => WholeBill(invoice.bill)
  BY SavedIsWhole
<1>2. \A b \in {draft, invoice} \ {None} : MinorUnits(b.bill.total, b.bill.currency)
                                            * Unit(b.bill.currency) = b.bill.total
  <2>1. ASSUME NEW b \in {draft, invoice} \ {None}
        PROVE  MinorUnits(b.bill.total, b.bill.currency) * Unit(b.bill.currency) = b.bill.total
    <3>1. WholeBill(b.bill)
      BY <1>1
    <3>2. QED  BY <3>1, WholeBillUnits
  <2>2. QED  BY <2>1
<1>3. invoice # None => ledger # <<>>
  <2>1. SUFFICES ASSUME invoice # None PROVE ledger # <<>>
    OBVIOUS
  <2>2. WholeBill(invoice.bill) /\ ledger \in RowsOf(invoice.bill)
    BY <1>1, <2>1 DEF SavedInv
  <2>3. DOMAIN ledger = DOMAIN invoice.bill.lines
    BY <2>2 DEF RowsOf, LedgerOf
  <2>4. 1 \in DOMAIN invoice.bill.lines
    <3>1. PICK lines : lines = invoice.bill.lines
      OBVIOUS
    <3>2. lines \in Seq(Range(lines)) /\ lines # <<>>
      BY <2>2, <3>1 DEF WholeBill, WholeLines
    <3>3. QED  BY <3>1, <3>2
  <2>5. QED  BY <2>3, <2>4
<1>4. (ledger = <<>>) = (invoice = None)
  BY <1>3 DEF SavedInv
<1>5. QED  BY <1>2, <1>4 DEF CatalogueInv, SavedInv, BillingTypeOK

\* The invariant and the lemmas on recognition give RecognitionAddsUp.
LEMMA InvImpliesRecognition ==
    ASSUME CatalogueInv, SavedInv
    PROVE  RecognitionAddsUp
<1>1. SUFFICES ASSUME invoice # None
               PROVE  LET b == invoice.bill
                          lines == ToSet(b.lines)
                      IN \A t \in (b.start - 1)..(b.end + 1) :
                            /\ \A l \in lines : l.amount >= 0 => RecognizedLine(l, b, t) \in 0..l.amount
                            /\ TotalDeferred(b, t) = DeferredOf(b, t)
                            /\ (\A l \in lines : l.amount >= 0) =>
                                  TotalRecognized(b, t) <= TotalRecognized(b, t + 1)
                            /\ t <= b.start => TotalRecognized(b, t) = 0
                            /\ t >= b.end => TotalDeferred(b, t) = 0
  BY DEF RecognitionAddsUp, DeferredOf
<1>2. PICK b : b = invoice.bill
  OBVIOUS
<1>3. WholeBill(b)
  BY <1>1, <1>2, SavedIsWhole
<1>4. b.start \in Int /\ b.end \in Int /\ ToSet(b.lines) = {b.lines[i] : i \in DOMAIN b.lines}
  BY <1>3 DEF WholeBill, ToSet
<1>5. ASSUME NEW t \in (b.start - 1)..(b.end + 1)
      PROVE  /\ \A l \in ToSet(b.lines) : l.amount >= 0 => RecognizedLine(l, b, t) \in 0..l.amount
             /\ TotalDeferred(b, t) = DeferredOf(b, t)
             /\ (\A l \in ToSet(b.lines) : l.amount >= 0) =>
                   TotalRecognized(b, t) <= TotalRecognized(b, t + 1)
             /\ t <= b.start => TotalRecognized(b, t) = 0
             /\ t >= b.end => TotalDeferred(b, t) = 0
  <2>1. t \in Int
    BY <1>4
  <2>2. \A i \in DOMAIN b.lines :
           b.lines[i].amount >= 0 => RecognizedLine(b.lines[i], b, t) \in 0..b.lines[i].amount
    BY <1>3, <2>1, LineRecognized
  <2>3. \A l \in ToSet(b.lines) : l.amount >= 0 => RecognizedLine(l, b, t) \in 0..l.amount
    BY <1>4, <2>2
  <2>4. (\A l \in ToSet(b.lines) : l.amount >= 0) => \A i \in DOMAIN b.lines : b.lines[i].amount >= 0
    BY <1>4
  <2>5. QED  BY <1>3, <2>1, <2>3, <2>4, RevenueAddsUp
<1>6. QED  BY <1>2, <1>5

\* Every rail that can be verified is sent the currency.
LEMMA VerifiableRails ==
    ASSUME NEW r \in ToSet(registry), Verifiable(Adapter(r))
    PROVE  Adapter(r).currency
BY RegistryNames DEF Verifiable, Adapter, Rail, stripe, dodo, paddle, lemonsqueezy, polar, creem,
                     razorpay, crypto

\* The invariant gives VerifyIsHonest: a stored invoice's rail document is of it.
LEMMA InvImpliesHonest ==
    ASSUME CatalogueInv, SavedInv
    PROVE  VerifyIsHonest
<1>1. SUFFICES ASSUME VerifiedNow, Upper(invoice.bill.currency) = invoice.bill.currency,
                      Adapter(rail).fallsBack => doc.total # 0
               PROVE  RailMatches
  BY DEF VerifyIsHonest
<1>2. doc # None /\ Verifiable(Adapter(rail)) /\ Verified(Adapter(rail), doc, invoice.bill)
  BY <1>1 DEF VerifiedNow
<1>3. rail \in ToSet(registry) /\ invoice # None
  BY <1>2 DEF SavedInv
<1>4. doc.currency = invoice.bill.currency
  BY <1>1, <1>2, <1>3, VerifiableRails DEF SavedInv
<1>5. doc.total = MinorUnits(invoice.bill.total, invoice.bill.currency)
  BY <1>1, <1>2 DEF Verified, Fetched
<1>6. WholeBill(invoice.bill)
  BY <1>3, SavedIsWhole
<1>7. QED  BY <1>4, <1>5, <1>6, WholeBillUnits DEF RailMatches

\* Types and shapes; amounts are whole minor units (BillingTypeOK).
THEOREM BillingTypeCorrect == Spec => []BillingTypeOK
<1>1. BillingInv => BillingTypeOK
  BY InvImpliesTypes DEF BillingInv
<1>2. QED  BY <1>1, BillingInvariant, PTL

\* Recognised and deferred revenue add up to the invoice (revrec.Recognize).
THEOREM RevenueIsWhole == Spec => []RecognitionAddsUp
<1>1. BillingInv => RecognitionAddsUp
  BY InvImpliesRecognition DEF BillingInv
<1>2. QED  BY <1>1, BillingInvariant, PTL

\* An invoice that verifies is billed to the ledger's amount (verifyInvoice).
THEOREM VerifiedIsBilledExactly == Spec => []VerifyIsHonest
<1>1. BillingInv => VerifyIsHonest
  BY InvImpliesHonest DEF BillingInv
<1>2. QED  BY <1>1, BillingInvariant, PTL

-----------------------------------------------------------------------------
(* Simulations.                                                            *)

\* Both bills of a simulation that can be answered are whole.
LEMMA SimulatedBills ==
    ASSUME CatalogueInv, SimInv, AnswersNow
    PROVE  /\ WholeBill(sim.current) /\ WholeBill(ProposedBill)
           /\ sim.sub \in Subscriptions
           /\ Books(MeterCodes, sim.sub, Prices(sim.sub), sim.meters, sim.log)
           /\ sim.current = Calculate(sim.sub, Prices(sim.sub), sim.meters, sim.log, customer)
<1>1. sim # None /\ Computable(sim.sub, Proposed, meters, log)
  BY DEF AnswersNow
<1>2. /\ BillFrom(sim.current, sim.sub, sim.meters, sim.log)
      /\ sim.sub \in Subscriptions /\ scene.proposed # "none"
  <2>1. PICK i \in DOMAIN subs : sim.sub = subs[i]
    BY <1>1 DEF SimInv
  <2>2. QED  BY <1>1, <2>1 DEF SimInv, CatalogueInv
<1>3. /\ Books(MeterCodes, sim.sub, Prices(sim.sub), sim.meters, sim.log)
      /\ sim.current = Calculate(sim.sub, Prices(sim.sub), sim.meters, sim.log, customer)
  BY <1>2 DEF BillFrom
<1>4. customer \in Int
  BY SceneIsOK
<1>5. WholeBill(Calculate(sim.sub, Prices(sim.sub), sim.meters, sim.log, customer))
  <2>1. PICK sub, prices, m, events : /\ sub = sim.sub /\ prices = Prices(sim.sub)
                                      /\ m = sim.meters /\ events = sim.log
    OBVIOUS
  <2>2. WholeBill(Calculate(sub, prices, m, events, customer))
    BY <1>3, <1>4, <2>1, BillShape
  <2>3. QED  BY <2>1, <2>2
<1>6. Books(MeterCodes, sim.sub, Proposed, meters, log)
  <2>1. Proposed \in Seq(PricesOn(MeterCodes)) /\ Proposed # <<>>
    BY <1>2, SceneIsOK DEF Proposed
  <2>2. QED  BY <1>1, <1>2, <2>1, SceneIsOK DEF Books, CatalogueInv, Subscriptions
<1>7. WholeBill(ProposedBill)
  <2>1. PICK sub, prices : sub = sim.sub /\ prices = Proposed
    OBVIOUS
  <2>2. WholeBill(Calculate(sub, prices, meters, log, customer))
    BY <1>4, <1>6, <2>1, BillShape
  <2>3. QED  BY <2>1, <2>2 DEF ProposedBill
<1>8. QED  BY <1>2, <1>3, <1>5, <1>7

\* A bill depends on the log only through the events of its prices.
LEMMA SameEventsSameBill ==
    ASSUME NEW sub, NEW prices, NEW m, NEW events, NEW more, NEW rate, events \subseteq more,
           \A k \in DOMAIN prices : Events(prices[k], sub, more \ events) = {}
    PROVE  Calculate(sub, prices, m, more, rate) = Calculate(sub, prices, m, events, rate)
<1>1. \A k \in DOMAIN prices : Events(prices[k], sub, more) = Events(prices[k], sub, events)
  BY DEF Events, InWindow
<1>2. \A k \in DOMAIN prices : PricedLine(prices[k], sub, m, more) = PricedLine(prices[k], sub, m, events)
  BY <1>1 DEF PricedLine, UsageLine
<1>3. [k \in DOMAIN prices |-> PricedLine(prices[k], sub, m, more)]
        = [k \in DOMAIN prices |-> PricedLine(prices[k], sub, m, events)]
  BY <1>2
<1>4. QED  BY <1>3 DEF Calculate

\* The invariant gives SimulationIsFair: both bills are of one subscription.
LEMMA InvImpliesFair ==
    ASSUME CatalogueInv, SimInv
    PROVE  SimulationIsFair
<1>1. SUFFICES ASSUME AnswersNow
               PROVE  LET c == sim.current
                          p == ProposedBill
                          codes == Codes(c) \cup Codes(p)
                      IN /\ (DistinctCodes(c) /\ DistinctCodes(p)) =>
                               MapThenSumSet(LAMBDA k : Max(Deltas(c, p, k)), codes) = TotalDelta(c, p)
                         /\ (/\ Proposed = Prices(sim.sub) /\ meters = sim.meters
                             /\ \A k \in DOMAIN Proposed :
                                   Events(Proposed[k], sim.sub, log \ sim.log) = {})
                               => TotalDelta(c, p) = 0 /\ Hash(c) = Hash(p)
  BY DEF SimulationIsFair
<1>2. PICK c, p : c = sim.current /\ p = ProposedBill
  OBVIOUS
<1>3. /\ WholeBill(c) /\ WholeBill(p)
      /\ c = Calculate(sim.sub, Prices(sim.sub), sim.meters, sim.log, customer)
      /\ sim.log \subseteq log
  BY <1>1, <1>2, SimulatedBills DEF SimInv, AnswersNow
<1>4. (DistinctCodes(c) /\ DistinctCodes(p)) =>
         MapThenSumSet(LAMBDA k : Max(Deltas(c, p, k)), Codes(c) \cup Codes(p)) = TotalDelta(c, p)
  <2>1. (DistinctCodes(c) /\ DistinctCodes(p)) => DeltasOf(c, p) = TotalDelta(c, p)
    BY <1>3, DeltasAddUp
  <2>2. QED  BY <2>1, Zenon DEF DeltasOf
<1>5. ASSUME Proposed = Prices(sim.sub), meters = sim.meters,
             \A k \in DOMAIN Proposed : Events(Proposed[k], sim.sub, log \ sim.log) = {}
      PROVE  TotalDelta(c, p) = 0 /\ Hash(c) = Hash(p)
  <2>1. PICK prices, sub, events : prices = Proposed /\ sub = sim.sub /\ events = sim.log
    OBVIOUS
  <2>2. Calculate(sub, prices, meters, log, customer) = Calculate(sub, prices, meters, events, customer)
    BY <1>3, <1>5, <2>1, SameEventsSameBill
  <2>3. p = c
    BY <1>2, <1>3, <1>5, <2>1, <2>2 DEF ProposedBill
  <2>4. c.total \in Int
    BY <1>3, BillTotal
  <2>5. QED  BY <2>3, <2>4 DEF TotalDelta
<1>6. QED  BY <1>2, <1>4, <1>5

\* A simulation's differences add up, and a plan compared with itself differs
\* in nothing (SimulatePlanChange, "can't disagree").
THEOREM SimulationsAreFair == Spec => []SimulationIsFair
<1>1. BillingInv => SimulationIsFair
  BY InvImpliesFair DEF BillingInv
<1>2. QED  BY <1>1, BillingInvariant, PTL

-----------------------------------------------------------------------------
(* Proofs of invoices (reconcile.Build).                                   *)

\* The rows of two ledgers agree.
LEMMA RowsAgreeIs ==
    ASSUME NEW rows, NEW live
    PROVE  RowsAgree(rows, live) =
             (/\ {r.code : r \in ToSet(Stored(rows))} = Codes(live)
              /\ \A code \in Codes(live) : LastOf(Stored(rows), code) = LastOf(Fresh(live), code))
BY Zenon DEF RowsAgree, Stored, Fresh

\* A bill, its ledger in any order, and a later bill of the same subscription.
LEMMA ProofOfBills ==
    ASSUME CatalogueInv, NEW sub, NEW m, NEW events, NEW b, BillFrom(b, sub, m, events),
           NEW later, NEW more, NEW live, BillFrom(live, sub, later, more),
           NEW rows \in RowsOf(b)
    PROVE  LET ok == Consistent(b, rows, live)
           IN /\ ok => b.total = live.total /\ Hash(b).lines = Hash(live).lines
              /\ (ok /\ DistinctCodes(b)) => ToSet(b.lines) = ToSet(live.lines)
              /\ (DistinctCodes(b) /\ b.lines = live.lines) => ok
<1>1. PICK prices : prices = Prices(sub)
  OBVIOUS
<1>2. /\ Books(MeterCodes, sub, prices, m, events) /\ b = Calculate(sub, prices, m, events, customer)
      /\ Books(MeterCodes, sub, prices, later, more)
      /\ live = Calculate(sub, prices, later, more, customer) /\ customer \in Int
  BY <1>1, SceneIsOK DEF BillFrom
<1>3. /\ WholeBill(b) /\ b.currency = prices[1].currency /\ b.start = sub.start /\ b.end = sub.end
  BY <1>2, BillShape
<1>4. /\ WholeBill(live) /\ live.currency = prices[1].currency /\ live.start = sub.start
      /\ live.end = sub.end
  BY <1>2, BillShape
<1>5. /\ rows # <<>> /\ rows[1].hash = Hash(b)
      /\ {r.code : r \in ToSet(Stored(rows))} = Codes(b)
      /\ DistinctCodes(b) => \A i \in DOMAIN b.lines :
                                LastOf(Stored(rows), b.lines[i].code) = Row(b.lines[i])
  <2>1. rows \in [DOMAIN b.lines -> ToSet(LedgerOf(b))] /\ ToBag(rows) = ToBag(LedgerOf(b))
    <3>1. DOMAIN LedgerOf(b) = DOMAIN b.lines
      BY DEF LedgerOf
    <3>2. QED  BY <3>1 DEF RowsOf
  <2>2. QED  BY <1>3, <2>1, RowsJoined
<1>6. DistinctCodes(live) => \A j \in DOMAIN live.lines :
         LastOf(Fresh(live), live.lines[j].code) = Row(live.lines[j])
  <2>1. PICK kept : kept = LedgerOf(live)
    OBVIOUS
  <2>2. kept \in [DOMAIN live.lines -> ToSet(LedgerOf(live))] /\ ToBag(kept) = ToBag(LedgerOf(live))
    <3>1. LedgerOf(live) \in [DOMAIN live.lines -> ToSet(LedgerOf(live))]
      BY DEF LedgerOf, ToSet
    <3>2. QED  BY <2>1, <3>1
  <2>3. QED  BY <1>4, <2>2, RowsJoined
<1>7. /\ \A i \in DOMAIN b.lines : IsLine(b.lines[i])
      /\ \A j \in DOMAIN live.lines : IsLine(live.lines[j])
  <2> HIDE DEF IsLine
  <2>1. QED  BY <1>2, BillLines
<1>8. /\ Codes(b) = {b.lines[i].code : i \in DOMAIN b.lines}
      /\ Codes(live) = {live.lines[i].code : i \in DOMAIN live.lines}
  BY <1>3, <1>4, CodesNameLines
<1>9. ASSUME Consistent(b, rows, live)
      PROVE  /\ b.total = live.total /\ Hash(b).lines = Hash(live).lines
             /\ RowsAgree(rows, live)
  BY <1>5, <1>9 DEF Consistent
<1>10. ASSUME Consistent(b, rows, live), DistinctCodes(b)
       PROVE  ToSet(b.lines) = ToSet(live.lines)
  <2> DEFINE s == [i \in DOMAIN b.lines |-> Hashed(b.lines[i])]
             t == [i \in DOMAIN live.lines |-> Hashed(live.lines[i])]
  <2>1. ToBag(s) = ToBag(t)
    BY <1>9, <1>10 DEF Hash
  <2>2. /\ DOMAIN s = DOMAIN b.lines /\ \A i \in DOMAIN b.lines : s[i] = Hashed(b.lines[i])
        /\ DOMAIN t = DOMAIN live.lines /\ \A i \in DOMAIN live.lines : t[i] = Hashed(live.lines[i])
    OBVIOUS
  <2>3. IsFiniteSet(DOMAIN b.lines) /\ IsFiniteSet(DOMAIN live.lines)
    BY <1>3, <1>4, CodesNameLines
  <2>4. \A l : Hashed(l).code = l.code /\ Hashed(l).qty = l.qty /\ Hashed(l).price = l.price
               /\ Hashed(l).amount = l.amount
    BY DEF Hashed
  <2> HIDE DEF s, t
  <2>5. \A i, j \in DOMAIN s : s[i] = s[j] => i = j
    <3>1. \A i, j \in DOMAIN b.lines : b.lines[i].code = b.lines[j].code => i = j
      BY <1>3, <1>10, CodesNameLines
    <3>2. QED  BY <2>2, <2>4, <3>1
  <2>6. Range(s) = Range(t) /\ \A i, j \in DOMAIN t : t[i] = t[j] => i = j
    BY <2>1, <2>2, <2>3, <2>5, SameBag
  <2>7. /\ \A i \in DOMAIN b.lines : \E j \in DOMAIN live.lines :
              Hashed(b.lines[i]) = Hashed(live.lines[j])
        /\ \A j \in DOMAIN live.lines : \E i \in DOMAIN b.lines :
              Hashed(b.lines[i]) = Hashed(live.lines[j])
    BY <2>2, <2>6 DEF Range
  <2>8. \A i, j \in DOMAIN live.lines : live.lines[i].code = live.lines[j].code => i = j
    <3>1. ASSUME NEW i \in DOMAIN live.lines, NEW j \in DOMAIN live.lines,
                 live.lines[i].code = live.lines[j].code
          PROVE  i = j
      <4>1. PICK x \in DOMAIN b.lines : Hashed(b.lines[x]) = Hashed(live.lines[i])
        BY <2>7
      <4>2. PICK y \in DOMAIN b.lines : Hashed(b.lines[y]) = Hashed(live.lines[j])
        BY <2>7
      <4>3. b.lines[x].code = b.lines[y].code
        BY <2>4, <3>1, <4>1, <4>2
      <4>4. x = y
        BY <1>3, <1>10, <4>3, CodesNameLines
      <4>5. QED  BY <2>2, <2>6, <4>1, <4>2, <4>4
    <3>2. QED  BY <3>1
  <2>9. DistinctCodes(live)
    <3>1. CodeAt(live) \in Bijection(DOMAIN live.lines, Codes(live))
      <4>1. \A i \in DOMAIN live.lines : CodeAt(live)[i] = live.lines[i].code
        BY DEF CodeAt
      <4>2. CodeAt(live) \in [DOMAIN live.lines -> Codes(live)]
        BY <1>8 DEF CodeAt
      <4>3. QED  BY <1>8, <2>8, <4>1, <4>2 DEF Bijection, Injection, Surjection, IsInjective
    <3>2. Cardinality(Codes(live)) = Cardinality(DOMAIN live.lines)
      BY <2>3, <3>1, FS_Bijection DEF ExistsBijection
    <3>3. QED  BY <1>4, <3>2, CodesNameLines DEF DistinctCodes
  <2>10. ASSUME NEW i \in DOMAIN b.lines, NEW j \in DOMAIN live.lines,
                Hashed(b.lines[i]) = Hashed(live.lines[j])
         PROVE  b.lines[i] = live.lines[j]
    <3>1. /\ b.lines[i].code = live.lines[j].code /\ b.lines[i].qty = live.lines[j].qty
          /\ b.lines[i].price = live.lines[j].price /\ b.lines[i].amount = live.lines[j].amount
      BY <2>4, <2>10
    <3>2. b.lines[i].model = live.lines[j].model
      BY <1>2, <1>10, <3>1, SameModels
    <3>3. LastOf(Stored(rows), b.lines[i].code) = Row(b.lines[i])
      BY <1>5, <1>10
    <3>4. LastOf(Fresh(live), b.lines[i].code) = Row(live.lines[j])
      BY <1>6, <2>9, <3>1
    <3>5. LastOf(Stored(rows), b.lines[i].code) = LastOf(Fresh(live), b.lines[i].code)
      <4>1. b.lines[i].code \in Codes(live)
        BY <1>8, <3>1
      <4>2. QED  BY <1>9, <1>10, <4>1, RowsAgreeIs
    <3>6. b.lines[i].count = live.lines[j].count
      BY <3>3, <3>4, <3>5 DEF Row
    <3>7. QED  BY <1>7, <3>1, <3>2, <3>6 DEF IsLine
  <2>11. /\ \A i \in DOMAIN b.lines : \E j \in DOMAIN live.lines : b.lines[i] = live.lines[j]
         /\ \A j \in DOMAIN live.lines : \E i \in DOMAIN b.lines : b.lines[i] = live.lines[j]
    BY <2>7, <2>10
  <2>12. QED  BY <2>11 DEF ToSet
<1>11. ASSUME DistinctCodes(b), b.lines = live.lines
       PROVE  Consistent(b, rows, live)
  <2>1. b.total = live.total
    BY <1>3, <1>4, <1>11 DEF WholeBill
  <2>2. Hash(b) = Hash(live)
    BY <1>3, <1>4, <1>11, <2>1 DEF Hash
  <2>3. Codes(b) = Codes(live) /\ DistinctCodes(live)
    BY <1>11 DEF Codes, DistinctCodes
  <2>4. \A code \in Codes(live) : LastOf(Stored(rows), code) = LastOf(Fresh(live), code)
    BY <1>5, <1>6, <1>8, <1>11, <2>3
  <2>5. RowsAgree(rows, live)
    BY <1>5, <2>3, <2>4, RowsAgreeIs
  <2>6. QED  BY <1>5, <2>1, <2>2, <2>5 DEF Consistent
<1>12. QED  BY <1>9, <1>10, <1>11

\* The invariant gives ProofIsRight, whatever order the rows are read back in.
LEMMA InvImpliesProof ==
    ASSUME CatalogueInv, SavedInv
    PROVE  ProofIsRight
<1>1. SUFFICES ASSUME invoice # None, CanCompute(invoice.sub)
               PROVE  LET b == invoice.bill
                          ok == ReconcileSays
                      IN /\ ok => b.total = Live.total /\ Hash(b).lines = Hash(Live).lines
                         /\ (ok /\ DistinctCodes(b)) => ToSet(b.lines) = ToSet(Live.lines)
                         /\ (DistinctCodes(b) /\ b.lines = Live.lines) => ok
  BY DEF ProofIsRight
<1>2. PICK b, live, i : b = invoice.bill /\ live = Live /\ i = invoice.sub
  OBVIOUS
<1>3. BillOf(b, i) /\ ledger \in RowsOf(b)
  BY <1>1, <1>2 DEF SavedInv
<1>4. i \in DOMAIN subs
  BY <1>3 DEF BillOf
<1>5. PICK m, events : BillFrom(b, subs[i], m, events)
  BY <1>3 DEF BillOf
<1>6. BillFrom(live, subs[i], meters, log)
  <2>1. live = Compute(i) /\ CanCompute(i)
    BY <1>1, <1>2 DEF Live
  <2>2. QED  BY <1>4, <2>1, ComputeIsBill
<1>7. LET ok == Consistent(b, ledger, live)
      IN /\ ok => b.total = live.total /\ Hash(b).lines = Hash(live).lines
         /\ (ok /\ DistinctCodes(b)) => ToSet(b.lines) = ToSet(live.lines)
         /\ (DistinctCodes(b) /\ b.lines = live.lines) => ok
  BY <1>3, <1>5, <1>6, ProofOfBills
<1>8. QED  BY <1>2, <1>7 DEF ReconcileSays

\* A proof that says consistent is right, and it raises no false alarm
\* (reconcile.Build).
THEOREM ProofsAreRight == Spec => []ProofIsRight
<1>1. BillingInv => ProofIsRight
  BY InvImpliesProof DEF BillingInv
<1>2. QED  BY <1>1, BillingInvariant, PTL

-----------------------------------------------------------------------------
(* Charges against their reference.                                        *)

\* The units of 1..q a tier holds.
UnitsHeld(lower, t, q) ==
    LET top == IF t.upTo = Unbounded \/ q <= t.upTo THEN q ELSE t.upTo
    IN IF lower < top THEN top - lower ELSE 0

\* The bounds of a valid ladder: every tier begins where the one before it ends.
LEMMA LowerBounds ==
    ASSUME NEW tiers \in Seq(Tiers), LadderOK(tiers), NEW i \in 1..Len(tiers)
    PROVE  /\ LowerOf(tiers, i) \in Nat
           /\ tiers[i].upTo = Unbounded \/ (tiers[i].upTo \in Nat /\ tiers[i].upTo > LowerOf(tiers, i))
           /\ tiers[i].upTo = Unbounded <=> i = Len(tiers)
           /\ tiers[i] \in Tiers
<1> DEFINE n == Len(tiers)
<1>1. /\ n \in Nat \ {0} /\ DOMAIN tiers = 1..n /\ tiers[n].upTo = Unbounded
      /\ \A k \in 1..(n - 1) : tiers[k].upTo \in Nat \ {0}
      /\ \A k, j \in 1..(n - 1) : k < j => tiers[k].upTo < tiers[j].upTo
  BY LadderAscends
<1>2. tiers[i] \in Tiers
  BY <1>1
<1> HIDE DEF n
<1>3. i \in 1..n
  BY DEF n
<1>4. CASE i = 1
  <2>1. LowerOf(tiers, i) = 0
    BY <1>4 DEF LowerOf
  <2>2. QED  BY <1>1, <1>2, <1>3, <1>4, <2>1 DEF n, Unbounded
<1>5. CASE i # 1
  <2>1. LowerOf(tiers, i) = tiers[i - 1].upTo /\ i - 1 \in 1..(n - 1)
    BY <1>1, <1>3, <1>5 DEF LowerOf
  <2>2. CASE i = n
    BY <1>1, <1>2, <2>1, <2>2 DEF n
  <2>3. CASE i # n
    <3>1. i \in 1..(n - 1) /\ i - 1 < i
      BY <1>1, <1>3, <2>3
    <3>2. tiers[i].upTo \in Nat \ {0} /\ tiers[i - 1].upTo < tiers[i].upTo
          /\ tiers[i - 1].upTo \in Nat
      BY <1>1, <2>1, <3>1
    <3>3. QED  BY <1>2, <2>1, <2>3, <3>2 DEF n, Unbounded
  <2>4. QED  BY <2>2, <2>3
<1>6. QED  BY <1>4, <1>5

\* The units of a quantity that lie in a tier, counted.
LEMMA TierUnits ==
    ASSUME NEW tiers \in Seq(Tiers), LadderOK(tiers), NEW i \in 1..Len(tiers), NEW q \in Nat
    PROVE  Cardinality({u \in 1..q : HoldsUnit(tiers, i, u)})
             = UnitsHeld(LowerOf(tiers, i), tiers[i], q)
<1> DEFINE lower == LowerOf(tiers, i)
           up == tiers[i].upTo
           top == IF up = Unbounded \/ q <= up THEN q ELSE up
           held == {u \in 1..q : HoldsUnit(tiers, i, u)}
<1>1. lower \in Nat /\ (up = Unbounded \/ up \in Nat)
  BY LowerBounds
<1>2. \A u \in 1..q : HoldsUnit(tiers, i, u) <=> lower < u /\ (up = Unbounded \/ u <= up)
  BY DEF HoldsUnit
<1> HIDE DEF lower, up
<1>3. held = (lower + 1)..top
  BY <1>1, <1>2
<1>4. top \in Int /\ lower + 1 \in Int
  BY <1>1
<1> HIDE DEF top, held
<1>5. Cardinality(held) = IF lower + 1 > top THEN 0 ELSE top - (lower + 1) + 1
  BY <1>3, <1>4, FS_Interval
<1>6. Cardinality(held) = IF lower < top THEN top - lower ELSE 0
  BY <1>1, <1>4, <1>5
<1>7. QED  BY <1>6 DEF held, top, up, lower, UnitsHeld

\* A tier takes what it holds.
LEMMA TierTakesUnits ==
    ASSUME NEW acc \in Purses, NEW t \in Tiers, NEW q \in Nat, NEW lower \in Nat,
           acc.left = IF q > lower THEN q - lower ELSE 0,
           q > lower => acc.lower = lower,
           t.upTo = Unbounded \/ (t.upTo \in Nat /\ t.upTo > lower)
    PROVE  LET next == TierTakes(acc, t)
           IN /\ next.total = acc.total + (t.unit * UnitsHeld(lower, t, q)
                                             + (IF lower < q THEN t.flat ELSE 0))
              /\ t.upTo # Unbounded => /\ next.left = IF q > t.upTo THEN q - t.upTo ELSE 0
                                       /\ q > t.upTo => next.lower = t.upTo
<1> DEFINE n == IF t.upTo = Unbounded THEN acc.left ELSE Min({acc.left, t.upTo - acc.lower})
<1>1. /\ acc.total \in Int /\ acc.left \in Int /\ acc.lower \in Int
      /\ t.upTo \in Int /\ t.unit \in Int /\ t.flat \in Int
  BY DEF Purses, Tiers
<1>2. Min({acc.left, t.upTo - acc.lower})
        = IF acc.left <= t.upTo - acc.lower THEN acc.left ELSE t.upTo - acc.lower
  BY <1>1, TwoNumbers
<1>3. TierTakes(acc, t) =
        IF n <= 0 THEN acc
        ELSE [total |-> acc.total + n * t.unit + t.flat, left |-> acc.left - n, lower |-> t.upTo]
  BY DEF TierTakes
<1>4. CASE q <= lower
  <2>1. acc.left = 0
    BY <1>4
  <2>2. n <= 0
    BY <1>1, <1>2, <2>1
  <2> HIDE DEF n
  <2>3. TierTakes(acc, t) = acc
    BY <1>3, <2>2
  <2>4. UnitsHeld(lower, t, q) = 0
    BY <1>1, <1>4 DEF UnitsHeld
  <2>5. t.unit * 0 = 0
    BY <1>1
  <2>6. QED  BY <1>1, <1>4, <2>1, <2>3, <2>4, <2>5
<1>5. CASE q > lower
  <2>1. acc.left = q - lower /\ acc.lower = lower
    BY <1>5
  <2>2. n = UnitsHeld(lower, t, q) /\ n > 0 /\ n \in Int
    BY <1>1, <1>2, <1>5, <2>1 DEF UnitsHeld
  <2>3. t.upTo # Unbounded => /\ acc.left - n = IF q > t.upTo THEN q - t.upTo ELSE 0
    BY <1>1, <1>2, <1>5, <2>1
  <2> HIDE DEF n
  <2>4. TierTakes(acc, t) =
          [total |-> acc.total + n * t.unit + t.flat, left |-> acc.left - n, lower |-> t.upTo]
    BY <1>3, <2>2
  <2>5. n * t.unit = t.unit * n /\ n * t.unit \in Int
    BY <1>1, <2>2
  <2>6. acc.total + n * t.unit + t.flat = acc.total + (t.unit * n + t.flat)
    BY <1>1, <2>5
  <2>7. QED  BY <1>5, <2>2, <2>3, <2>4, <2>6
<1>6. QED  BY <1>4, <1>5

\* The graduated price is that of the units one by one.
LEMMA GraduatedIsReference ==
    ASSUME NEW tiers \in Seq(Tiers), LadderOK(tiers), NEW q \in Nat
    PROVE  Graduated(tiers, q) = GraduatedReference(tiers, q)
<1> DEFINE n == Len(tiers)
           D == DOMAIN tiers
           f == [i \in D |-> tiers[i].unit * UnitsHeld(LowerOf(tiers, i), tiers[i], q)
                               + (IF LowerOf(tiers, i) < q THEN tiers[i].flat ELSE 0)]
           price(i) == tiers[i].unit * Cardinality({u \in 1..q : HoldsUnit(tiers, i, u)})
                         + (IF LowerOf(tiers, i) < q THEN tiers[i].flat ELSE 0)
           P(it) == it = [s \in SUBSET D |->
                            IF s = {} THEN 0
                            ELSE price(CHOOSE x \in s : TRUE) + it[s \ {CHOOSE x \in s : TRUE}]]
           Q(it) == it = [s \in SUBSET D |->
                            IF s = {} THEN 0
                            ELSE f[CHOOSE x \in s : TRUE] + it[s \ {CHOOSE x \in s : TRUE}]]
           it == CHOOSE it : P(it)
<1>1. n \in Nat \ {0} /\ D = 1..n
  BY LadderAscends
<1>2. \A i \in D : f[i] = price(i)
  BY <1>1, TierUnits
<1>3. \A i \in D : f[i] \in Int
  <2>1. ASSUME NEW i \in D PROVE f[i] \in Int
    <3>1. /\ LowerOf(tiers, i) \in Nat /\ (tiers[i].upTo = Unbounded \/ tiers[i].upTo \in Nat)
          /\ tiers[i] \in Tiers
      BY <1>1, LowerBounds
    <3>2. tiers[i].unit \in Int /\ tiers[i].flat \in Int
      BY <3>1 DEF Tiers
    <3>3. UnitsHeld(LowerOf(tiers, i), tiers[i], q) \in Int
      BY <3>1 DEF UnitsHeld
    <3>4. tiers[i].unit * UnitsHeld(LowerOf(tiers, i), tiers[i], q) \in Int
      BY <3>2, <3>3
    <3>5. QED  BY <3>2, <3>4
  <2>2. QED  BY <2>1
<1>4. Summable(f, D)
  <2>1. IsFiniteSet(D)
    <3>1. 1 \in Int /\ n \in Int
      BY <1>1
    <3>2. QED  BY <1>1, <3>1, FS_Interval
  <2>2. DOMAIN f = D
    OBVIOUS
  <2> HIDE DEF f
  <2>3. QED  BY <1>3, <2>1, <2>2 DEF Summable
<1>5. GraduatedReference(tiers, q) = SumOf(f, D)
  <2>1. \A i : P(i) <=> Q(i)
    <3> HIDE DEF f, price
    <3>1. \A s \in SUBSET D : s # {} =>
             f[CHOOSE x \in s : TRUE] = price(CHOOSE x \in s : TRUE)
      BY <1>2
    <3>2. QED  BY <3>1
  <2>2. (\E i : Q(i)) /\ \A i : Q(i) => i[D] = SumOf(f, D)
    <3> HIDE DEF f, D
    <3>1. QED  BY <1>4, ChoiceAdds
  <2>3. GraduatedReference(tiers, q) = it[D]
    BY DEF GraduatedReference, MapThenSumSet, MapThenFoldSet
  <2> HIDE DEF P, Q
  <2>4. P(it)
    BY <2>1, <2>2, Zenon
  <2>5. QED  BY <2>1, <2>2, <2>3, <2>4
<1>6. PICK g \in [0..n -> Purses] :
              /\ g[0] = FullPurse(q)
              /\ \A k \in 1..n : g[k] = TierTakes(g[k - 1], tiers[k])
              /\ Graduated(tiers, q) = g[n].total
  BY GraduatedRuns
<1> DEFINE part(k) == SumOf(f, 1..k)
           Lower(k) == LowerOf(tiers, k)
           Good(k) == /\ g[k].total = part(k)
                      /\ k < n => /\ g[k].left = IF q > Lower(k + 1) THEN q - Lower(k + 1) ELSE 0
                                  /\ q > Lower(k + 1) => g[k].lower = Lower(k + 1)
<1>7. Good(0)
  <2>1. g[0].total = 0 /\ g[0].left = q /\ g[0].lower = 0
    BY <1>6 DEF FullPurse
  <2>2. part(0) = 0
    <3>1. 1..0 = {}
      OBVIOUS
    <3>2. QED  BY <3>1, SumEmpty
  <2>3. Lower(0 + 1) = 0
    BY DEF LowerOf
  <2>4. QED  BY <2>1, <2>2, <2>3
<1>8. ASSUME NEW k \in 1..n, Good(k - 1)
      PROVE  Good(k)
  <2>1. k - 1 \in 0..n /\ k \in 0..n /\ k - 1 < n /\ (k - 1) + 1 = k /\ (k + 1) - 1 = k /\ k \in D
    BY <1>1
  <2>2. /\ Lower(k) \in Nat
        /\ tiers[k].upTo = Unbounded \/ (tiers[k].upTo \in Nat /\ tiers[k].upTo > Lower(k))
        /\ tiers[k].upTo = Unbounded <=> k = n
        /\ tiers[k] \in Tiers
    BY LowerBounds
  <2>3. g[k - 1] \in Purses /\ g[k] = TierTakes(g[k - 1], tiers[k])
    BY <1>6, <2>1
  <2>4. /\ g[k - 1].total = part(k - 1)
        /\ g[k - 1].left = IF q > Lower(k) THEN q - Lower(k) ELSE 0
        /\ q > Lower(k) => g[k - 1].lower = Lower(k)
    BY <1>8, <2>1
  <2>5. part(k) = f[k] + part(k - 1)
    <3>1. 1..k \in SUBSET D /\ k \in 1..k /\ (1..k) \ {k} = 1..(k - 1)
      BY <1>1
    <3>2. Summable(f, 1..k)
      <4> HIDE DEF f, D
      <4>1. QED  BY <1>4, <3>1, SumPart
    <3> HIDE DEF f
    <3>3. SumOf(f, 1..k) = f[k] + SumOf(f, (1..k) \ {k})
      BY <3>1, <3>2, SumSplit
    <3>4. QED  BY <3>1, <3>3
  <2>6. part(k - 1) \in Int
    <3>1. 1..(k - 1) \in SUBSET D
      BY <1>1
    <3> HIDE DEF f, D
    <3>2. QED  BY <1>4, <3>1, SumPart, SumType
  <2>7. f[k] = tiers[k].unit * UnitsHeld(Lower(k), tiers[k], q)
                 + (IF Lower(k) < q THEN tiers[k].flat ELSE 0)
    BY <2>1
  <2>8. f[k] \in Int
    BY <1>3, <2>1
  <2>9. k < n => Lower(k + 1) = tiers[k].upTo
    BY <2>1 DEF LowerOf
  <2> HIDE DEF f, part, Lower
  <2>10. /\ g[k].total = g[k - 1].total + f[k]
         /\ tiers[k].upTo # Unbounded =>
               /\ g[k].left = IF q > tiers[k].upTo THEN q - tiers[k].upTo ELSE 0
               /\ q > tiers[k].upTo => g[k].lower = tiers[k].upTo
    BY <2>2, <2>3, <2>4, <2>7, TierTakesUnits
  <2>11. g[k].total = part(k)
    BY <2>4, <2>5, <2>6, <2>8, <2>10
  <2>12. QED  BY <2>2, <2>9, <2>10, <2>11
<1> HIDE DEF Good
<1>9. Good(n)
  <2> DEFINE Bad == {k \in 0..n : ~Good(k)}
  <2>1. SUFFICES ASSUME Bad # {} PROVE FALSE
    BY <1>1
  <2>2. Bad \in SUBSET (0..n) /\ Bad \in SUBSET Int
    BY <1>1
  <2>3. IsFiniteSet(Bad)
    <3> HIDE DEF Bad
    <3>1. 0 \in Int /\ n \in Int
      BY <1>1
    <3>2. IsFiniteSet(0..n)
      BY <3>1, FS_Interval
    <3>3. QED  BY <2>2, <3>2, FS_Subset
  <2>4. PICK k \in Bad : \A y \in Bad : k =< y
    <3> HIDE DEF Bad
    <3>1. QED  BY <2>1, <2>2, <2>3, MinIsLeast
  <2>5. k # 0 /\ k \in 0..n /\ ~Good(k)
    BY <1>7, <2>4
  <2>6. k \in 1..n /\ k - 1 \in 0..n /\ ~(k <= k - 1)
    BY <1>1, <2>5
  <2>7. Good(k - 1)
    BY <2>4, <2>6
  <2>8. QED  BY <1>8, <2>5, <2>6, <2>7
<1>10. g[n].total = part(n)
  BY <1>9 DEF Good
<1>11. QED  BY <1>1, <1>5, <1>6, <1>10

\* The volume price is that of the one tier that holds the last unit.
LEMMA VolumeIsReference ==
    ASSUME NEW tiers \in Seq(Tiers), LadderOK(tiers), NEW q \in Nat
    PROVE  Volume(tiers, q) = VolumeReference(tiers, q)
<1> DEFINE n == Len(tiers)
           u == IF q >= 1 THEN q ELSE 1
<1>1. /\ n \in Nat \ {0} /\ DOMAIN tiers = 1..n /\ tiers[n].upTo = Unbounded
      /\ \A k \in 1..(n - 1) : tiers[k].upTo \in Nat \ {0}
      /\ \A k, j \in 1..(n - 1) : k < j => tiers[k].upTo < tiers[j].upTo
  BY LadderAscends
<1>2. Max({q, 1}) = u
  <2>1. q \in Int /\ 1 \in Int
    OBVIOUS
  <2>2. Max({q, 1}) = IF q >= 1 THEN q ELSE 1
    BY <2>1, TwoNumbers
  <2>3. QED  BY <2>2
<1>3. PICK i \in DOMAIN tiers :
              /\ Volume(tiers, q) = q * tiers[i].unit + tiers[i].flat
              /\ tiers[i].upTo = Unbounded \/ q <= tiers[i].upTo
              /\ \A j \in DOMAIN tiers :
                    j < i => ~(tiers[j].upTo = Unbounded \/ q <= tiers[j].upTo)
  BY VolumeTier
<1> HIDE DEF n
<1>4. \A k \in 1..n : k = n \/ k \in 1..(n - 1)
  BY <1>1
<1>5. \A k \in 1..n : LowerOf(tiers, k) = IF k = 1 THEN 0 ELSE tiers[k - 1].upTo
  BY DEF LowerOf
<1>6. \A k \in 1..n : HoldsUnit(tiers, k, u) <=>
         LowerOf(tiers, k) < u /\ (tiers[k].upTo = Unbounded \/ u <= tiers[k].upTo)
  BY DEF HoldsUnit
<1>7. HoldsUnit(tiers, i, u)
  <2>1. LowerOf(tiers, i) < u
    <3>1. CASE i = 1
      BY <1>1, <1>5, <3>1
    <3>2. CASE i # 1
      <4>1. i - 1 \in 1..(n - 1) /\ i - 1 < i /\ i - 1 \in DOMAIN tiers
        BY <1>1, <1>3, <3>2
      <4>2. ~(q <= tiers[i - 1].upTo) /\ tiers[i - 1].upTo \in Nat \ {0}
        BY <1>1, <1>3, <4>1
      <4>3. QED  BY <1>1, <1>3, <1>5, <3>2, <4>2
    <3>3. QED  BY <3>1, <3>2
  <2>2. tiers[i].upTo = Unbounded \/ u <= tiers[i].upTo
    BY <1>1, <1>3, <1>4
  <2>3. QED  BY <1>1, <1>3, <1>6, <2>1, <2>2
<1>8. ASSUME NEW k \in 1..n, HoldsUnit(tiers, k, u)
      PROVE  k = i
  <2>1. i \in 1..n
    BY <1>1, <1>3
  <2>2. CASE k < i
    <3>1. /\ tiers[k].upTo # Unbounded /\ ~(q <= tiers[k].upTo)
      BY <1>1, <1>3, <2>2
    <3>2. k \in 1..(n - 1)
      BY <1>1, <1>4, <3>1
    <3>3. tiers[k].upTo \in Nat \ {0}
      BY <1>1, <3>2
    <3>4. QED  BY <1>6, <1>8, <3>1, <3>3
  <2>3. CASE i < k
    <3>1. i \in 1..(n - 1) /\ k - 1 \in 1..(n - 1) /\ k # 1
      BY <1>1, <2>1, <2>3
    <3>2. tiers[i].upTo \in Nat \ {0} /\ tiers[k - 1].upTo \in Nat \ {0}
          /\ tiers[i].upTo <= tiers[k - 1].upTo
      <4>1. tiers[i].upTo \in Nat \ {0} /\ tiers[k - 1].upTo \in Nat \ {0}
        BY <1>1, <3>1
      <4>2. CASE i = k - 1
        BY <4>1, <4>2
      <4>3. CASE i # k - 1
        <5>1. i < k - 1
          BY <2>3, <3>1, <4>3
        <5>2. tiers[i].upTo < tiers[k - 1].upTo
          BY <1>1, <3>1, <5>1
        <5>3. QED  BY <4>1, <5>2
      <4>4. QED  BY <4>1, <4>2, <4>3
    <3>3. q <= tiers[i].upTo
      BY <1>3, <3>2 DEF Unbounded
    <3>4. u <= tiers[k - 1].upTo /\ u \in Int
      BY <3>2, <3>3
    <3>5. tiers[k - 1].upTo < u
      BY <1>5, <1>6, <1>8, <3>1
    <3>6. QED  BY <3>2, <3>4, <3>5
  <2>4. k \in Int /\ i \in Int
    BY <1>1, <2>1
  <2>5. QED  BY <2>2, <2>3, <2>4
<1>9. (CHOOSE k \in DOMAIN tiers : HoldsUnit(tiers, k, u)) = i
  BY <1>1, <1>3, <1>7, <1>8
<1> HIDE DEF u
<1>10. VolumeReference(tiers, q) = q * tiers[i].unit + tiers[i].flat
  BY <1>2, <1>9 DEF VolumeReference
<1>11. QED  BY <1>3, <1>10

\* What a price costs is its reference, whatever the model.
LEMMA BaseIsReference ==
    ASSUME NEW codes, NEW p \in PricesOn(codes), Priceable(p), NEW q \in Nat
    PROVE  Base(p, q) = Reference(p, q)
<1>1. p.model \in ModelNames /\ p.unit \in Int /\ p.percent \in Int /\ p.size \in Int
      /\ p.tiers \in Seq(Tiers)
  BY PriceFields
<1>2. CASE p.model = "flat"
  BY <1>2 DEF Base, Reference
<1>3. CASE p.model = "per_unit"
  <2> DEFINE S == 1..q
             f == [x \in S |-> p.unit]
             P(it) == it = [s \in SUBSET S |->
                              IF s = {} THEN 0 ELSE p.unit + it[s \ {CHOOSE x \in s : TRUE}]]
             Q(it) == it = [s \in SUBSET S |->
                              IF s = {} THEN 0
                              ELSE f[CHOOSE x \in s : TRUE] + it[s \ {CHOOSE x \in s : TRUE}]]
             it == CHOOSE it : P(it)
  <2>1. IsFiniteSet(S) /\ Cardinality(S) = q
    <3>1. 1 \in Int /\ q \in Int
      OBVIOUS
    <3>2. QED  BY <3>1, FS_Interval
  <2>2. DOMAIN f = S /\ \A x \in S : f[x] = p.unit
    OBVIOUS
  <2> HIDE DEF S, f
  <2>3. Summable(f, S) /\ SumOf(f, S) = p.unit * q
    BY <1>1, <2>1, <2>2, SumConstant
  <2>4. \A i : P(i) <=> Q(i)
    <3>1. \A s \in SUBSET S : s # {} => f[CHOOSE x \in s : TRUE] = p.unit
      BY <2>2
    <3>2. QED  BY <3>1
  <2>5. (\E i : Q(i)) /\ \A i : Q(i) => i[S] = SumOf(f, S)
    BY <2>3, ChoiceAdds
  <2>6. MapThenSumSet(LAMBDA u : p.unit, S) = it[S]
    BY DEF MapThenSumSet, MapThenFoldSet
  <2> HIDE DEF P, Q
  <2>7. P(it)
    BY <2>4, <2>5, Zenon
  <2> HIDE DEF it
  <2>8. MapThenSumSet(LAMBDA u : p.unit, S) = p.unit * q
    BY <2>3, <2>4, <2>5, <2>6, <2>7
  <2>9. Reference(p, q) = MapThenSumSet(LAMBDA u : p.unit, S)
    BY <1>3 DEF Reference, S
  <2>10. Base(p, q) = p.unit * q
    BY <1>3 DEF Base
  <2>11. QED  BY <2>8, <2>9, <2>10
<1>4. CASE p.model = "tiered_graduated"
  <2>1. LadderOK(p.tiers)
    BY <1>4 DEF Priceable
  <2>2. Base(p, q) = Graduated(p.tiers, q)
    BY <1>4 DEF Base
  <2>3. Reference(p, q) = GraduatedReference(p.tiers, q)
    BY <1>4 DEF Reference
  <2>4. QED  BY <1>1, <2>1, <2>2, <2>3, GraduatedIsReference
<1>5. CASE p.model = "tiered_volume"
  <2>1. LadderOK(p.tiers)
    BY <1>5 DEF Priceable
  <2>2. Base(p, q) = Volume(p.tiers, q)
    BY <1>5 DEF Base
  <2>3. Reference(p, q) = VolumeReference(p.tiers, q)
    BY <1>5 DEF Reference
  <2>4. QED  BY <1>1, <2>1, <2>2, <2>3, VolumeIsReference
<1>6. CASE p.model = "package"
  <2>1. p.size > 0
    BY <1>6 DEF Priceable
  <2>2. Base(p, q) = p.unit * ((q + p.size - 1) \div p.size)
    BY <1>6 DEF Base, Package
  <2>3. Reference(p, q) = p.unit * Min({n \in 0..q : n * p.size >= q})
    BY <1>6 DEF Reference
  <2>4. QED  BY <1>1, <2>1, <2>2, <2>3, LeastPackages
<1>7. CASE p.model = "percentage"
  <2>1. Base(p, q) = q * p.percent * 10
    BY <1>7 DEF Base, Percentage
  <2>2. Reference(p, q) = (q * 1000 * p.percent) \div 100
    BY <1>7 DEF Reference
  <2>3. q * p.percent \in Int
    BY <1>1
  <2>4. q * 1000 * p.percent = (q * p.percent * 10) * 100
    BY <1>1, <2>3
  <2>5. \A k \in Int : (k * 100) \div 100 = k
    OBVIOUS
  <2>6. QED  BY <2>1, <2>2, <2>3, <2>4, <2>5
<1>8. QED  BY <1>1, <1>2, <1>3, <1>4, <1>5, <1>6, <1>7 DEF ModelNames

\* The quantity of a price that can be computed.
LEMMA QuantityType ==
    ASSUME CatalogueInv, NEW i \in Billable, NEW k \in DOMAIN Prices(subs[i])
    PROVE  LET p == Prices(subs[i])[k]
           IN /\ Books(MeterCodes, subs[i], Prices(subs[i]), meters, log)
              /\ p \in PricesOn(MeterCodes) /\ Priceable(p) /\ QuantityOf(p, subs[i]) \in Nat
<1>1. i \in DOMAIN subs /\ subs[i] \in Subscriptions
      /\ Computable(subs[i], Prices(subs[i]), meters, log)
  BY DEF Billable, CanCompute, CatalogueInv
<1>2. Books(MeterCodes, subs[i], Prices(subs[i]), meters, log)
  BY <1>1, BooksNow
<1>3. PICK sub, prices, p : sub = subs[i] /\ prices = Prices(subs[i]) /\ p = prices[k]
  OBVIOUS
<1>4. /\ p \in PricesOn(MeterCodes) /\ Priceable(p)
      /\ p.model # "flat" => Aggregate(meters[p.code], Events(p, sub, log)) \in Nat
  BY <1>2, <1>3, MetersRead
<1>5. QED  BY <1>2, <1>3, <1>4 DEF QuantityOf

\* The invariant gives RatedRight: bills are computed from priceable prices.
LEMMA InvImpliesRated ==
    ASSUME CatalogueInv
    PROVE  RatedRight
<1>1. SUFFICES ASSUME NEW i \in Billable, NEW k \in DOMAIN Prices(subs[i])
               PROVE  LET p == Prices(subs[i])[k]
                          q == QuantityOf(p, subs[i])
                          r == Reference(p, q)
                          floored == IF p.minimum # 0 THEN Max({r, p.minimum}) ELSE r
                      IN /\ Charge(p, q) = IF p.maximum # 0 THEN Min({floored, p.maximum}) ELSE floored
                         /\ p.model # "flat" /\ meters[p.code] \in {"sum", "count"} =>
                              \A cut \in subs[i].start..subs[i].end :
                                 q = Aggregate(meters[p.code], InWindow(log, p.code, subs[i].start, cut))
                                     + Aggregate(meters[p.code], InWindow(log, p.code, cut, subs[i].end))
  BY DEF RatedRight
<1>2. PICK sub, prices, p, q : /\ sub = subs[i] /\ prices = Prices(subs[i]) /\ p = prices[k]
                               /\ q = QuantityOf(p, sub)
  OBVIOUS
<1>3. /\ Books(MeterCodes, sub, prices, meters, log)
      /\ p \in PricesOn(MeterCodes) /\ Priceable(p) /\ q \in Nat
  BY <1>2, QuantityType
<1>4. Base(p, q) = Reference(p, q) /\ Base(p, q) \in Int
  BY <1>3, BaseIsReference, BaseType
<1>5. p.minimum \in Int /\ p.maximum \in Int
  BY <1>3, PriceFields
<1>6. PICK r : r = Reference(p, q)
  OBVIOUS
<1>7. LET floored == IF p.minimum # 0 THEN Max({r, p.minimum}) ELSE r
      IN Charge(p, q) = IF p.maximum # 0 THEN Min({floored, p.maximum}) ELSE floored
  <2>1. r \in Int /\ Charge(p, q) = Bounded(p, r)
    BY <1>4, <1>6 DEF Charge
  <2>2. PICK floored : floored = IF p.minimum # 0 THEN Max({r, p.minimum}) ELSE r
    OBVIOUS
  <2>3. Max({r, p.minimum}) = IF r >= p.minimum THEN r ELSE p.minimum
    BY <1>5, <2>1, TwoNumbers
  <2>4. floored = IF p.minimum # 0 /\ r < p.minimum THEN p.minimum ELSE r
    BY <1>5, <2>1, <2>2, <2>3
  <2>5. floored \in Int
    BY <1>5, <2>1, <2>4
  <2>6. Min({floored, p.maximum}) = IF floored <= p.maximum THEN floored ELSE p.maximum
    BY <1>5, <2>5, TwoNumbers
  <2>7. Bounded(p, r) = IF p.maximum # 0 /\ floored > p.maximum THEN p.maximum ELSE floored
    BY <2>4 DEF Bounded
  <2>8. Charge(p, q) = IF p.maximum # 0 THEN Min({floored, p.maximum}) ELSE floored
    BY <1>5, <2>1, <2>5, <2>6, <2>7
  <2>9. QED  BY <2>2, <2>8
<1>8. ASSUME p.model # "flat", meters[p.code] \in {"sum", "count"}, NEW cut \in sub.start..sub.end
      PROVE  q = Aggregate(meters[p.code], InWindow(log, p.code, sub.start, cut))
                 + Aggregate(meters[p.code], InWindow(log, p.code, cut, sub.end))
  <2>1. /\ IsFiniteSet(log) /\ \A e \in log : EventOK(e)
        /\ sub.start \in Int /\ sub.end \in Int
    BY <1>3 DEF Books
  <2>2. Readable(meters[p.code], Events(p, sub, log))
    BY <1>2, <1>3, <1>8, MetersRead
  <2>3. PICK agg, code, from, to : agg = meters[p.code] /\ code = p.code /\ from = sub.start /\ to = sub.end
    OBVIOUS
  <2>4. agg \in {"sum", "count"} /\ Readable(agg, InWindow(log, code, from, to))
        /\ from \in Int /\ to \in Int /\ cut \in from..to
    BY <1>8, <2>1, <2>2, <2>3 DEF Events
  <2>5. Aggregate(agg, InWindow(log, code, from, to))
             = Aggregate(agg, InWindow(log, code, from, cut))
                 + Aggregate(agg, InWindow(log, code, cut, to))
    BY <2>1, <2>4, WindowSplits
  <2>6. q = Aggregate(agg, InWindow(log, code, from, to))
    BY <1>2, <1>8, <2>3 DEF QuantityOf, Events
  <2>7. QED  BY <2>3, <2>5, <2>6
<1>9. QED  BY <1>2, <1>6, <1>7, <1>8

\* Every charge is the reference price of the usage, inside its bounds, and a
\* period cut in two counts every event once (pricing.Calculate, meter.Aggregate).
THEOREM ChargesAreRight == Spec => []RatedRight
<1>1. BillingInv => RatedRight
  BY InvImpliesRated DEF BillingInv
<1>2. QED  BY <1>1, BillingInvariant, PTL

-----------------------------------------------------------------------------
(* Bills against the exact price.                                          *)

\* How much of a period a subscription runs, and the fraction of it billed.
LEMMA ActiveParts ==
    ASSUME NEW sub, sub.start \in Int, sub.end \in Int, sub.started \in Int, sub.start < sub.end
    PROVE  LET f == ProrationFactor(sub.start, sub.end, sub.started)
           IN /\ LengthOf(sub) \in Nat \ {0} /\ Active(sub) \in 0..LengthOf(sub) /\ f \in 0..Scale
              /\ Active(sub) = 0 => f = 0
              /\ Active(sub) = LengthOf(sub) => f = Scale
              /\ Active(sub) \in 1..(LengthOf(sub) - 1) => f = Fraction(Active(sub), LengthOf(sub))
<1> DEFINE overlap == sub.end - Max({sub.start, sub.started})
           length == LengthOf(sub)
           f == ProrationFactor(sub.start, sub.end, sub.started)
<1>1. Max({sub.start, sub.started}) = IF sub.start >= sub.started THEN sub.start ELSE sub.started
  BY TwoNumbers
<1>2. length = sub.end - sub.start /\ length \in Nat \ {0} /\ sub.end - sub.started \in Int
  BY DEF LengthOf
<1>3. overlap \in Int /\ overlap = IF length <= sub.end - sub.started THEN length ELSE sub.end - sub.started
  BY <1>1, <1>2
<1>4. Min({length, sub.end - sub.started}) = overlap
  <2> HIDE DEF overlap, length
  <2>1. QED  BY <1>2, <1>3, TwoNumbers
<1>5. Active(sub) = IF 0 >= overlap THEN 0 ELSE overlap
  <2>1. Active(sub) = Max({0, overlap})
    BY <1>4 DEF Active
  <2>2. 0 \in Int
    OBVIOUS
  <2> HIDE DEF overlap
  <2>3. QED  BY <1>3, <2>1, <2>2, TwoNumbers
<1>6. f = CASE overlap <= 0 -> 0
            [] overlap >= length -> Scale
            [] OTHER -> Fraction(overlap, length)
  BY <1>2 DEF ProrationFactor
<1>7. f \in 0..Scale
  BY ProrationType
<1> HIDE DEF overlap, length, f
<1>8. Active(sub) \in 0..length
  BY <1>2, <1>3, <1>5
<1>9. Active(sub) = 0 => f = 0
  <2>1. SUFFICES ASSUME Active(sub) = 0 PROVE f = 0
    OBVIOUS
  <2>2. overlap <= 0
    BY <1>3, <1>5, <2>1
  <2>3. ~(overlap >= length)
    BY <1>2, <1>3, <2>2
  <2>4. QED  BY <1>6, <2>2, <2>3
<1>10. Active(sub) = length => f = Scale
  <2>1. SUFFICES ASSUME Active(sub) = length PROVE f = Scale
    OBVIOUS
  <2>2. ~(overlap <= 0) /\ overlap >= length
    BY <1>2, <1>3, <1>5, <2>1
  <2>3. QED  BY <1>6, <2>2
<1>11. Active(sub) \in 1..(length - 1) => f = Fraction(Active(sub), length)
  <2>1. SUFFICES ASSUME Active(sub) \in 1..(length - 1) PROVE f = Fraction(Active(sub), length)
    OBVIOUS
  <2>2. Active(sub) = overlap /\ ~(overlap <= 0) /\ ~(overlap >= length)
    BY <1>2, <1>3, <1>5, <2>1
  <2>3. QED  BY <1>6, <2>2
<1>12. QED  BY <1>2, <1>7, <1>8, <1>9, <1>10, <1>11 DEF length, f

\* The scale, for leaves that must not see its value.
LEMMA ScaleIsNat == Scale \in Nat \ {0} /\ 0..Scale \subseteq Nat
BY DEF Scale

\* The fraction of a fee, with the slack it leaves.
Apart(charge, length, active, f, slack) ==
    /\ active = 0 => f = 0 /\ slack = 0
    /\ active = length => f = Scale /\ slack = 0
    /\ active \in 1..(length - 1) => f = Fraction(active, length) /\ slack = charge * length

\* The numbers of one line: its amount against the exact price, times the
\* period's length, in parts of twice the scale.
LEMMA FlatBounds ==
    ASSUME NEW charge \in Nat, NEW length \in Nat \ {0}, NEW active \in 0..length,
           NEW f \in 0..Scale, NEW slack,
           Apart(charge, length, active, f, slack), NEW c, NEW amount, amount = RoundDown(charge * f, Scale, c)
    PROVE  /\ amount \in Nat /\ slack \in Nat
           /\ (2 * Scale) * (amount * length) <= (2 * Scale) * (charge * active) + slack
           /\ (2 * Scale) * (charge * active) <= (2 * Scale) * (amount * length + Unit(c) * length) + slack
<1> DEFINE S == Scale
           due == charge * f
           u == Unit(c)
<1>1. due \in Nat /\ S \in Nat \ {0} /\ u \in Nat \ {0} /\ f \in Nat
  <2>1. S \in Nat \ {0} /\ f \in Nat
    BY ScaleIsNat
  <2>2. u \in Nat \ {0}
    BY UnitType
  <2>3. due \in Nat
    BY <2>1
  <2>4. QED  BY <2>1, <2>2, <2>3
<1>2. amount \in Nat /\ amount * S <= due /\ due < (amount + u) * S
  <2>1. amount = RoundDown(due, Scale, c) /\ Scale \in Denominators
    BY DEF Denominators
  <2> HIDE DEF due
  <2>2. QED  BY <1>1, <2>1, RoundDownBounds
<1>3. length * due = charge * (length * f)
  BY <1>1
<1>4. /\ slack \in Nat
      /\ 2 * (length * due) <= 2 * (charge * (active * S)) + slack
      /\ 2 * (charge * (active * S)) <= 2 * (length * due) + slack
  <2>1. CASE active = 0
    <3>1. f = 0 /\ slack = 0 /\ length * f = 0 /\ active * S = 0
      BY <1>1, <2>1 DEF Apart
    <3>2. QED  BY <1>3, <3>1
  <2>2. CASE active = length
    <3>1. f = S /\ slack = 0 /\ length * f = active * S
      BY <2>2 DEF Apart
    <3>2. QED  BY <1>1, <1>3, <3>1
  <2>3. CASE active \in 1..(length - 1)
    <3>1. f = Fraction(active, length) /\ slack = charge * length /\ active \in Nat /\ active <= length
      BY <2>3 DEF Apart
    <3>2. /\ 2 * (length * f) <= 2 * (active * S) + length
          /\ 2 * (active * S) < 2 * (length * f) + length
      BY <3>1, FractionBounds
    <3> DEFINE a == length * f
               b == active * S
    <3>3. a \in Nat /\ b \in Nat
      BY <1>1, <3>1
    <3> HIDE DEF a, b, S
    <3>4. 2 * a <= 2 * b + length /\ 2 * b <= 2 * a + length
      BY <3>2, <3>3 DEF a, b
    <3>5. charge * (2 * a) <= charge * (2 * b + length)
      BY <3>3, <3>4
    <3>6. charge * (2 * b) <= charge * (2 * a + length)
      BY <3>3, <3>4
    <3>7. /\ charge * (2 * a) = 2 * (charge * a) /\ charge * (2 * b) = 2 * (charge * b)
          /\ charge * (2 * b + length) = 2 * (charge * b) + charge * length
          /\ charge * (2 * a + length) = 2 * (charge * a) + charge * length
      BY <3>3
    <3>8. charge * length \in Nat
      OBVIOUS
    <3>9. /\ 2 * (charge * a) <= 2 * (charge * b) + slack
          /\ 2 * (charge * b) <= 2 * (charge * a) + slack
      BY <3>1, <3>5, <3>6, <3>7
    <3>10. QED  BY <1>3, <3>1, <3>8, <3>9 DEF a, b
  <2>4. QED  BY <2>1, <2>2, <2>3
<1> HIDE DEF due, S, u
<1>5. length * (amount * S) <= length * due /\ length * due <= length * ((amount + u) * S)
  BY <1>1, <1>2
<1>6. /\ length * (amount * S) = S * (amount * length)
      /\ length * ((amount + u) * S) = S * (amount * length + u * length)
      /\ charge * (active * S) = S * (charge * active)
  BY <1>1, <1>2
<1>7. /\ S * (amount * length) \in Int /\ S * (charge * active) \in Int
      /\ S * (amount * length + u * length) \in Int /\ length * due \in Int
  BY <1>1, <1>2
<1>8. /\ (2 * S) * (amount * length) = 2 * (S * (amount * length))
      /\ (2 * S) * (charge * active) = 2 * (S * (charge * active))
      /\ (2 * S) * (amount * length + u * length) = 2 * (S * (amount * length + u * length))
  BY <1>1, <1>2
<1> DEFINE x == S * (amount * length)
           y == S * (charge * active)
           z == S * (amount * length + u * length)
           d == length * due
<1>9. x <= d /\ d <= z /\ 2 * d <= 2 * y + slack /\ 2 * y <= 2 * d + slack
  BY <1>4, <1>5, <1>6
<1>10. x \in Int /\ y \in Int /\ z \in Int /\ d \in Int
  BY <1>7
<1> HIDE DEF x, y, z, d
<1>11. 2 * x <= 2 * y + slack /\ 2 * y <= 2 * z + slack
  BY <1>4, <1>9, <1>10
<1>12. QED  BY <1>2, <1>4, <1>8, <1>11 DEF x, y, z, S, u

\* The exact price of one price, and the slack of one, as Exact and Slack add them.
DueOf(p, sub) ==
    Charge(p, QuantityOf(p, sub)) * (IF p.model = "flat" THEN Active(sub) ELSE LengthOf(sub))
SlackOf(p, sub) ==
    IF p.model = "flat" /\ Active(sub) \in 1..(LengthOf(sub) - 1)
    THEN Charge(p, 1) * LengthOf(sub) ELSE 0

\* A line is between its exact price less a minor unit and its exact price, but
\* for the slack of its fraction.
LEMMA LineBounds ==
    ASSUME CatalogueInv, NEW i \in Billable, NothingCredited(subs[i]),
           NEW k \in DOMAIN Prices(subs[i])
    PROVE  LET sub == subs[i]
               p == Prices(sub)[k]
               amount == PricedLine(p, sub, meters, log).amount
           IN /\ amount \in Nat /\ DueOf(p, sub) \in Nat /\ SlackOf(p, sub) \in Nat
              /\ (2 * Scale) * (amount * LengthOf(sub))
                    <= (2 * Scale) * DueOf(p, sub) + SlackOf(p, sub)
              /\ (2 * Scale) * DueOf(p, sub)
                    <= (2 * Scale) * (amount * LengthOf(sub) + Unit(p.currency) * LengthOf(sub))
                       + SlackOf(p, sub)
<1>1. PICK sub, prices, p, q, length : /\ sub = subs[i] /\ prices = Prices(subs[i]) /\ p = prices[k]
                                       /\ q = QuantityOf(p, sub) /\ length = LengthOf(sub)
  OBVIOUS
<1>2. /\ Books(MeterCodes, sub, prices, meters, log)
      /\ p \in PricesOn(MeterCodes) /\ Priceable(p) /\ q \in Nat
  BY <1>1, QuantityType
<1>3. /\ sub.start \in Int /\ sub.end \in Int /\ sub.started \in Int /\ sub.start < sub.end
  BY <1>2 DEF Books, Computable
<1>4. PICK charge, amount, f : /\ charge = Charge(p, q)
                               /\ amount = PricedLine(p, sub, meters, log).amount
                               /\ f = ProrationFactor(sub.start, sub.end, sub.started)
  OBVIOUS
<1>5. charge \in Nat
  <2>1. charge \in Int
    BY <1>2, <1>4, ChargeType
  <2>2. charge >= 0
    BY <1>1, <1>4 DEF NothingCredited
  <2>3. QED  BY <2>1, <2>2
<1>6. length \in Nat \ {0} /\ Active(sub) \in 0..length /\ f \in 0..Scale
      /\ (Active(sub) = 0 => f = 0)
      /\ (Active(sub) = length => f = Scale)
      /\ (Active(sub) \in 1..(length - 1) => f = Fraction(Active(sub), length))
  BY <1>1, <1>3, <1>4, ActiveParts
<1>7. ASSUME p.model = "flat"
      PROVE  /\ amount \in Nat /\ DueOf(p, sub) \in Nat /\ SlackOf(p, sub) \in Nat
             /\ (2 * Scale) * (amount * length) <= (2 * Scale) * DueOf(p, sub) + SlackOf(p, sub)
             /\ (2 * Scale) * DueOf(p, sub)
                   <= (2 * Scale) * (amount * length + Unit(p.currency) * length) + SlackOf(p, sub)
  <2>1. q = 1
    BY <1>1, <1>7 DEF QuantityOf
  <2>2. amount = RoundDown(charge * f, Scale, p.currency)
    BY <1>4, <1>7, <2>1 DEF PricedLine, FlatLine
  <2>3. DueOf(p, sub) = charge * Active(sub)
    BY <1>1, <1>4, <1>7 DEF DueOf
  <2>4. SlackOf(p, sub) = IF Active(sub) \in 1..(length - 1) THEN charge * length ELSE 0
    BY <1>1, <1>4, <1>7, <2>1 DEF SlackOf
  <2>5. PICK active, slack, c : active = Active(sub) /\ slack = SlackOf(p, sub) /\ c = p.currency
    OBVIOUS
  <2>6. active \in 0..length /\ Apart(charge, length, active, f, slack)
    BY <1>6, <2>4, <2>5 DEF Apart
  <2>7. /\ amount \in Nat /\ slack \in Nat
        /\ (2 * Scale) * (amount * length) <= (2 * Scale) * (charge * active) + slack
        /\ (2 * Scale) * (charge * active) <= (2 * Scale) * (amount * length + Unit(c) * length) + slack
    <3>1. length \in Nat \ {0} /\ f \in 0..Scale /\ amount = RoundDown(charge * f, Scale, c)
      BY <1>6, <2>2, <2>5
    <3>2. QED  BY <1>5, <2>6, <3>1, FlatBounds, Zenon
  <2>8. charge * active \in Nat
    <3>1. active \in Nat
      BY <1>6, <2>6
    <3>2. QED  BY <1>5, <3>1
  <2>9. QED  BY <2>3, <2>5, <2>7, <2>8
<1>8. ASSUME p.model # "flat"
      PROVE  /\ amount \in Nat /\ DueOf(p, sub) \in Nat /\ SlackOf(p, sub) = 0
             /\ (2 * Scale) * (amount * length) <= (2 * Scale) * DueOf(p, sub)
             /\ (2 * Scale) * DueOf(p, sub)
                   <= (2 * Scale) * (amount * length + Unit(p.currency) * length)
  <2>1. amount = RoundDown(charge, 1, p.currency)
    BY <1>1, <1>4, <1>8 DEF PricedLine, UsageLine, QuantityOf
  <2>2. DueOf(p, sub) = charge * length /\ SlackOf(p, sub) = 0
    BY <1>1, <1>4, <1>8 DEF DueOf, SlackOf
  <2>3. amount \in Nat /\ amount * 1 <= charge /\ charge < (amount + Unit(p.currency)) * 1
    BY <1>5, <2>1, RoundDownBounds DEF Denominators
  <2>4. PICK u : u = Unit(p.currency) /\ u \in Nat
    BY UnitType
  <2>5. amount * length <= charge * length /\ charge * length <= amount * length + u * length
    <3>1. amount <= charge /\ charge <= amount + u
      BY <1>5, <2>3, <2>4
    <3>2. amount * length <= charge * length /\ charge * length <= (amount + u) * length
      BY <1>5, <1>6, <2>3, <2>4, <3>1
    <3>3. (amount + u) * length = amount * length + u * length
      BY <1>6, <2>3, <2>4
    <3>4. QED  BY <3>2, <3>3
  <2>6. amount * length \in Nat /\ charge * length \in Nat /\ u * length \in Nat
    BY <1>5, <1>6, <2>3, <2>4
  <2>7. QED  BY <2>2, <2>3, <2>4, <2>5, <2>6 DEF Scale
<1>9. /\ amount \in Nat /\ DueOf(p, sub) \in Nat /\ SlackOf(p, sub) \in Nat
      /\ (2 * Scale) * (amount * length) <= (2 * Scale) * DueOf(p, sub) + SlackOf(p, sub)
      /\ (2 * Scale) * DueOf(p, sub)
            <= (2 * Scale) * (amount * length + Unit(p.currency) * length) + SlackOf(p, sub)
  <2>1. CASE p.model = "flat"
    BY <1>7, <2>1
  <2>2. CASE p.model # "flat"
    <3>1. /\ amount \in Nat /\ DueOf(p, sub) \in Nat /\ SlackOf(p, sub) = 0
          /\ (2 * Scale) * (amount * length) <= (2 * Scale) * DueOf(p, sub)
          /\ (2 * Scale) * DueOf(p, sub)
                <= (2 * Scale) * (amount * length + Unit(p.currency) * length)
      BY <1>8, <2>2
    <3>2. (2 * Scale) * DueOf(p, sub) \in Int
      BY <3>1, ScaleIsNat
    <3>3. (2 * Scale) * (amount * length + Unit(p.currency) * length) \in Int
      <4>1. Unit(p.currency) \in Nat
        BY UnitType
      <4>2. QED  BY <1>6, <3>1, <4>1, ScaleIsNat
    <3>4. QED  BY <3>1, <3>2, <3>3
  <2>3. QED  BY <2>1, <2>2
<1>10. QED  BY <1>1, <1>4, <1>9

\* The sums that the property is about, as sums of what a price is due and of
\* what its line bills.
DuesOf(sub) == [k \in DOMAIN Prices(sub) |-> DueOf(Prices(sub)[k], sub)]
SlacksOf(sub) == [k \in DOMAIN Prices(sub) |-> SlackOf(Prices(sub)[k], sub)]
BilledOf(sub) == [k \in DOMAIN Prices(sub) |-> PricedLine(Prices(sub)[k], sub, meters, log).amount]

\* The exact price of a plan is a sum over its prices.
LEMMA ExactIsSum ==
    ASSUME NEW sub, Summable(DuesOf(sub), DOMAIN Prices(sub))
    PROVE  Exact(sub) = SumOf(DuesOf(sub), DOMAIN Prices(sub))
<1> DEFINE D == DOMAIN Prices(sub)
           due(k) == Charge(Prices(sub)[k], QuantityOf(Prices(sub)[k], sub))
                     * (IF Prices(sub)[k].model = "flat" THEN Active(sub) ELSE LengthOf(sub))
           f == DuesOf(sub)
           P(it) == it = [s \in SUBSET D |->
                            IF s = {} THEN 0
                            ELSE due(CHOOSE x \in s : TRUE) + it[s \ {CHOOSE x \in s : TRUE}]]
           Q(it) == it = [s \in SUBSET D |->
                            IF s = {} THEN 0
                            ELSE f[CHOOSE x \in s : TRUE] + it[s \ {CHOOSE x \in s : TRUE}]]
           it == CHOOSE it : P(it)
<1>1. \A k \in D : f[k] = due(k)
  BY DEF DuesOf, DueOf
<1>2. Exact(sub) = it[D]
  BY DEF Exact, MapThenSumSet, MapThenFoldSet
<1> HIDE DEF due, f, D
<1>3. \A i : P(i) <=> Q(i)
  <2>1. \A s \in SUBSET D : s # {} => f[CHOOSE x \in s : TRUE] = due(CHOOSE x \in s : TRUE)
    BY <1>1
  <2>2. QED  BY <2>1
<1>4. (\E i : Q(i)) /\ \A i : Q(i) => i[D] = SumOf(f, D)
  BY ChoiceAdds DEF f, D
<1> HIDE DEF P, Q
<1>5. P(it)
  BY <1>3, <1>4, Zenon
<1>6. QED  BY <1>2, <1>3, <1>4, <1>5 DEF f, D

\* The slack of a plan is a sum over its prices, in parts of twice the scale.
LEMMA SlackIsSum ==
    ASSUME NEW sub, Summable(SlacksOf(sub), DOMAIN Prices(sub))
    PROVE  Slack(sub) = SumOf(SlacksOf(sub), DOMAIN Prices(sub)) \div (2 * Scale)
<1> DEFINE D == DOMAIN Prices(sub)
           slack(k) == IF Prices(sub)[k].model = "flat" /\ Active(sub) \in 1..(LengthOf(sub) - 1)
                       THEN Charge(Prices(sub)[k], 1) * LengthOf(sub) ELSE 0
           f == SlacksOf(sub)
           P(it) == it = [s \in SUBSET D |->
                            IF s = {} THEN 0
                            ELSE slack(CHOOSE x \in s : TRUE) + it[s \ {CHOOSE x \in s : TRUE}]]
           Q(it) == it = [s \in SUBSET D |->
                            IF s = {} THEN 0
                            ELSE f[CHOOSE x \in s : TRUE] + it[s \ {CHOOSE x \in s : TRUE}]]
           it == CHOOSE it : P(it)
<1>1. \A k \in D : f[k] = slack(k)
  BY DEF SlacksOf, SlackOf
<1>2. Slack(sub) = it[D] \div (2 * Scale)
  BY DEF Slack, MapThenSumSet, MapThenFoldSet
<1> HIDE DEF slack, f, D
<1>3. \A i : P(i) <=> Q(i)
  <2>1. \A s \in SUBSET D : s # {} => f[CHOOSE x \in s : TRUE] = slack(CHOOSE x \in s : TRUE)
    BY <1>1
  <2>2. QED  BY <2>1
<1>4. (\E i : Q(i)) /\ \A i : Q(i) => i[D] = SumOf(f, D)
  BY ChoiceAdds DEF f, D
<1> HIDE DEF P, Q
<1>5. P(it)
  BY <1>3, <1>4, Zenon
<1>6. QED  BY <1>2, <1>3, <1>4, <1>5 DEF f, D

\* The lines of the prices come to the sum of their amounts, in any order.
LEMMA BilledIsSum ==
    ASSUME CatalogueInv, NEW i \in Billable
    PROVE  LET sub == subs[i]
               lines == InOrder(PricedLines(sub, Prices(sub), meters, log))
               b == Compute(i)
           IN /\ Summable(BilledOf(sub), DOMAIN Prices(sub))
              /\ Total(lines) = SumOf(BilledOf(sub), DOMAIN Prices(sub))
              /\ Billed(b, sub) = Total(lines) * LengthOf(sub)
              /\ b.currency = Prices(sub)[1].currency
              /\ b.total = IF customer > 0 THEN Total(lines) + RoundDown(Total(lines) * customer, 100, b.currency)
                           ELSE Total(lines)
              /\ Total(lines) \in Int /\ customer \in Nat /\ DOMAIN Prices(sub) = 1..Len(Prices(sub))
              /\ Len(Prices(sub)) \in Nat \ {0}
<1>1. PICK sub, prices, m, es, b, rate : /\ sub = subs[i] /\ prices = Prices(subs[i]) /\ m = meters /\ es = log
                                         /\ b = Compute(i) /\ rate = customer
  OBVIOUS
<1>2. /\ Books(MeterCodes, sub, prices, m, es) /\ rate \in Nat
      /\ b = Calculate(sub, prices, m, es, rate)
  <2>1. subs[i] \in Subscriptions /\ CanCompute(i) /\ i \in DOMAIN subs
    BY DEF CatalogueInv, Billable
  <2>2. customer \in Nat
    BY <2>1, SceneIsOK DEF CatalogueInv
  <2>3. QED  BY <1>1, <2>1, <2>2, BooksNow DEF CanCompute, Compute
<1>3. PICK priced, lines : /\ priced = PricedLines(sub, prices, m, es) /\ lines = InOrder(priced)
  OBVIOUS
<1>4. /\ Reordered(priced, lines)
      /\ DOMAIN lines = DOMAIN prices /\ DOMAIN priced = DOMAIN prices
      /\ Len(lines) = Len(prices) /\ Len(lines) \in Nat \ {0}
      /\ WholeLines(lines, prices[1].currency)
  BY <1>2, <1>3, PlainLines
<1>5. DOMAIN prices = 1..Len(prices)
  BY <1>2 DEF Books
<1>6. IsBilled(lines)
  BY <1>4, WholeLinesBilled
<1>7. PICK f, g, D : f = BilledOf(sub) /\ g = AmountAt(lines) /\ D = DOMAIN prices
  OBVIOUS
<1>8. \A k \in D : f[k] = priced[k].amount
  BY <1>1, <1>3, <1>7 DEF BilledOf, PricedLines
<1>9. Summable(g, D) /\ Total(lines) = SumOf(g, D) /\ \A k \in D : g[k] = lines[k].amount
  BY <1>4, <1>6, <1>7, TotalIsSum DEF AmountAt
<1>10. PICK o \in Bijection(D, D) : lines = [k \in D |-> priced[o[k]]]
  BY <1>4, <1>7 DEF Reordered
<1>11. /\ \A k \in D : o[k] \in D /\ g[k] = f[o[k]]
       /\ \A k \in D : \E j \in D : o[j] = k
  <2>1. /\ \A k \in D : o[k] \in D
        /\ \A k \in D : \E j \in D : o[j] = k
    BY DEF Bijection, Surjection
  <2>2. QED  BY <1>8, <1>9, <1>10, <2>1
<1>12. Summable(f, D)
  <2>1. D = DOMAIN f
    BY <1>1, <1>7 DEF BilledOf
  <2>2. QED  BY <1>9, <1>11, <2>1 DEF Summable
<1>13. SumOf(g, D) = SumOf(f, D)
  BY <1>9, <1>11, <1>12, SumRenamed DEF Summable
<1>14. /\ b.currency = prices[1].currency
       /\ b.lines = IF rate > 0 THEN Append(lines, TaxLine(Total(lines), rate, b.currency)) ELSE lines
       /\ b.total = IF rate > 0 THEN Total(lines) + RoundDown(Total(lines) * rate, 100, b.currency)
                    ELSE Total(lines)
  <2>1. rate \in Int
    BY <1>2
  <2>2. /\ b.currency = prices[1].currency
        /\ b.lines = IF rate > 0 THEN Append(lines, TaxLine(Total(lines), rate, b.currency)) ELSE lines
        /\ b.total = IF rate > 0 THEN Total(lines) + TaxLine(Total(lines), rate, b.currency).amount
                     ELSE Total(lines)
    BY <1>2, <1>3, <2>1, BillShape
  <2>3. TaxLine(Total(lines), rate, b.currency).amount = RoundDown(Total(lines) * rate, 100, b.currency)
    BY DEF TaxLine
  <2>4. QED  BY <2>2, <2>3
<1>15. SubSeq(b.lines, 1, Len(prices)) = lines
  <2>1. lines \in Seq(Range(lines)) /\ Len(lines) = Len(prices)
    BY <1>4, <1>6 DEF IsBilled
  <2>2. CASE rate > 0
    BY <1>14, <2>1, <2>2
  <2>3. CASE ~(rate > 0)
    BY <1>14, <2>1, <2>3
  <2>4. QED  BY <2>2, <2>3
<1>16. Billed(b, sub) = Total(lines) * LengthOf(sub)
  BY <1>1, <1>15 DEF Billed
<1>17. Total(lines) \in Int
  BY <1>9, SumType
<1>18. QED
  BY <1>1, <1>2, <1>3, <1>4, <1>5, <1>7, <1>9, <1>12, <1>13, <1>14, <1>16, <1>17

\* What holds of each line holds of their sum, f being billed in a period of
\* the length, e due and s slack.
LEMMA LinesAddUp ==
    ASSUME NEW D, IsFiniteSet(D), NEW f, NEW e, NEW s, NEW length \in Nat, NEW u \in Nat, NEW m \in Nat,
           Summable(f, D), Summable(e, D), Summable(s, D),
           \A k \in D : m * (f[k] * length) <= m * e[k] + s[k],
           \A k \in D : m * e[k] <= m * (f[k] * length + u) + s[k]
    PROVE  /\ m * (SumOf(f, D) * length) <= m * SumOf(e, D) + SumOf(s, D)
           /\ m * SumOf(e, D) <= m * (SumOf(f, D) * length + u * Cardinality(D)) + SumOf(s, D)
<1> DEFINE x == [k \in D |-> (m * length) * f[k]]
           y == [k \in D |-> m * e[k]]
           z == [k \in D |-> y[k] + s[k]]
           v == [k \in D |-> m * u]
           w == [k \in D |-> x[k] + v[k]]
           t == [k \in D |-> w[k] + s[k]]
<1>1. \A k \in D : f[k] \in Int /\ e[k] \in Int /\ s[k] \in Int
  BY DEF Summable
<1>2. m * length \in Int /\ m * u \in Int
  OBVIOUS
<1>3. Summable(x, D) /\ \A k \in D : x[k] = (m * length) * f[k]
  BY <1>1, <1>2 DEF Summable
<1>4. Summable(y, D) /\ \A k \in D : y[k] = m * e[k]
  BY <1>1 DEF Summable
<1>5. \A k \in D : x[k] \in Int /\ y[k] \in Int
  BY <1>3, <1>4 DEF Summable
<1> HIDE DEF x, y
<1>6. Summable(z, D) /\ \A k \in D : z[k] = y[k] + s[k]
  BY <1>1, <1>5 DEF Summable
<1>7. Summable(v, D) /\ SumOf(v, D) = (m * u) * Cardinality(D) /\ \A k \in D : v[k] = m * u /\ v[k] \in Int
  <2>1. D \subseteq DOMAIN v /\ \A k \in D : v[k] = m * u
    OBVIOUS
  <2> HIDE DEF v
  <2>2. QED  BY <1>2, <2>1, SumConstant
<1> HIDE DEF v
<1>8. Summable(w, D) /\ \A k \in D : w[k] = x[k] + v[k] /\ w[k] \in Int
  BY <1>5, <1>7 DEF Summable
<1> HIDE DEF w, z
<1>9. Summable(t, D) /\ \A k \in D : t[k] = w[k] + s[k]
  BY <1>1, <1>8 DEF Summable
<1> HIDE DEF t
<1>10. SumOf(x, D) = (m * length) * SumOf(f, D)
  BY <1>2, <1>3, SumTimes
<1>11. SumOf(y, D) = m * SumOf(e, D)
  BY <1>4, SumTimes
<1>12. SumOf(z, D) = SumOf(y, D) + SumOf(s, D)
  BY <1>4, <1>6, SumPlus
<1>13. SumOf(w, D) = SumOf(x, D) + SumOf(v, D)
  BY <1>3, <1>7, <1>8, SumPlus
<1>14. SumOf(t, D) = SumOf(w, D) + SumOf(s, D)
  BY <1>8, <1>9, SumPlus
<1>15. \A k \in D : x[k] <= z[k]
  <2>1. SUFFICES ASSUME NEW k \in D PROVE x[k] <= z[k]
    OBVIOUS
  <2>2. x[k] = m * (f[k] * length)
    BY <1>1, <1>3
  <2>3. QED  BY <1>4, <1>6, <2>2
<1>16. \A k \in D : y[k] <= t[k]
  <2>1. SUFFICES ASSUME NEW k \in D PROVE y[k] <= t[k]
    OBVIOUS
  <2>2. x[k] + m * u = m * (f[k] * length + u)
    BY <1>1, <1>3
  <2>3. t[k] = (x[k] + m * u) + s[k]
    BY <1>7, <1>8, <1>9
  <2>4. QED  BY <1>4, <2>2, <2>3
<1>17. SumOf(x, D) <= SumOf(z, D)
  BY <1>3, <1>6, <1>15, SumMonotone
<1>18. SumOf(y, D) <= SumOf(t, D)
  BY <1>4, <1>9, <1>16, SumMonotone
<1>19. SumOf(f, D) \in Int /\ SumOf(e, D) \in Int /\ SumOf(s, D) \in Int /\ Cardinality(D) \in Nat
  BY SumType, FS_CardinalityType
<1>20. /\ (m * length) * SumOf(f, D) = m * (SumOf(f, D) * length)
       /\ (m * length) * SumOf(f, D) + (m * u) * Cardinality(D)
             = m * (SumOf(f, D) * length + u * Cardinality(D))
  BY <1>19
<1>21. QED  BY <1>7, <1>10, <1>11, <1>12, <1>13, <1>14, <1>17, <1>18, <1>20

\* Tax in the hundredth part of what is billed stays under that part.
LEMMA TaxBounds ==
    ASSUME NEW t \in Nat, NEW rate \in Nat, NEW c, NEW length \in Nat, NEW bound \in Int,
           t * length <= bound, NEW total,
           total = IF rate > 0 THEN t + RoundDown(t * rate, 100, c) ELSE t
    PROVE  total * length * 100 <= bound * (100 + rate)
<1>1. t * rate \in Nat
  OBVIOUS
<1>2. PICK r : r = RoundDown(t * rate, 100, c)
  OBVIOUS
<1>3. r \in Nat /\ r * 100 <= t * rate
  <2>1. 100 \in Denominators
    BY DEF Denominators
  <2>2. QED  BY <1>1, <1>2, <2>1, RoundDownBounds
<1>4. total \in Nat /\ total * 100 <= t * (100 + rate)
  <2>1. t * (100 + rate) = t * 100 + t * rate
    OBVIOUS
  <2>2. QED  BY <1>1, <1>2, <1>3, <2>1
<1>5. (total * 100) * length <= (t * (100 + rate)) * length
  BY <1>4
<1>6. (t * length) * (100 + rate) <= bound * (100 + rate)
  OBVIOUS
<1>7. total * length * 100 = (total * 100) * length /\ (t * (100 + rate)) * length = (t * length) * (100 + rate)
  BY <1>4
<1>8. (total * 100) * length \in Int /\ (t * length) * (100 + rate) \in Int /\ bound * (100 + rate) \in Int
  BY <1>4
<1>9. QED  BY <1>5, <1>6, <1>7, <1>8

\* The invariant gives BilledToRounding: the bounds of the lines, summed.
LEMMA InvImpliesRounding ==
    ASSUME CatalogueInv
    PROVE  BilledToRounding
<1>1. SUFFICES ASSUME NEW i \in Billable, NothingCredited(subs[i])
               PROVE  /\ Billed(Compute(i), subs[i]) <= Exact(subs[i]) + Slack(subs[i])
                      /\ Exact(subs[i]) <= Billed(Compute(i), subs[i]) + Slack(subs[i])
                            + Len(Prices(subs[i])) * Unit(Compute(i).currency) * LengthOf(subs[i])
                      /\ Compute(i).total * LengthOf(subs[i]) * 100
                            <= (Exact(subs[i]) + Slack(subs[i])) * (100 + customer)
  BY Zenon DEF BilledToRounding
<1>2. PICK sub, prices, D, n, f, e, s, length, c, u, rate, b, lines, t :
         /\ sub = subs[i] /\ prices = Prices(subs[i]) /\ D = DOMAIN Prices(subs[i]) /\ n = Len(prices)
         /\ f = BilledOf(subs[i]) /\ e = DuesOf(subs[i]) /\ s = SlacksOf(subs[i])
         /\ length = LengthOf(subs[i]) /\ c = Prices(subs[i])[1].currency /\ u = Unit(c) * length
         /\ rate = customer /\ b = Compute(i)
         /\ lines = InOrder(PricedLines(subs[i], Prices(subs[i]), meters, log)) /\ t = Total(lines)
  OBVIOUS
<1>3. /\ Summable(f, D) /\ t = SumOf(f, D) /\ Billed(b, sub) = t * length
      /\ b.currency = c
      /\ b.total = IF rate > 0 THEN t + RoundDown(t * rate, 100, c) ELSE t
      /\ rate \in Nat /\ D = 1..n /\ n \in Nat \ {0}
  BY <1>2, BilledIsSum
<1>4. /\ \A k \in D : f[k] \in Nat /\ e[k] \in Nat /\ s[k] \in Nat
      /\ \A k \in D : (2 * Scale) * (f[k] * length) <= (2 * Scale) * e[k] + s[k]
      /\ \A k \in D : (2 * Scale) * e[k] <= (2 * Scale) * (f[k] * length + u) + s[k]
  <2>1. SUFFICES ASSUME NEW k \in D
                 PROVE  /\ f[k] \in Nat /\ e[k] \in Nat /\ s[k] \in Nat
                        /\ (2 * Scale) * (f[k] * length) <= (2 * Scale) * e[k] + s[k]
                        /\ (2 * Scale) * e[k] <= (2 * Scale) * (f[k] * length + u) + s[k]
    OBVIOUS
  <2>2. PICK p : p = prices[k]
    OBVIOUS
  <2>3. f[k] = PricedLine(p, sub, meters, log).amount /\ e[k] = DueOf(p, sub) /\ s[k] = SlackOf(p, sub)
    BY <1>2, <2>2 DEF BilledOf, DuesOf, SlacksOf
  <2>4. p.currency = c
    <3>1. Books(MeterCodes, sub, prices, meters, log)
      BY <1>2, QuantityType
    <3>2. QED  BY <1>2, <2>2, <3>1 DEF Books, Computable
  <2>5. /\ f[k] \in Nat /\ e[k] \in Nat /\ s[k] \in Nat
        /\ (2 * Scale) * (f[k] * length) <= (2 * Scale) * e[k] + s[k]
        /\ (2 * Scale) * e[k] <= (2 * Scale) * (f[k] * length + Unit(p.currency) * length) + s[k]
    BY <1>1, <1>2, <2>2, <2>3, LineBounds
  <2>6. QED  BY <1>2, <2>4, <2>5
<1>5. Summable(e, D) /\ Summable(s, D)
  BY <1>2, <1>3, <1>4 DEF Summable, DuesOf, SlacksOf
<1>6. IsFiniteSet(D) /\ Cardinality(D) = n
  BY <1>3, FS_Interval
<1>7. length \in Nat /\ Unit(c) \in Nat
  <2>1. sub.start \in Int /\ sub.end \in Int /\ sub.start < sub.end
    <3>1. Books(MeterCodes, sub, prices, meters, log)
      <4>1. PICK k \in D : TRUE
        BY <1>3
      <4>2. QED  BY <1>2, <4>1, QuantityType
    <3>2. QED  BY <3>1 DEF Books, Computable
  <2>2. QED  BY <1>2, <2>1, UnitType DEF LengthOf
<1>8. u \in Nat
  BY <1>2, <1>7
<1>9. PICK E, Q, slack : E = SumOf(e, D) /\ Q = SumOf(s, D) /\ slack = Slack(sub)
  OBVIOUS
<1>10. /\ (2 * Scale) * (t * length) <= (2 * Scale) * E + Q
       /\ (2 * Scale) * E <= (2 * Scale) * (t * length + u * n) + Q
  <2>1. 2 * Scale \in Nat
    BY ScaleIsNat
  <2>2. QED  BY <1>3, <1>4, <1>5, <1>6, <1>7, <1>8, <1>9, <2>1, LinesAddUp
<1>11. E = Exact(sub) /\ slack = Q \div (2 * Scale)
  BY <1>2, <1>5, <1>9, ExactIsSum, SlackIsSum
<1>12. E \in Int /\ Q \in Nat /\ t \in Nat /\ t * length \in Nat /\ u * n \in Nat
  <2>1. E \in Int /\ Q \in Nat /\ t \in Nat
    BY <1>3, <1>4, <1>5, <1>9, SumType, SumNat
  <2>2. QED  BY <1>3, <1>7, <1>8, <2>1
<1>13. slack \in Int /\ t * length <= E + slack /\ E <= t * length + slack + u * n
  <2>1. PICK x, y : x = t * length /\ y = u * n
    OBVIOUS
  <2>2. x \in Nat /\ y \in Nat /\ E \in Int /\ Q \in Nat
    BY <1>12, <2>1
  <2>3. (2 * Scale) * x <= (2 * Scale) * E + Q /\ (2 * Scale) * E <= (2 * Scale) * (x + y) + Q
    BY <1>10, <2>1
  <2>4. slack \in Int /\ x <= E + slack /\ E <= x + slack + y
    BY <1>11, <2>2, <2>3 DEF Scale
  <2>5. QED  BY <2>1, <2>4
<1>14. Billed(b, sub) <= Exact(sub) + slack
  BY <1>3, <1>11, <1>13
<1>15. Exact(sub) <= Billed(b, sub) + slack + n * Unit(b.currency) * length
  <2>1. n * Unit(c) * length = u * n
    BY <1>2, <1>3, <1>7
  <2>2. QED  BY <1>3, <1>11, <1>13, <2>1
<1>16. b.total * length * 100 <= (Exact(sub) + slack) * (100 + rate)
  <2>1. E + slack \in Int
    BY <1>12, <1>13
  <2>2. PICK bound, total : bound = E + slack /\ total = b.total
    OBVIOUS
  <2>3. /\ bound \in Int /\ t * length <= bound
        /\ total = IF rate > 0 THEN t + RoundDown(t * rate, 100, c) ELSE t
    BY <1>3, <1>13, <2>1, <2>2
  <2>4. /\ t \in Nat /\ rate \in Nat /\ length \in Nat
        /\ bound \in Int /\ t * length <= bound
        /\ total = IF rate > 0 THEN t + RoundDown(t * rate, 100, c) ELSE t
    <3>1. rate \in Nat
      BY <1>3
    <3>2. QED  BY <3>1, <1>7, <1>12, <2>3
  <2>5. total * length * 100 <= bound * (100 + rate)
    BY <2>4, TaxBounds, ZenonT(60)
  <2>6. QED  BY <1>11, <2>2, <2>5
<1>17. QED  BY <1>2, <1>9, <1>14, <1>15, <1>16

\* Rounding is all that comes between a bill and the exact price of its plan,
\* whatever the catalogue, the usage and the period (money.RoundDown, the
\* prorated fees and the tax line of invoice.Calculate).
THEOREM BillsAreRoundedPrices == Spec => []BilledToRounding
<1>1. BillingInv => BilledToRounding
  BY InvImpliesRounding DEF BillingInv
<1>2. QED  BY <1>1, BillingInvariant, PTL

=============================================================================
