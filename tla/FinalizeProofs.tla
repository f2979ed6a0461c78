--------------------------- MODULE FinalizeProofs ---------------------------
(***************************************************************************)
(* Proofs about Finalize for every set of requests, every number of lines  *)
(* and every bound on faults.                                              *)
(*                                                                         *)
(* What is saved follows from where its handler was, and where an item is  *)
(* depends on every handler of the customer.  The invariant has one part   *)
(* for the handlers by themselves, one for numbers, one for items.         *)
(***************************************************************************)
EXTENDS Finalize, TLAPS

BeforeInvoice == {"idle", "number", "items", "invoice"}
BeforeSave == BeforeInvoice \cup {"finalize", "save"}
Billed(r) == rail[r].status \in {"open", "paid"}

\* What is known of a request by the place of its handler.
HandlersInStep ==
    \A r \in Requests :
       /\ pc[r] \in {"idle", "number"} => posted[r] = 0
       /\ pc[r] = "items" => posted[r] < Lines
       /\ pc[r] = "invoice" => posted[r] = Lines
       /\ pc[r] \in {"items", "invoice", "finalize", "open"} => r \notin Agents
       /\ pc[r] \in BeforeInvoice => rail[r].status = "none" /\ rail[r].items = {}
       /\ pc[r] \in BeforeSave => invoices[r] = "none" /\ r \notin opened
       /\ (pc[r] = "save" /\ r \notin Agents) => status[r] \in {"open", "paid"} /\ Billed(r)
       /\ pc[r] = "open" => invoices[r] = "open"

NumbersDrawn == \A r \in Requests : number[r] <= sequence

OnRail(item) == \E q \in Requests : item \in rail[q].items

\* An item is in one place only.
ItemsOnce ==
    /\ \A item \in pending : ~OnRail(item)
    /\ \A p, q \in Requests : p # q => rail[p].items \cap rail[q].items = {}

\* A handler has posted the lines it has counted and, while it posts, no more.
ItemsCounted ==
    \A r \in Requests, n \in 1..Lines :
       LET item == [inv |-> r, line |-> n]
       IN /\ (pc[r] \in {"idle", "number", "items"} /\ n > posted[r])
                 => item \notin pending /\ ~OnRail(item)
          /\ (pc[r] \in {"items", "invoice"} /\ n <= posted[r])
                 => item \in pending \/ OnRail(item)

\* Once its invoice was created all its lines are on some invoice.
ItemsTaken ==
    \A r \in Requests \ Agents :
       (pc[r] \in {"finalize", "save"} \/ invoices[r] # "none")
           => \A item \in Bill(r) : OnRail(item)

FinalizeInv ==
    /\ TypeOK
    /\ HandlersInStep
    /\ RailHasSaved
    /\ NumbersDrawn /\ NumbersDiffer
    /\ LeftoversOnly
    /\ ItemsOnce /\ ItemsCounted /\ ItemsTaken
    /\ OpenedForUnpaid

-----------------------------------------------------------------------------
\* A start without requests under way satisfies the invariant.
LEMMA FinalizeInit == Init => FinalizeInv
<1> SUFFICES ASSUME Init PROVE FinalizeInv
  OBVIOUS
<1>1. TypeOK
  BY FinalizeAssumption DEF Init, TypeOK, Steps, Ends, RailInvoice, Item
<1>2. HandlersInStep /\ RailHasSaved /\ OpenedForUnpaid
  BY DEF Init, HandlersInStep, RailHasSaved, SavedIsFinal, UnsavedIsCutShort,
         OpenedForUnpaid, Pushed, BeforeInvoice, BeforeSave
<1>3. NumbersDrawn /\ NumbersDiffer /\ LeftoversOnly
  BY DEF Init, NumbersDrawn, NumbersDiffer, LeftoversOnly
<1>4. \A q \in Requests : rail[q].items = {}
  BY DEF Init
<1>5. ItemsOnce /\ ItemsCounted /\ ItemsTaken
  BY <1>4, FinalizeAssumption DEF Init, ItemsOnce, ItemsCounted, ItemsTaken, OnRail
<1> QED
  BY <1>1, <1>2, <1>3, <1>5 DEF FinalizeInv

-----------------------------------------------------------------------------
(* What steps do to the rail and to the handlers.                          *)

\* Only the status of one rail invoice changes.
LEMMA StatusStep ==
    ASSUME TypeOK, NEW r \in Requests, NEW s \in {"open", "paid"},
           rail' = [rail EXCEPT ![r].status = s]
    PROVE  /\ rail' \in [Requests -> RailInvoice]
           /\ rail'[r].status = s
           /\ \A q \in Requests : rail'[q].items = rail[q].items
           /\ \A q \in Requests \ {r} : rail'[q].status = rail[q].status
<1>1. rail \in [Requests -> RailInvoice]
  BY DEF TypeOK
<1> DEFINE new == [items |-> rail[r].items, status |-> s]
<1>2. rail[r] = [items |-> rail[r].items, status |-> rail[r].status]
  BY <1>1 DEF RailInvoice
<1>3. [rail[r] EXCEPT !.status = s] = new
  BY <1>1 DEF RailInvoice
<1>4. rail' = [rail EXCEPT ![r] = new]
  BY <1>3
<1> QED
  BY <1>1, <1>4 DEF RailInvoice

-----------------------------------------------------------------------------
(* Types, and handlers by themselves.                                      *)

\* Every step keeps the types.
LEMMA NextType ==
    ASSUME TypeOK, HandlersInStep, Next
    PROVE  TypeOK'
<1> USE FinalizeAssumption DEF TypeOK, Goto, handler, Steps, Ends
<1>1. ASSUME NEW r \in Requests, Start(r) PROVE TypeOK'
  BY <1>1 DEF Start
<1>2. ASSUME NEW r \in Requests, DrawNumber(r) PROVE TypeOK'
  BY <1>2 DEF DrawNumber, AfterNumber, Fault
<1>3. ASSUME NEW r \in Requests, PostItem(r) PROVE TypeOK'
  BY <1>3 DEF PostItem, HandlersInStep, Item
<1>4. ASSUME NEW r \in Requests, CreateInvoice(r) PROVE TypeOK'
  BY <1>4 DEF CreateInvoice, Take, RailInvoice
<1>5. ASSUME NEW r \in Requests, FinalizeOnRail(r) PROVE TypeOK'
  <2>1. CASE rail[r].status = "draft"
    <3>1. PICK s \in {"open", "paid"} : /\ rail' = [rail EXCEPT ![r].status = s]
                                        /\ status' = [status EXCEPT ![r] = s]
                                        /\ Goto(r, "save")
      BY <1>5, <2>1 DEF FinalizeOnRail, FinalStatus
    <3>2. rail' \in [Requests -> RailInvoice]
      BY <3>1, StatusStep
    <3> QED
      BY <1>5, <3>1, <3>2 DEF FinalizeOnRail
  <2>2. CASE rail[r].status # "draft"
    BY <1>5, <2>2 DEF FinalizeOnRail
  <2> QED
    BY <2>1, <2>2
<1>6. ASSUME NEW r \in Requests, PushFails(r) PROVE TypeOK'
  <2>1. pending' \subseteq Item
    BY <1>6 DEF PushFails, Take, HandlersInStep, Item
  <2>2. rail' \in [Requests -> RailInvoice]
    <3>1. CASE rail' = rail
      BY <3>1
    <3>2. CASE Take(r)
      BY <3>2 DEF Take, RailInvoice
    <3>3. CASE \E s \in FinalStatus(r) : rail' = [rail EXCEPT ![r].status = s]
      BY <3>3, StatusStep DEF FinalStatus
    <3> QED
      BY <1>6, <3>1, <3>2, <3>3 DEF PushFails
  <2> QED
    <3>1. /\ pc' = [pc EXCEPT ![r] = "failed"] /\ faults' = faults + 1
          /\ UNCHANGED <<posted, number, status, sequence, invoices, opened>>
      BY <1>6 DEF PushFails, Fault
    <3> QED
      BY <2>1, <2>2, <3>1
<1>7. ASSUME NEW r \in Requests, Save(r) \/ SaveFails(r) PROVE TypeOK'
  BY <1>7 DEF Save, SaveFails, Saved, Fault
<1>8. ASSUME NEW r \in Requests, OpenCollection(r) PROVE TypeOK'
  BY <1>8 DEF OpenCollection, Fault
<1>9. ASSUME NEW r \in Requests, RailAdvances(r) PROVE TypeOK'
  BY <1>9 DEF RailAdvances, FinalStatus, RailInvoice
<1>10. ASSUME Crash PROVE TypeOK'
  BY <1>10 DEF Crash, Fault
<1> HIDE DEF TypeOK
<1> QED
  BY <1>1, <1>2, <1>3, <1>4, <1>5, <1>6, <1>7, <1>8, <1>9, <1>10 DEF Next

\* Every step keeps what a handler's place says of its invoice and its save.
LEMMA NextHandlers ==
    ASSUME TypeOK, HandlersInStep, SavedIsFinal, Next
    PROVE  HandlersInStep' /\ SavedIsFinal'
<1> DEFINE Goal == HandlersInStep' /\ SavedIsFinal'
<1> USE FinalizeAssumption DEF TypeOK, HandlersInStep, SavedIsFinal, Pushed, Billed, Goto,
        BeforeInvoice, BeforeSave, handler, Steps, Ends, RailInvoice
<1>1. ASSUME NEW r \in Requests, Start(r) PROVE Goal
  BY <1>1 DEF Start
<1>2. ASSUME NEW r \in Requests, DrawNumber(r) PROVE Goal
  BY <1>2 DEF DrawNumber, AfterNumber, Fault
<1>3. ASSUME NEW r \in Requests, PostItem(r) PROVE Goal
  <2>1. /\ posted[r] \in Nat /\ posted[r] < Lines /\ posted'[r] = posted[r] + 1
        /\ pc'[r] = IF posted[r] + 1 = Lines THEN "invoice" ELSE "items"
        /\ \A q \in Requests \ {r} : pc'[q] = pc[q] /\ posted'[q] = posted[q]
        /\ UNCHANGED <<status, rail, invoices, opened>> /\ r \notin Agents
        /\ rail[r].status = "none" /\ rail[r].items = {}
        /\ invoices[r] = "none" /\ r \notin opened
    BY <1>3 DEF PostItem
  <2>2. pc'[r] = "items" => posted'[r] < Lines
    BY <2>1
  <2> QED
    BY <2>1, <2>2
<1>4. ASSUME NEW r \in Requests, CreateInvoice(r) PROVE Goal
  BY <1>4 DEF CreateInvoice, Take
<1>5. ASSUME NEW r \in Requests, FinalizeOnRail(r) PROVE Goal
  BY <1>5 DEF FinalizeOnRail, FinalStatus
<1>6. ASSUME NEW r \in Requests, PushFails(r) PROVE Goal
  BY <1>6 DEF PushFails, Fault, Take, FinalStatus
<1>7. ASSUME NEW r \in Requests, Save(r) \/ SaveFails(r) PROVE Goal
  BY <1>7 DEF Save, SaveFails, Saved, Fault
<1>8. ASSUME NEW r \in Requests, OpenCollection(r) PROVE Goal
  BY <1>8 DEF OpenCollection, Fault
<1>9. ASSUME NEW r \in Requests, RailAdvances(r) PROVE Goal
  BY <1>9 DEF RailAdvances, FinalStatus
<1>10. ASSUME Crash PROVE Goal
  BY <1>10 DEF Crash, Fault
<1> HIDE DEF Goal
<1> QED
  BY <1>1, <1>2, <1>3, <1>4, <1>5, <1>6, <1>7, <1>8, <1>9, <1>10 DEF Next, Goal

\* Every step keeps an invoice that is on the rail and not saved to a call
\* under way or cut short: only Save and what follows it end in success.
LEMMA NextUnsaved ==
    ASSUME TypeOK, HandlersInStep, UnsavedIsCutShort, Next
    PROVE  UnsavedIsCutShort'
<1> DEFINE Fine(r) == rail[r].status # "none" /\ invoices[r] = "none"
                         => pc[r] \in {"finalize", "save", "failed", "lost"}
<1>1. ASSUME NEW r \in Requests,
             \/ Start(r) \/ DrawNumber(r) \/ PostItem(r) \/ CreateInvoice(r)
             \/ FinalizeOnRail(r) \/ PushFails(r)
      PROVE  UnsavedIsCutShort'
  <2>1. /\ pc' \in [Requests -> Steps \cup Ends \cup {"idle"}]
        /\ \A q \in Requests \ {r} : pc'[q] = pc[q] /\ rail'[q] = rail[q]
        /\ UNCHANGED invoices
        /\ \/ rail' = rail /\ pc[r] \in {"idle", "number", "items"}
           \/ pc'[r] \in {"finalize", "save", "failed", "lost"}
    BY <1>1 DEF Start, DrawNumber, PostItem, CreateInvoice, FinalizeOnRail, PushFails,
                Take, Goto, AfterNumber, TypeOK, handler, Steps, Ends
  <2>2. \A q \in Requests \ {r} : Fine(q)'
    BY <2>1 DEF UnsavedIsCutShort
  <2>3. rail[r].status = "none" \/ pc[r] \notin {"idle", "number", "items"}
    BY DEF HandlersInStep, BeforeInvoice
  <2>4. Fine(r)'
    BY <2>1, <2>3
  <2> QED
    BY <2>2, <2>4 DEF UnsavedIsCutShort
<1>2. ASSUME NEW r \in Requests, Save(r) \/ SaveFails(r) \/ OpenCollection(r)
      PROVE  UnsavedIsCutShort'
  <2>1. /\ \A q \in Requests \ {r} : pc'[q] = pc[q] /\ invoices'[q] = invoices[q]
        /\ UNCHANGED rail
        /\ invoices'[r] # "none" \/ pc'[r] = "failed"
    BY <1>2 DEF Save, SaveFails, OpenCollection, Saved, Goto, TypeOK, HandlersInStep
  <2> QED
    BY <2>1 DEF UnsavedIsCutShort
<1>3. ASSUME NEW r \in Requests, RailAdvances(r)
      PROVE  UnsavedIsCutShort'
  BY <1>3 DEF RailAdvances, handler, UnsavedIsCutShort, TypeOK, RailInvoice
<1>4. CASE Crash
  BY <1>4 DEF Crash, UnsavedIsCutShort, TypeOK
<1> QED
  BY <1>1, <1>2, <1>3, <1>4 DEF Next

-----------------------------------------------------------------------------
(* Numbers and recovery records.                                           *)

\* Every step keeps the numbers drawn apart.
LEMMA NextNumbers ==
    ASSUME TypeOK, NumbersDrawn, NumbersDiffer, Next
    PROVE  NumbersDrawn' /\ NumbersDiffer'
<1>1. ASSUME NEW r \in Requests, DrawNumber(r) PROVE NumbersDrawn' /\ NumbersDiffer'
  <2>1. sequence' = sequence + 1 /\ sequence \in Nat /\ number \in [Requests -> Nat]
    BY <1>1 DEF DrawNumber, TypeOK
  <2>2. CASE UNCHANGED number
    BY <2>1, <2>2 DEF NumbersDrawn, NumbersDiffer
  <2>3. CASE number' = [number EXCEPT ![r] = sequence']
    BY <2>1, <2>3 DEF NumbersDrawn, NumbersDiffer
  <2> QED
    BY <1>1, <2>2, <2>3 DEF DrawNumber
<1>2. CASE UNCHANGED <<number, sequence>>
  BY <1>2 DEF NumbersDrawn, NumbersDiffer
<1> QED
  BY <1>1, <1>2 DEF Next, Start, PostItem, CreateInvoice, FinalizeOnRail, PushFails,
                    Save, SaveFails, OpenCollection, RailAdvances, Crash, handler

\* Every step keeps recovery to the saved bills that are unpaid.
LEMMA NextOpened ==
    ASSUME TypeOK, HandlersInStep, OpenedForUnpaid, Next
    PROVE  OpenedForUnpaid'
<1> USE DEF OpenedForUnpaid, Pushed, TypeOK, Goto
<1>1. ASSUME NEW r \in Requests, Save(r) \/ SaveFails(r) PROVE OpenedForUnpaid'
  <2>1. r \notin opened /\ invoices[r] = "none"
    BY <1>1 DEF Save, SaveFails, HandlersInStep, BeforeSave
  <2> QED
    BY <1>1, <2>1 DEF Save, SaveFails, Saved, Fault
<1>2. ASSUME NEW r \in Requests, OpenCollection(r) PROVE OpenedForUnpaid'
  <2>1. r \in Pushed /\ invoices[r] = "open"
    BY <1>2 DEF OpenCollection, HandlersInStep
  <2> QED
    BY <1>2, <2>1 DEF OpenCollection, Fault
<1>3. ASSUME UNCHANGED <<invoices, opened>>, faults' = 0 => faults = 0,
             \A r \in Requests : pc'[r] = "done" => pc[r] = "done"
      PROVE  OpenedForUnpaid'
  BY <1>3
<1>4. ASSUME NEW r \in Requests,
             \/ Start(r) \/ DrawNumber(r) \/ PostItem(r) \/ CreateInvoice(r)
             \/ FinalizeOnRail(r) \/ PushFails(r) \/ RailAdvances(r)
      PROVE  OpenedForUnpaid'
  <2>1. UNCHANGED <<invoices, opened>> /\ (faults' = 0 => faults = 0)
    BY <1>4 DEF Start, DrawNumber, PostItem, CreateInvoice, FinalizeOnRail, PushFails,
                RailAdvances, Fault
  <2>2. \A q \in Requests : pc'[q] = "done" => pc[q] = "done"
    BY <1>4 DEF Start, DrawNumber, PostItem, CreateInvoice, FinalizeOnRail, PushFails,
                RailAdvances, AfterNumber, handler
  <2> QED
    BY <1>3, <2>1, <2>2
<1>5. ASSUME Crash PROVE OpenedForUnpaid'
  BY <1>3, <1>5 DEF Crash, Fault
<1> HIDE DEF OpenedForUnpaid
<1> QED
  BY <1>1, <1>2, <1>4, <1>5 DEF Next

-----------------------------------------------------------------------------
(* Where the items are.                                                    *)

ItemsInv == ItemsOnce /\ ItemsCounted /\ ItemsTaken /\ LeftoversOnly

\* No item moves, and handlers go on without posting or creating.
LEMMA PlacesStay ==
    ASSUME TypeOK, ItemsInv, UNCHANGED pending,
           \A q \in Requests : rail'[q].items = rail[q].items,
           \A r \in Requests : pc'[r] \in {"idle", "number", "items"} =>
               pc[r] \in {"idle", "number", "items"} /\ posted'[r] = posted[r],
           \A r \in Requests : pc'[r] \in {"items", "invoice"} =>
               (pc[r] = pc'[r] /\ posted'[r] = posted[r]) \/ posted'[r] = 0,
           \A r \in Requests \ Agents :
               pc'[r] \in {"finalize", "save"} \/ invoices'[r] # "none" =>
                   pc[r] \in {"finalize", "save"} \/ invoices[r] # "none",
           \A r \in Requests : pc[r] \in {"items", "invoice", "failed", "lost"} =>
               pc'[r] \in {"items", "invoice", "failed", "lost"}
    PROVE  ItemsInv'
<1>1. \A item : OnRail(item)' = OnRail(item)
  BY DEF OnRail
<1>2. ItemsOnce'
  BY <1>1 DEF ItemsInv, ItemsOnce
<1>3. ItemsCounted'
  <2> SUFFICES ASSUME NEW r \in Requests, NEW n \in 1..Lines
               PROVE  LET item == [inv |-> r, line |-> n]
                      IN /\ (pc'[r] \in {"idle", "number", "items"} /\ n > posted'[r])
                                => item \notin pending /\ ~OnRail(item)
                         /\ (pc'[r] \in {"items", "invoice"} /\ n <= posted'[r])
                                => item \in pending \/ OnRail(item)
    BY <1>1 DEF ItemsCounted
  <2> QED
    BY DEF ItemsInv, ItemsCounted
<1>4. ItemsTaken'
  BY <1>1 DEF ItemsInv, ItemsTaken, Bill
<1>5. LeftoversOnly'
  BY DEF ItemsInv, LeftoversOnly, TypeOK, Item
<1> QED
  BY <1>2, <1>3, <1>4, <1>5 DEF ItemsInv

\* The next line of r is posted; its handler counts it, or has failed.
LEMMA ItemPosted ==
    ASSUME TypeOK, HandlersInStep, ItemsInv, NEW r \in Requests, pc[r] = "items",
           pending' = pending \cup {[inv |-> r, line |-> posted[r] + 1]},
           UNCHANGED <<rail, invoices>>,
           \A q \in Requests \ {r} : pc'[q] = pc[q] /\ posted'[q] = posted[q],
           \/ pc'[r] \in {"items", "invoice"} /\ posted'[r] = posted[r] + 1
           \/ pc'[r] = "failed"
    PROVE  ItemsInv'
<1> DEFINE new == [inv |-> r, line |-> posted[r] + 1]
<1>1. posted[r] \in 0..Lines /\ posted[r] < Lines /\ posted[r] + 1 \in 1..Lines
  BY FinalizeAssumption DEF TypeOK, HandlersInStep
<1>2. new \notin pending /\ ~OnRail(new)
  BY <1>1 DEF ItemsInv, ItemsCounted
<1>3. \A item : OnRail(item)' = OnRail(item)
  BY DEF OnRail
<1>4. ItemsOnce'
  BY <1>2, <1>3 DEF ItemsInv, ItemsOnce
<1>5. ItemsCounted'
  <2> SUFFICES ASSUME NEW q \in Requests, NEW n \in 1..Lines
               PROVE  LET item == [inv |-> q, line |-> n]
                      IN /\ (pc'[q] \in {"idle", "number", "items"} /\ n > posted'[q])
                                => item \notin pending' /\ ~OnRail(item)
                         /\ (pc'[q] \in {"items", "invoice"} /\ n <= posted'[q])
                                => item \in pending' \/ OnRail(item)
    BY <1>3 DEF ItemsCounted
  <2>1. CASE q # r
    BY <2>1 DEF ItemsInv, ItemsCounted
  <2>2. CASE q = r /\ n = posted[r] + 1
    BY <1>1, <2>2
  <2>3. CASE q = r /\ n # posted[r] + 1
    BY <1>1, <2>3 DEF ItemsInv, ItemsCounted
  <2> QED
    BY <2>1, <2>2, <2>3
<1>6. ItemsTaken'
  BY <1>3, FinalizeAssumption DEF ItemsInv, ItemsTaken, Bill
<1>7. LeftoversOnly'
  BY DEF ItemsInv, LeftoversOnly, TypeOK, Item
<1> QED
  BY <1>4, <1>5, <1>6, <1>7 DEF ItemsInv

\* The invoice of r takes all that is pending; its handler goes on or has failed.
LEMMA ItemsMove ==
    ASSUME TypeOK, HandlersInStep, ItemsInv, NEW r \in Requests, pc[r] = "invoice",
           Take(r), UNCHANGED <<posted, invoices>>,
           \A q \in Requests \ {r} : pc'[q] = pc[q],
           pc'[r] \in {"finalize", "failed"}
    PROVE  ItemsInv'
<1>1. /\ rail[r].items = {} /\ posted[r] = Lines
      /\ rail'[r].items = pending /\ pending' = {}
      /\ \A q \in Requests \ {r} : rail'[q].items = rail[q].items
  BY DEF HandlersInStep, BeforeInvoice, Take, TypeOK
<1>2. \A item : OnRail(item)' <=> OnRail(item) \/ item \in pending
  BY <1>1 DEF OnRail
<1>3. ItemsOnce'
  BY <1>1 DEF ItemsInv, ItemsOnce, OnRail
<1>4. ItemsCounted'
  <2> SUFFICES ASSUME NEW q \in Requests, NEW n \in 1..Lines
               PROVE  LET item == [inv |-> q, line |-> n]
                      IN /\ (pc'[q] \in {"idle", "number", "items"} /\ n > posted[q])
                                => item \notin pending' /\ ~OnRail(item)'
                         /\ (pc'[q] \in {"items", "invoice"} /\ n <= posted[q])
                                => item \in pending' \/ OnRail(item)'
    BY DEF ItemsCounted
  <2> QED
    BY <1>1, <1>2 DEF ItemsInv, ItemsCounted
<1>5. ItemsTaken'
  <2> SUFFICES ASSUME NEW q \in Requests \ Agents,
                      pc'[q] \in {"finalize", "save"} \/ invoices'[q] # "none",
                      NEW n \in 1..Lines
               PROVE  OnRail([inv |-> q, line |-> n])'
    BY DEF ItemsTaken, Bill
  <2>1. CASE q = r
    BY <1>1, <1>2, <2>1 DEF ItemsInv, ItemsCounted
  <2>2. CASE q # r
    BY <1>2, <2>2 DEF ItemsInv, ItemsTaken, Bill
  <2> QED
    BY <2>1, <2>2
<1>6. LeftoversOnly'
  BY <1>1 DEF LeftoversOnly
<1> QED
  BY <1>3, <1>4, <1>5, <1>6 DEF ItemsInv

\* Every step keeps the items in one place each, and counted.
LEMMA NextItems ==
    ASSUME TypeOK, HandlersInStep, ItemsInv, Next
    PROVE  ItemsInv'
<1> USE DEF Goto
<1>0. /\ pc \in [Requests -> Steps \cup Ends \cup {"idle"}]
      /\ posted \in [Requests -> 0..Lines]
      /\ invoices \in [Requests -> {"none", "finalized", "open", "paid"}]
      /\ rail \in [Requests -> RailInvoice]
  BY DEF TypeOK
<1>1. ASSUME NEW r \in Requests, Start(r) PROVE ItemsInv'
  <2>1. UNCHANGED <<posted, pending, rail, invoices>> /\ pc[r] = "idle"
        /\ pc' = [pc EXCEPT ![r] = "number"]
    BY <1>1 DEF Start
  <2> QED
    BY <1>0, <2>1, PlacesStay
<1>2. ASSUME NEW r \in Requests, DrawNumber(r) PROVE ItemsInv'
  <2>1. UNCHANGED <<posted, pending, rail, invoices>> /\ pc[r] = "number"
        /\ pc' = [pc EXCEPT ![r] = IF r \in Agents THEN "save" ELSE "items"]
    BY <1>2 DEF DrawNumber, AfterNumber
  <2>2. posted[r] = 0
    BY <2>1 DEF HandlersInStep
  <2> QED
    BY <1>0, <2>1, <2>2, PlacesStay
<1>3. ASSUME NEW r \in Requests, PostItem(r) PROVE ItemsInv'
  <2>1. /\ pc[r] = "items" /\ UNCHANGED <<rail, invoices>>
        /\ pending' = pending \cup {[inv |-> r, line |-> posted[r] + 1]}
        /\ posted' = [posted EXCEPT ![r] = posted[r] + 1]
        /\ pc' = [pc EXCEPT ![r] = IF posted[r] + 1 = Lines THEN "invoice" ELSE "items"]
    BY <1>3 DEF PostItem
  <2>2. \A q \in Requests \ {r} : pc'[q] = pc[q] /\ posted'[q] = posted[q]
    BY <1>0, <2>1
  <2>3. pc'[r] \in {"items", "invoice"} /\ posted'[r] = posted[r] + 1
    BY <1>0, <2>1
  <2> QED
    BY <2>1, <2>2, <2>3, ItemPosted
<1>4. ASSUME NEW r \in Requests, CreateInvoice(r) PROVE ItemsInv'
  <2>1. pc[r] = "invoice" /\ Take(r) /\ UNCHANGED <<posted, invoices>>
        /\ pc' = [pc EXCEPT ![r] = "finalize"]
    BY <1>4 DEF CreateInvoice
  <2>2. pc'[r] = "finalize" /\ \A q \in Requests \ {r} : pc'[q] = pc[q]
    BY <1>0, <2>1
  <2> QED
    BY <2>1, <2>2, ItemsMove
<1>5. ASSUME NEW r \in Requests, FinalizeOnRail(r) PROVE ItemsInv'
  <2>1. /\ pc[r] = "finalize" /\ UNCHANGED <<posted, pending, invoices>>
        /\ \/ pc' = [pc EXCEPT ![r] = "save"]
           \/ pc' = [pc EXCEPT ![r] = "failed"]
    BY <1>5 DEF FinalizeOnRail
  <2>2. \A q \in Requests : rail'[q].items = rail[q].items
    BY <1>5, StatusStep DEF FinalizeOnRail, FinalStatus
  <2> QED
    BY <1>0, <2>1, <2>2, PlacesStay
<1>6. ASSUME NEW r \in Requests, PushFails(r) PROVE ItemsInv'
  <2>1. /\ pc[r] \in {"items", "invoice", "finalize"}
        /\ UNCHANGED <<posted, invoices>>
        /\ pc' = [pc EXCEPT ![r] = "failed"]
    BY <1>6 DEF PushFails
  <2>2. pc'[r] = "failed" /\ \A q \in Requests \ {r} : pc'[q] = pc[q]
    BY <1>0, <2>1
  <2>3. CASE UNCHANGED pending /\ \A q \in Requests : rail'[q].items = rail[q].items
    BY <1>0, <2>1, <2>3, PlacesStay
  <2>4. CASE /\ pc[r] = "items" /\ UNCHANGED rail
             /\ pending' = pending \cup {[inv |-> r, line |-> posted[r] + 1]}
    BY <2>1, <2>2, <2>4, ItemPosted
  <2>5. CASE pc[r] = "invoice" /\ Take(r)
    BY <2>1, <2>2, <2>5, ItemsMove
  <2> QED
    BY <1>6, <2>3, <2>4, <2>5, StatusStep DEF PushFails, FinalStatus
<1>7. ASSUME NEW r \in Requests, Save(r) \/ SaveFails(r) PROVE ItemsInv'
  <2>1. /\ pc[r] = "save" /\ UNCHANGED <<posted, pending, rail>>
        /\ \/ pc' = [pc EXCEPT ![r] = "open"]
           \/ pc' = [pc EXCEPT ![r] = "done"]
           \/ pc' = [pc EXCEPT ![r] = "failed"]
        /\ \A q \in Requests \ {r} : invoices'[q] = invoices[q]
    BY <1>0, <1>7 DEF Save, SaveFails, Saved
  <2> QED
    BY <1>0, <2>1, PlacesStay
<1>8. ASSUME NEW r \in Requests, OpenCollection(r) PROVE ItemsInv'
  <2>1. pc[r] = "open" /\ pc' = [pc EXCEPT ![r] = "done"]
        /\ UNCHANGED <<posted, pending, rail, invoices>>
    BY <1>8 DEF OpenCollection
  <2> QED
    BY <1>0, <2>1, PlacesStay
<1>9. ASSUME NEW r \in Requests, RailAdvances(r) PROVE ItemsInv'
  <2>1. UNCHANGED <<pc, posted, pending, invoices>>
    BY <1>9 DEF RailAdvances, handler
  <2>2. \A q \in Requests : rail'[q].items = rail[q].items
    BY <1>9, StatusStep DEF RailAdvances, FinalStatus
  <2> QED
    BY <1>0, <2>1, <2>2, PlacesStay
<1>10. ASSUME Crash PROVE ItemsInv'
  <2>1. /\ UNCHANGED <<posted, pending, rail, invoices>>
        /\ \A r \in Requests : pc'[r] = IF pc[r] \in Steps THEN "lost" ELSE pc[r]
    BY <1>10 DEF Crash
  <2> QED
    BY <1>0, <2>1, PlacesStay DEF Steps
<1> QED
  BY <1>1, <1>2, <1>3, <1>4, <1>5, <1>6, <1>7, <1>8, <1>9, <1>10 DEF Next

-----------------------------------------------------------------------------
(* The theorems.                                                           *)

\* FinalizeInv holds in every reachable state.
THEOREM FinalizeInvariant == Spec => []FinalizeInv
<1>1. FinalizeInv /\ [Next]_vars => FinalizeInv'
  <2> SUFFICES ASSUME FinalizeInv, [Next]_vars PROVE FinalizeInv'
    OBVIOUS
  <2>1. CASE Next
    BY <2>1, NextType, NextHandlers, NextUnsaved, NextNumbers, NextOpened, NextItems
       DEF FinalizeInv, RailHasSaved, ItemsInv
  <2>2. CASE UNCHANGED vars
    <3> USE <2>2 DEF vars, handler
    <3>1. TypeOK' /\ NumbersDrawn' /\ NumbersDiffer'
      BY DEF FinalizeInv, TypeOK, NumbersDrawn, NumbersDiffer
    <3>2. HandlersInStep' /\ RailHasSaved'
      BY DEF FinalizeInv, HandlersInStep, RailHasSaved, SavedIsFinal,
             UnsavedIsCutShort, Pushed, Billed
    <3>3. OpenedForUnpaid'
      BY DEF FinalizeInv, OpenedForUnpaid, Pushed
    <3>4. ItemsInv'
      BY PlacesStay DEF FinalizeInv, ItemsInv
    <3> QED
      BY <3>1, <3>2, <3>3, <3>4 DEF FinalizeInv, ItemsInv
  <2> QED
    BY <2>1, <2>2
<1> QED
  BY <1>1, FinalizeInit, PTL DEF Spec

\* Types.
THEOREM FinalizeTypeCorrect == Spec => []TypeOK
<1>1. FinalizeInv => TypeOK
  BY DEF FinalizeInv
<1> QED
  BY <1>1, FinalizeInvariant, PTL

\* Nothing is saved as pushed that the rail has not finalized (phase2.go:84),
\* and no call that succeeds leaves an invoice on the rail unsaved.
THEOREM SavedIsOnRail == Spec => []RailHasSaved
<1>1. FinalizeInv => RailHasSaved
  BY DEF FinalizeInv
<1> QED
  BY <1>1, FinalizeInvariant, PTL

\* No two invoices have one number (NextInvoiceNumber).
THEOREM NumbersAreUnique == Spec => []NumbersDiffer
<1>1. FinalizeInv => NumbersDiffer
  BY DEF FinalizeInv
<1> QED
  BY <1>1, FinalizeInvariant, PTL

\* Every line of a bill that was pushed is billed, on one invoice only, however
\* many requests overlap or fail (PushInvoice).
THEOREM EveryLineIsBilledOnce == Spec => []NothingUnbilled
<1>1. FinalizeInv => NothingUnbilled
  <2> SUFFICES ASSUME FinalizeInv, NEW r \in Pushed, NEW item \in Bill(r)
               PROVE  /\ item \notin pending
                      /\ \E q \in Requests : /\ item \in rail[q].items
                                             /\ \A p \in Requests \ {q} : item \notin rail[p].items
    BY DEF NothingUnbilled
  <2>1. OnRail(item)
    BY DEF FinalizeInv, ItemsTaken, Pushed
  <2>2. item \notin pending
    BY <2>1 DEF FinalizeInv, ItemsOnce
  <2>3. PICK q \in Requests : item \in rail[q].items
    BY <2>1 DEF OnRail
  <2>4. \A p \in Requests \ {q} : item \notin rail[p].items
    BY <2>3 DEF FinalizeInv, ItemsOnce
  <2> QED
    BY <2>2, <2>3, <2>4
<1> QED
  BY <1>1, FinalizeInvariant, PTL

\* What waits on the customer belongs to a push under way or cut short.
THEOREM OnlyCutShortLeavesItems == Spec => []LeftoversOnly
<1>1. FinalizeInv => LeftoversOnly
  BY DEF FinalizeInv
<1> QED
  BY <1>1, FinalizeInvariant, PTL

\* Recovery is opened for the bills that went out unpaid and for no others
\* (phase2.go:116-118).
THEOREM RecoveryForUnpaid == Spec => []OpenedForUnpaid
<1>1. FinalizeInv => OpenedForUnpaid
  BY DEF FinalizeInv
<1> QED
  BY <1>1, FinalizeInvariant, PTL
=============================================================================
