-------------------------- MODULE CollectionsProofs --------------------------
(***************************************************************************)
(* Proofs about Collections for every set of invoices and workers, every   *)
(* schedule, every rail and every bound.                                   *)
(*                                                                         *)
(* The invariants of the store alone are not inductive: a stale copy, an   *)
(* answer about to be folded in and a webhook in flight all end up in the  *)
(* store.  IInv says of each what the store needs of it.                   *)
(***************************************************************************)
EXTENDS Collections, TLAPS

Live(c) == c.status \in {"scheduled", "retrying", "requires_action"}

Tried(c) == c.attempts > 0 \/ c.status \in {"retrying", "requires_action"}

\* An answer or a webhook says no more than the rail has said.
TrueAnswer(e) == IF e.kind = "paid" THEN SaidPaid(e.inv) ELSE SaidUnpaid(e.inv)

AnswersAreTrue ==
    /\ \A e \in inbox : TrueAnswer(e)
    /\ \A w \in Workers : \A e \in outcome[w] : TrueAnswer(e)

\* A copy is of a record that was open, not final and on the cadence.
CopiesAreSound ==
    \A w \in Workers, i \in Invoices :
       \/ copy[w][i] = Absent
       \/ /\ i \notin opening
          /\ Live(copy[w][i])
          /\ OnCadence(copy[w][i])
          /\ Tried(copy[w][i]) => SaidUnpaid(i)

\* Whatever a handler will write back, it has read.
HeldIsCopied ==
    \A w \in Workers :
       /\ \A i \in todo[w] : copy[w][i] # Absent
       /\ \A e \in outcome[w] : copy[w][e.inv] # Absent

RecordsAreSound ==
    \A i \in Invoices :
       /\ OnCadence(collections[i])
       /\ Exhausted(collections[i])
       /\ collections[i].status = "paid" => SaidPaid(i)
       /\ i \in opening => collections[i] = Absent
       /\ collections[i].status = "none" => collections[i] = Absent
       /\ Tried(collections[i]) /\ collections[i].status # "paid"
             => SaidUnpaid(i)

IInv ==
    /\ TypeOK
    /\ RecordsAreSound
    /\ CopiesAreSound
    /\ HeldIsCopied
    /\ AnswersAreTrue
    /\ NoticesAreTrue

-----------------------------------------------------------------------------
(* What one outcome does to one record.                                    *)

\* Folding an answer into an open record on the cadence leaves a record on
\* the cadence, with a justified write-off and "paid" only of a payment.
LEMMA FoldSound ==
    ASSUME TypeOK,
           NEW c \in Collection, Live(c), OnCadence(c),
           NEW e \in Outcome
    PROVE  /\ Fold(c, e) \in Collection
           /\ OnCadence(Fold(c, e))
           /\ Exhausted(Fold(c, e))
           /\ Fold(c, e).status # "none"
           /\ (Fold(c, e).status = "paid") <=> (e.kind = "paid")
           /\ Fold(c, e).attempts <= c.attempts + 1
<1> USE DunningAssumption DEF NoTime
<1>0. /\ now \in Nat \ {0}
      /\ Retries \in Nat
      /\ \A n \in 1..Retries : DefaultSchedule[n] \in Nat \ {0}
  BY DEF TypeOK, Retries
<1>1. CASE e.kind = "action_required"
  <2>1. Fold(c, e) = Pause(c)
    BY <1>1 DEF Fold
  <2>2. QED
    BY <1>1, <2>1 DEF Pause, OnCadence, Exhausted, Collection, Statuses
<1>2. CASE e.kind = "paid"
  <2>1. Fold(c, e) = Success(c)
    BY <1>2 DEF Fold, RecordAttempt
  <2>2. QED
    BY <1>2, <2>1 DEF Success, OnCadence, Exhausted, Collection, Statuses
<1>3. CASE e.kind = "failed"
  <2>1. FirstFailure(c, now) \in Nat \ {0} /\ e.reason \in Reasons
    BY <1>0 DEF FirstFailure, Collection, Outcome
  <2>2. CASE Classify(e.reason) # "soft"
    <3>1. Fold(c, e) = StopFailure(c, e.reason, now)
      BY <1>3, <2>2 DEF Fold, RecordAttempt
    <3>2. QED
      BY <1>3, <2>1, <3>1 DEF StopFailure, OnCadence, Exhausted, Collection, Statuses
  <2>3. CASE Classify(e.reason) = "soft"
    <3>1. Fold(c, e) = SoftFailure(c, e.reason, now)
      BY <1>3, <2>3 DEF Fold, RecordAttempt
    <3>2. CASE c.attempts + 1 > Retries
      BY <1>0, <1>3, <2>1, <2>3, <3>1, <3>2
         DEF SoftFailure, OnCadence, Exhausted, Collection, Statuses
    <3>3. CASE ~(c.attempts + 1 > Retries)
      <4> DEFINE n == c.attempts + 1
                 first == FirstFailure(c, now)
      <4>1. n \in 1..Retries /\ n <= c.attempts + 1
        BY <1>0, <3>3 DEF Collection
      <4>2. DefaultSchedule[n] \in Nat \ {0}
        BY <1>0, <4>1
      <4>3. Fold(c, e) = [status |-> "retrying", attempts |-> n, first |-> first,
                          next |-> first + DefaultSchedule[n], reason |-> e.reason]
        BY <3>1, <3>3 DEF SoftFailure
      <4> HIDE DEF n, first
      <4>4. first \in Nat \ {0}
        BY <2>1 DEF first
      <4>5. /\ Fold(c, e).status = "retrying"
            /\ Fold(c, e).attempts = n
            /\ Fold(c, e).first = first
            /\ Fold(c, e).next = first + DefaultSchedule[n]
        BY <4>3
      <4>6. Fold(c, e) \in Collection
        BY <1>0, <2>1, <4>1, <4>2, <4>3, <4>4 DEF Collection, Statuses
      <4>7. OnCadence(Fold(c, e))
        BY <1>0, <4>1, <4>4, <4>5 DEF OnCadence
      <4>8. Exhausted(Fold(c, e))
        BY <4>5 DEF Exhausted
      <4>9. QED
        BY <1>3, <4>1, <4>5, <4>6, <4>7, <4>8
    <3>4. QED  BY <3>2, <3>3
  <2>4. QED  BY <2>2, <2>3
<1>4. QED  BY <1>1, <1>2, <1>3 DEF Outcome

\* What is announced of a fold is true when the answer is, and a recovery is
\* announced only of a record that had been tried before.
LEMMA NoticeSound ==
    ASSUME TypeOK,
           NEW c \in Collection, Live(c), OnCadence(c),
           NEW e \in Outcome, TrueAnswer(e),
           Tried(c) => SaidUnpaid(e.inv)
    PROVE  LET told1 == Notice(c.status, Fold(c, e))
           IN  /\ told1 \subseteq Notices
               /\ told1 \cap {"invoice.paid", "invoice.recovered"} # {}
                     => SaidPaid(e.inv)
               /\ told1 \ {"invoice.paid"} # {} => SaidUnpaid(e.inv)
<1> DEFINE f == Fold(c, e)
<1>1. /\ f \in Collection
      /\ (f.status = "paid") <=> (e.kind = "paid")
      /\ f.attempts <= c.attempts + 1
  BY FoldSound
<1>2. CASE e.kind = "paid"
  <2>1. f.status = "paid" /\ SaidPaid(e.inv)
    BY <1>1, <1>2 DEF TrueAnswer
  <2>2. f.attempts > 1 \/ c.status \in {"retrying", "requires_action"} => Tried(c)
    BY <1>1 DEF Tried, Collection
  <2> HIDE DEF f
  <2>3. Notice(c.status, f) = IF f.attempts > 1
                                 \/ c.status \in {"retrying", "requires_action"}
                              THEN {"invoice.recovered"} ELSE {"invoice.paid"}
    BY <2>1 DEF Notice
  <2>4. QED  BY <2>1, <2>2, <2>3 DEF Notices, f
<1>3. CASE e.kind # "paid"
  <2>1. f.status # "paid" /\ SaidUnpaid(e.inv)
    BY <1>1, <1>3 DEF TrueAnswer
  <2> HIDE DEF f
  <2>2. Notice(c.status, f) \in {{}, {"invoice.payment_failed"},
                                 {"invoice.action_required"}, {"invoice.uncollectible"}}
    BY <2>1 DEF Notice
  <2>3. QED  BY <2>1, <2>2 DEF Notices, f
<1>4. QED  BY <1>2, <1>3

-----------------------------------------------------------------------------
(* What most steps have in common.                                         *)

\* Nothing any step does makes a fact about the rail or the opening false.
Forward ==
    /\ opening' \subseteq opening
    /\ \A i \in Invoices : /\ SaidPaid(i) => SaidPaid(i)'
                           /\ SaidUnpaid(i) => SaidUnpaid(i)'

\* The handlers hold no more than they did: a copy that is still needed is
\* the one that was there.
Shrinks ==
    /\ todo' \in [Workers -> SUBSET Invoices]
    /\ copy' \in [Workers -> [Invoices -> Collection]]
    /\ outcome' \in [Workers -> SUBSET Outcome]
    /\ \A w \in Workers :
          /\ todo'[w] \subseteq todo[w]
          /\ outcome'[w] \subseteq outcome[w]
          /\ \A i \in Invoices : copy'[w][i] \in {copy[w][i], Absent}
          /\ \A i \in todo'[w] : copy'[w][i] = copy[w][i]
          /\ \A e \in outcome'[w] : copy'[w][e.inv] = copy[w][e.inv]

WorkersAreSound ==
    /\ CopiesAreSound
    /\ HeldIsCopied
    /\ \A w \in Workers : \A e \in outcome[w] : TrueAnswer(e)

\* The missing record is a record.
LEMMA AbsentIsCollection == Absent \in Collection
BY DunningAssumption DEF Absent, New, Collection, NoTime

\* What handlers hold stays sound when they hold less and the rail only
\* moves forward: a decline or a payment, once made, is never taken back.
LEMMA WorkersKept ==
    ASSUME TypeOK, WorkersAreSound, Forward, Shrinks
    PROVE  WorkersAreSound'
<1>1. CopiesAreSound'
  BY DEF WorkersAreSound, CopiesAreSound, Forward, Shrinks, TypeOK
<1>2. HeldIsCopied'
  <2> SUFFICES ASSUME NEW w \in Workers
               PROVE  /\ \A i \in todo'[w] : copy'[w][i] # Absent
                      /\ \A e \in outcome'[w] : copy'[w][e.inv] # Absent
    BY DEF HeldIsCopied, Absent, New
  <2>1. \A i \in todo'[w] : copy'[w][i] # Absent
    BY DEF WorkersAreSound, HeldIsCopied, Shrinks
  <2>2. \A e \in outcome'[w] : copy'[w][e.inv] # Absent
    BY DEF WorkersAreSound, HeldIsCopied, Shrinks
  <2>3. QED  BY <2>1, <2>2
<1>3. \A w \in Workers : \A e \in outcome'[w] : TrueAnswer(e)'
  <2> SUFFICES ASSUME NEW w \in Workers, NEW e \in outcome'[w]
               PROVE  TrueAnswer(e)'
    OBVIOUS
  <2>1. e \in Outcome /\ TrueAnswer(e)
    BY DEF WorkersAreSound, Shrinks, TypeOK
  <2>2. QED
    BY <2>1 DEF TrueAnswer, Forward, Outcome, TypeOK
<1>4. QED  BY <1>1, <1>2, <1>3 DEF WorkersAreSound

\* Records that are not written stay sound as the rail moves forward.
LEMMA RecordsKept ==
    ASSUME TypeOK, RecordsAreSound, Forward, UNCHANGED collections
    PROVE  RecordsAreSound'
<1> SUFFICES ASSUME NEW i \in Invoices
             PROVE  /\ OnCadence(collections[i])
                    /\ Exhausted(collections[i])
                    /\ collections[i].status = "paid" => SaidPaid(i)'
                    /\ i \in opening' => collections[i] = Absent
                    /\ collections[i].status = "none" => collections[i] = Absent
                    /\ Tried(collections[i]) /\ collections[i].status # "paid"
                          => SaidUnpaid(i)'
  BY DEF RecordsAreSound, OnCadence, Exhausted, Tried, Classify
<1>1. QED
  BY DEF RecordsAreSound, Forward, TypeOK

\* What was announced stays true as the rail moves forward.
LEMMA NoticesKept ==
    ASSUME TypeOK, NoticesAreTrue, Forward, UNCHANGED told
    PROVE  NoticesAreTrue'
BY DEF NoticesAreTrue, Forward, TypeOK

\* A webhook in flight stays true, and one just sent says what was done.
InboxIsTrue == \A e \in inbox : TrueAnswer(e)

\* Webhooks stay true when every new one says what the rail has done.
LEMMA InboxKept ==
    ASSUME TypeOK, InboxIsTrue, Forward,
           \A e \in inbox' : e \in inbox \/ TrueAnswer(e)'
    PROVE  InboxIsTrue'
<1> SUFFICES ASSUME NEW e \in inbox, e \in inbox'
             PROVE  TrueAnswer(e)'
  BY DEF InboxIsTrue
<1>1. e \in Outcome /\ TrueAnswer(e)
  BY DEF InboxIsTrue, TypeOK
<1>2. QED  BY <1>1 DEF TrueAnswer, Forward, Outcome, TypeOK

\* The invariant, grouped by who holds the data: store, handlers, rail.
LEMMA IInvParts ==
    IInv <=> TypeOK /\ RecordsAreSound /\ WorkersAreSound /\ InboxIsTrue
                    /\ NoticesAreTrue
BY DEF IInv, WorkersAreSound, InboxIsTrue, AnswersAreTrue

\* Done with an item, a handler holds less.
LEMMA FinishShrinks ==
    ASSUME TypeOK, NEW w \in Workers, NEW i \in Invoices, Finish(w, i)
    PROVE  Shrinks
BY AbsentIsCollection DEF TypeOK, Finish, Shrinks

\* A step that leaves the handlers alone gives them nothing more to hold.
LEMMA StutterShrinks ==
    ASSUME TypeOK, UNCHANGED worker
    PROVE  Shrinks
BY DEF TypeOK, worker, Shrinks

\* The rail answers with what it has just done.
RailIsTrue == /\ paid' \subseteq Invoices
              /\ declines' \in [Invoices -> Nat]
              /\ pending' \in [Invoices -> Nat]
              /\ unread' \subseteq Invoices
              /\ inbox' \subseteq Outcome
              /\ \A e \in inbox' : e \in inbox \/ TrueAnswer(e)'

\* A payment at the rail: its answer and its webhook are true of it.
LEMMA RailPaysIsTrue ==
    ASSUME TypeOK, NEW i \in Invoices, RailPays(i), UNCHANGED opening
    PROVE  Forward /\ RailIsTrue /\ Paid(i) \in Outcome /\ TrueAnswer(Paid(i))'
BY DunningAssumption
   DEF TypeOK, RailPays, Forward, RailIsTrue, TrueAnswer, Paid, Outcome,
       SaidPaid, SaidUnpaid

\* A decline at the rail: its answer and its webhook are true of it,
\* whichever code the webhook carries.
LEMMA RailDeclinesIsTrue ==
    ASSUME TypeOK, NEW i \in Invoices, NEW r \in Reasons, RailDeclines(i, r),
           UNCHANGED opening
    PROVE  Forward /\ RailIsTrue /\ Failed(i, r) \in Outcome
           /\ TrueAnswer(Failed(i, r))'
<1>1. PICK code \in Reasons : inbox' = inbox \cup {Failed(i, code)}
  BY DunningAssumption DEF RailDeclines
<1>2. QED
  BY <1>1 DEF TypeOK, RailDeclines, Forward, RailIsTrue, TrueAnswer, Failed, Outcome,
              SaidPaid, SaidUnpaid

\* A step that leaves the rail alone leaves it true.
LEMMA RailStutters ==
    ASSUME TypeOK, UNCHANGED rail, opening' \subseteq opening
    PROVE  Forward /\ RailIsTrue
BY DEF TypeOK, rail, Forward, RailIsTrue, SaidPaid, SaidUnpaid

\* A step that writes no record and tells nobody keeps the invariant.
LEMMA QuietStep ==
    ASSUME IInv, Forward, RailIsTrue, Shrinks, UNCHANGED <<collections, told>>,
           now' \in Nat \ {0}, faults' \in Nat
    PROVE  IInv'
<1>1. TypeOK /\ RecordsAreSound /\ WorkersAreSound /\ InboxIsTrue /\ NoticesAreTrue
  BY IInvParts
<1>2. TypeOK'
  BY <1>1 DEF TypeOK, Forward, RailIsTrue, Shrinks
<1>3. RecordsAreSound' /\ NoticesAreTrue'
  BY <1>1, RecordsKept, NoticesKept
<1>4. WorkersAreSound'
  BY <1>1, WorkersKept
<1>5. InboxIsTrue'
  BY <1>1, InboxKept DEF RailIsTrue
<1>6. QED
  BY <1>2, <1>3, <1>4, <1>5
     DEF IInv, WorkersAreSound, InboxIsTrue, AnswersAreTrue

\* A step that only hands a handler records or an answer keeps the invariant
\* if what it hands over is sound.
LEMMA TakeStep ==
    ASSUME IInv, Forward, RailIsTrue, UNCHANGED <<collections, told, now>>,
           faults' \in Nat, WorkersAreSound',
           todo' \in [Workers -> SUBSET Invoices],
           copy' \in [Workers -> [Invoices -> Collection]],
           outcome' \in [Workers -> SUBSET Outcome]
    PROVE  IInv'
<1>1. TypeOK /\ RecordsAreSound /\ InboxIsTrue /\ NoticesAreTrue
  BY IInvParts
<1>2. TypeOK'
  BY <1>1 DEF TypeOK, Forward, RailIsTrue
<1>3. RecordsAreSound' /\ NoticesAreTrue'
  BY <1>1, RecordsKept, NoticesKept
<1>4. InboxIsTrue'
  BY <1>1, InboxKept DEF RailIsTrue
<1>5. QED
  BY <1>2, <1>3, <1>4
     DEF IInv, WorkersAreSound, InboxIsTrue, AnswersAreTrue

\* An answer of the rail to the handler on w keeps the invariant.
LEMMA AnswerStep ==
    ASSUME IInv, NEW w \in Workers, NEW e \in Outcome,
           e.inv \in todo[w], outcome' = [outcome EXCEPT ![w] = {e}],
           TrueAnswer(e)', Forward, RailIsTrue, faults' \in Nat,
           UNCHANGED <<collections, todo, copy, told, now>>
    PROVE  IInv'
<1>1. TypeOK /\ WorkersAreSound
  BY IInvParts
<1>2. CopiesAreSound'
  BY <1>1 DEF WorkersAreSound, CopiesAreSound, Forward, TypeOK
<1>3. HeldIsCopied'
  BY <1>1 DEF WorkersAreSound, HeldIsCopied, TypeOK
<1>4. ASSUME NEW v \in Workers, NEW a \in outcome'[v]
      PROVE  TrueAnswer(a)'
  <2>1. CASE v = w
    BY <1>1, <2>1 DEF TypeOK
  <2>2. CASE v # w
    <3>1. a \in Outcome /\ TrueAnswer(a)
      BY <1>1, <2>2 DEF WorkersAreSound, TypeOK
    <3>2. QED  BY <1>1, <3>1 DEF TrueAnswer, Forward, Outcome, TypeOK
  <2>3. QED  BY <2>1, <2>2
<1>5. WorkersAreSound'
  BY <1>2, <1>3, <1>4 DEF WorkersAreSound
<1>6. QED
  BY <1>1, <1>5, TakeStep DEF TypeOK

-----------------------------------------------------------------------------
(* The steps that write a record or read one to act on it.                 *)

\* Finalize's write of a new record falls on a missing one, so no copy and
\* no announcement of a moved record is undone by it.
LEMMA OpenStep ==
    ASSUME IInv, NEW i \in Invoices, OpenCollection(i)
    PROVE  IInv'
<1> USE DEF NoTime
<1>1. TypeOK /\ RecordsAreSound /\ WorkersAreSound /\ InboxIsTrue /\ NoticesAreTrue
  BY IInvParts
<1>2. /\ collections' = [collections EXCEPT ![i] = New]
      /\ opening' = opening \ {i}
      /\ UNCHANGED <<worker, rail, told, now, faults>>
  BY DEF OpenCollection
<1>3. New \in Collection /\ OnCadence(New) /\ Exhausted(New) /\ ~Tried(New)
      /\ New.status = "scheduled"
  BY DunningAssumption DEF New, Collection, OnCadence, Exhausted, Tried, Statuses
<1>4. Forward /\ RailIsTrue /\ Shrinks
  BY <1>1, <1>2, RailStutters, StutterShrinks
<1>5. TypeOK'
  BY <1>1, <1>2, <1>3 DEF TypeOK, worker, rail
<1>6. RecordsAreSound'
  <2> SUFFICES ASSUME NEW j \in Invoices
               PROVE  /\ OnCadence(collections'[j])
                      /\ Exhausted(collections'[j])
                      /\ collections'[j].status = "paid" => SaidPaid(j)
                      /\ j \in opening' => collections'[j] = Absent
                      /\ collections'[j].status = "none" => collections'[j] = Absent
                      /\ Tried(collections'[j]) /\ collections'[j].status # "paid"
                            => SaidUnpaid(j)
    BY <1>2 DEF RecordsAreSound, OnCadence, Exhausted, Tried, Classify, rail,
                SaidPaid, SaidUnpaid
  <2>1. CASE j = i
    BY <1>1, <1>2, <1>3, <2>1 DEF TypeOK
  <2>2. CASE j # i
    BY <1>1, <1>2, <2>2 DEF RecordsAreSound, TypeOK
  <2>3. QED  BY <2>1, <2>2
<1>7. WorkersAreSound' /\ NoticesAreTrue' /\ InboxIsTrue'
  BY <1>1, <1>2, <1>4, WorkersKept, NoticesKept, InboxKept DEF RailIsTrue
<1>8. QED
  BY <1>5, <1>6, <1>7
     DEF IInv, WorkersAreSound, InboxIsTrue, AnswersAreTrue

\* A record that is neither missing nor final is fit to be copied.
LEMMA OpenRecordIsSound ==
    ASSUME IInv, NEW i \in Invoices, collections[i].status # "none",
           ~Terminal(collections[i].status)
    PROVE  /\ collections[i] \in Collection
           /\ collections[i] # Absent
           /\ i \notin opening
           /\ Live(collections[i])
           /\ OnCadence(collections[i])
           /\ Tried(collections[i]) => SaidUnpaid(i)
BY DEF IInv, TypeOK, RecordsAreSound, Collection, Statuses, Terminal, Live, Absent,
       New

\* A handler that starts holds copies of open records, fresh from the store.
Reads(w) ==
    /\ todo' \in [Workers -> SUBSET Invoices]
    /\ copy' \in [Workers -> [Invoices -> Collection]]
    /\ outcome' \in [Workers -> SUBSET Outcome]
    /\ \A v \in Workers \ {w} : /\ todo'[v] = todo[v]
                                /\ copy'[v] = copy[v]
                                /\ outcome'[v] = outcome[v]
    /\ \A i \in Invoices :
          \/ copy'[w][i] \in {copy[w][i], Absent}
          \/ /\ copy'[w][i] = collections[i]
             /\ collections[i].status # "none"
             /\ ~Terminal(collections[i].status)
    /\ \A i \in todo'[w] : copy'[w][i] # Absent
    /\ \A e \in outcome'[w] : copy'[w][e.inv] # Absent /\ TrueAnswer(e)

\* A handler that reads open records to act on them keeps the invariant.
LEMMA ReadStep ==
    ASSUME IInv, NEW w \in Workers, Reads(w), opening' \subseteq opening,
           UNCHANGED <<collections, told, now, paid, declines, pending, unread>>,
           inbox' \subseteq inbox, faults' \in Nat
    PROVE  IInv'
<1>1. TypeOK /\ WorkersAreSound
  BY IInvParts
<1>2. Forward /\ RailIsTrue
  BY <1>1 DEF TypeOK, Forward, RailIsTrue, SaidPaid, SaidUnpaid
<1>3. CopiesAreSound'
  <2> SUFFICES ASSUME NEW v \in Workers, NEW i \in Invoices
               PROVE  \/ copy'[v][i] = Absent
                      \/ /\ i \notin opening'
                         /\ Live(copy'[v][i])
                         /\ OnCadence(copy'[v][i])
                         /\ Tried(copy'[v][i]) => SaidUnpaid(i)
    BY DEF CopiesAreSound, Live, OnCadence, Tried, Absent, New, SaidUnpaid
  <2>1. CASE copy'[v][i] = copy[v][i]
    BY <1>1, <2>1 DEF WorkersAreSound, CopiesAreSound
  <2>2. CASE copy'[v][i] # copy[v][i] /\ copy'[v][i] # Absent
    <3>1. v = w /\ copy'[v][i] = collections[i]
          /\ collections[i].status # "none" /\ ~Terminal(collections[i].status)
      BY <2>2 DEF Reads
    <3>2. QED  BY <3>1, OpenRecordIsSound
  <2>3. QED  BY <2>1, <2>2
<1>4. HeldIsCopied'
  <2> SUFFICES ASSUME NEW v \in Workers
               PROVE  /\ \A i \in todo'[v] : copy'[v][i] # Absent
                      /\ \A e \in outcome'[v] : copy'[v][e.inv] # Absent
    BY DEF HeldIsCopied, Absent, New
  <2>1. CASE v = w
    BY <2>1 DEF Reads
  <2>2. CASE v # w
    BY <1>1, <2>2 DEF Reads, WorkersAreSound, HeldIsCopied
  <2>3. QED  BY <2>1, <2>2
<1>5. ASSUME NEW v \in Workers, NEW e \in outcome'[v]
      PROVE  TrueAnswer(e)'
  <2>1. TrueAnswer(e)
    BY <1>1 DEF Reads, WorkersAreSound
  <2>2. QED  BY <2>1 DEF TrueAnswer, SaidPaid, SaidUnpaid
<1>6. WorkersAreSound'
  BY <1>3, <1>4, <1>5 DEF WorkersAreSound
<1>7. QED
  BY <1>2, <1>6, TakeStep DEF Reads

\* The scheduler's snapshot of the due records (RunDueDunning).
LEMMA SweepStep ==
    ASSUME IInv, NEW w \in Workers, Sweep(w)
    PROVE  IInv'
<1>1. TypeOK /\ WorkersAreSound
  BY IInvParts
<1>2. /\ outcome[w] = {}
      /\ todo' = [todo EXCEPT ![w] = CollectionsDue]
      /\ copy' = [copy EXCEPT ![w] =
                    [i \in Invoices |-> IF i \in CollectionsDue THEN collections[i]
                                                                ELSE Absent]]
      /\ UNCHANGED <<store, outcome, rail, told, now, faults>>
  BY DEF Sweep, Idle
<1>3. /\ CollectionsDue \subseteq Invoices
      /\ \A i \in CollectionsDue : collections[i].status # "none"
                                   /\ ~Terminal(collections[i].status)
  BY DEF CollectionsDue, Due, Terminal
<1>4. \A i \in CollectionsDue : collections[i] # Absent
  BY <1>3, OpenRecordIsSound
<1>5. Reads(w)
  BY <1>1, <1>2, <1>3, <1>4, AbsentIsCollection DEF Reads, TypeOK
<1>6. QED
  BY <1>1, <1>2, <1>5, ReadStep DEF store, rail, TypeOK

\* The read of a manual collect (collectInvoice).
LEMMA CollectStep ==
    ASSUME IInv, NEW w \in Workers, NEW i \in Invoices, Collect(w, i)
    PROVE  IInv'
<1>1. TypeOK /\ WorkersAreSound
  BY IInvParts
<1>2. /\ outcome[w] = {}
      /\ collections[i].status # "none"
      /\ ~Terminal(collections[i].status)
      /\ todo' = [todo EXCEPT ![w] = {i}]
      /\ copy' = [copy EXCEPT ![w][i] = collections[i]]
      /\ UNCHANGED <<store, outcome, rail, told, now, faults>>
  BY DEF Collect, Idle
<1>3. collections[i] # Absent /\ collections[i] \in Collection
  BY <1>2, OpenRecordIsSound
<1>4. Reads(w)
  BY <1>1, <1>2, <1>3 DEF Reads, TypeOK
<1>5. QED
  BY <1>1, <1>2, <1>4, ReadStep DEF store, rail, TypeOK

\* A webhook taken, or dropped for a missing or final record
\* (applyProcessorEvent).
LEMMA ReceiveStep ==
    ASSUME IInv, NEW w \in Workers, NEW e \in inbox, Receive(w, e)
    PROVE  IInv'
<1> DEFINE i == e.inv
           c == collections[i]
<1>1. TypeOK /\ WorkersAreSound /\ e \in Outcome /\ TrueAnswer(e) /\ i \in Invoices
  BY IInvParts DEF InboxIsTrue, TypeOK, Outcome
<1>2. /\ inbox' \subseteq inbox
      /\ faults' \in Nat
      /\ UNCHANGED <<store, paid, declines, pending, unread, told, now>>
  BY <1>1 DEF Receive, Deliver, Fault, TypeOK
<1>3. CASE c.status = "none" \/ Terminal(c.status)
  <2>1. UNCHANGED worker
    BY <1>3 DEF Receive
  <2>2. Forward /\ RailIsTrue /\ Shrinks
    BY <1>1, <1>2, <2>1, StutterShrinks
       DEF Forward, RailIsTrue, store, TypeOK, SaidPaid, SaidUnpaid
  <2>3. QED
    BY <1>1, <1>2, <2>2, QuietStep DEF store, TypeOK
<1>4. CASE ~(c.status = "none" \/ Terminal(c.status))
  <2>1. /\ todo[w] = {}
        /\ copy' = [copy EXCEPT ![w][i] = c]
        /\ outcome' = [outcome EXCEPT ![w] = {e}]
        /\ UNCHANGED todo
    BY <1>4 DEF Receive, Idle
  <2>2. c # Absent /\ c \in Collection
    BY <1>1, <1>4, OpenRecordIsSound
  <2>3. Reads(w)
    BY <1>1, <1>4, <2>1, <2>2 DEF Reads, TypeOK
  <2>4. QED
    BY <1>1, <1>2, <2>3, ReadStep DEF store, TypeOK
<1>5. QED  BY <1>3, <1>4

\* A charge that is answered (the ChargeInvoice of attemptCollection).
LEMMA ChargeStep ==
    ASSUME IInv, NEW w \in Workers, Charge(w)
    PROVE  IInv'
<1>1. TypeOK
  BY DEF IInv
<1>2. PICK i \in Invoices : \/ ChargeSucceeds(w, i)
                            \/ \E r \in Reasons : ChargeDeclined(w, i, r)
                            \/ ChargePending(w, i)
                            \/ ChargePaidAgain(w, i)
  BY DEF Charge
<1>3. CASE ChargeSucceeds(w, i)
  <2>1. /\ i \in todo[w]
        /\ RailPays(i)
        /\ outcome' = [outcome EXCEPT ![w] = {Paid(i)}]
        /\ UNCHANGED <<store, todo, copy, told, now, faults>>
    BY <1>3 DEF ChargeSucceeds, Charging
  <2>2. Forward /\ RailIsTrue /\ Paid(i) \in Outcome /\ TrueAnswer(Paid(i))'
    BY <1>1, <2>1, RailPaysIsTrue DEF store
  <2>3. Paid(i).inv = i
    BY DEF Paid
  <2>4. QED
    BY <1>1, <2>1, <2>2, <2>3, AnswerStep DEF store, TypeOK
<1>4. CASE \E r \in Reasons : ChargeDeclined(w, i, r)
  <2>1. PICK r \in Reasons : ChargeDeclined(w, i, r)
    BY <1>4
  <2>2. /\ i \in todo[w]
        /\ RailDeclines(i, r)
        /\ outcome' = [outcome EXCEPT ![w] = {Failed(i, r)}]
        /\ UNCHANGED <<store, todo, copy, told, now, faults>>
    BY <2>1 DEF ChargeDeclined, Charging
  <2>3. Forward /\ RailIsTrue /\ Failed(i, r) \in Outcome /\ TrueAnswer(Failed(i, r))'
    BY <1>1, <2>2, RailDeclinesIsTrue DEF store
  <2>4. Failed(i, r).inv = i
    BY DEF Failed
  <2>5. QED
    BY <1>1, <2>2, <2>3, <2>4, AnswerStep DEF store, TypeOK
<1>5. CASE ChargePaidAgain(w, i)
  <2>1. i \in todo[w] /\ SaidPaid(i) /\ UNCHANGED <<store, rail, told, now, faults>>
    BY <1>5 DEF ChargePaidAgain, Charging, SaidPaid
  <2>2. Forward /\ RailIsTrue
    BY <1>1, <2>1, RailStutters DEF store
  <2>3. CASE PayAgainSucceeds
    <3>1. outcome' = [outcome EXCEPT ![w] = {Paid(i)}] /\ UNCHANGED <<todo, copy>>
      BY <1>5, <2>3 DEF ChargePaidAgain
    <3>2. Paid(i) \in Outcome /\ Paid(i).inv = i /\ TrueAnswer(Paid(i))'
      BY <2>1, DunningAssumption DEF Paid, Outcome, TrueAnswer, SaidPaid, rail
    <3>3. QED
      BY <1>1, <2>1, <2>2, <3>1, <3>2, AnswerStep DEF store, TypeOK
  <2>4. CASE ~PayAgainSucceeds
    <3>1. Finish(w, i)
      BY <1>5, <2>4 DEF ChargePaidAgain
    <3>2. Shrinks
      BY <1>1, <3>1, FinishShrinks
    <3>3. QED
      BY <1>1, <2>1, <2>2, <3>2, QuietStep DEF store, TypeOK
  <2>5. QED  BY <2>3, <2>4
<1>6. CASE ChargePending(w, i)
  <2>1. /\ i \in todo[w]
        /\ pending' = [pending EXCEPT ![i] = @ + 1]
        /\ outcome' = [outcome EXCEPT ![w] = {Failed(i, NoReason)}]
        /\ UNCHANGED <<store, todo, copy, paid, declines, unread, inbox, told, now, faults>>
    BY <1>6 DEF ChargePending, Charging
  <2>2. Forward /\ RailIsTrue
    BY <1>1, <2>1 DEF TypeOK, Forward, RailIsTrue, SaidPaid, SaidUnpaid, store
  <2>3. Failed(i, NoReason) \in Outcome /\ Failed(i, NoReason).inv = i
        /\ TrueAnswer(Failed(i, NoReason))'
    BY <1>1, <2>1, DunningAssumption DEF TypeOK, Failed, Outcome, TrueAnswer, SaidUnpaid
  <2>4. QED
    BY <1>1, <2>1, <2>2, <2>3, AnswerStep DEF store, TypeOK
<1>7. QED  BY <1>2, <1>3, <1>4, <1>5, <1>6

\* A 2xx whose body is lost (the dropped errors of ChargeInvoice).
LEMMA UnreadStep ==
    ASSUME IInv, NEW w \in Workers, NEW i \in Invoices, ChargeUnread(w, i)
    PROVE  IInv'
<1>1. TypeOK
  BY DEF IInv
<1>2. /\ i \in todo[w]
      /\ faults' = faults + 1
      /\ unread' = unread \cup {i}
      /\ outcome' = [outcome EXCEPT ![w] = {Paid(i)}]
      /\ UNCHANGED <<store, todo, copy, paid, declines, pending, inbox, told, now>>
  BY DEF ChargeUnread, Charging, Fault
<1>3. Forward /\ RailIsTrue
  BY <1>1, <1>2 DEF TypeOK, Forward, RailIsTrue, SaidPaid, SaidUnpaid, store
<1>4. Paid(i) \in Outcome /\ Paid(i).inv = i /\ TrueAnswer(Paid(i))'
  BY <1>2, DunningAssumption DEF Paid, Outcome, TrueAnswer, SaidPaid
<1>5. /\ Paid(i).inv \in todo[w] /\ faults' \in Nat
      /\ UNCHANGED <<collections, todo, copy, told, now>>
  BY <1>1, <1>2, <1>4 DEF store, TypeOK
<1>6. PICK e \in Outcome : /\ e.inv \in todo[w] /\ TrueAnswer(e)'
                          /\ outcome' = [outcome EXCEPT ![w] = {e}]
  BY <1>2, <1>4, <1>5
<1>7. QED
  BY <1>3, <1>5, <1>6, AnswerStep

\* The write-back of a copy, stale or not: what was folded in was true, and
\* the copy was of an open record on the cadence, so the new record is sound.
LEMMA RecordStep ==
    ASSUME IInv, NEW w \in Workers, Record(w)
    PROVE  IInv'
<1>1. TypeOK /\ RecordsAreSound /\ WorkersAreSound /\ InboxIsTrue /\ NoticesAreTrue
  BY IInvParts
<1>2. PICK e \in outcome[w] :
         /\ collections' = [collections EXCEPT ![e.inv] = Fold(copy[w][e.inv], e)]
         /\ told' = IF w \notin Agents
                    THEN [told EXCEPT ![e.inv] =
                            @ \cup Notice(copy[w][e.inv].status,
                                          Fold(copy[w][e.inv], e))]
                    ELSE told
         /\ Finish(w, e.inv)
         /\ UNCHANGED <<opening, rail, now, faults>>
  BY DEF Record, Tells
<1> DEFINE i == e.inv
           old == copy[w][i]
           new == Fold(old, e)
<1>3. e \in Outcome /\ i \in Invoices /\ TrueAnswer(e)
  BY <1>1 DEF TypeOK, Outcome, WorkersAreSound
<1>4. /\ old \in Collection /\ Live(old) /\ OnCadence(old) /\ i \notin opening
      /\ Tried(old) => SaidUnpaid(i)
  BY <1>1, <1>3 DEF TypeOK, WorkersAreSound, HeldIsCopied, CopiesAreSound
<1>5. /\ new \in Collection /\ OnCadence(new) /\ Exhausted(new)
      /\ new.status # "none"
      /\ new.status = "paid" => SaidPaid(i)
      /\ new.status # "paid" => SaidUnpaid(i)
  BY <1>1, <1>3, <1>4, FoldSound DEF TrueAnswer
<1>6. LET told1 == Notice(old.status, new)
      IN  /\ told1 \subseteq Notices
          /\ told1 \cap {"invoice.paid", "invoice.recovered"} # {} => SaidPaid(i)
          /\ told1 \ {"invoice.paid"} # {} => SaidUnpaid(i)
  BY <1>1, <1>3, <1>4, NoticeSound
<1> HIDE DEF i, old, new
<1>7. Forward /\ RailIsTrue /\ Shrinks
  BY <1>1, <1>2, <1>3, RailStutters, FinishShrinks DEF i
<1>8. TypeOK'
  <2>1. told' \in [Invoices -> SUBSET Notices]
    BY <1>1, <1>2, <1>6 DEF TypeOK, i, old, new
  <2>2. collections' \in [Invoices -> Collection]
    BY <1>1, <1>2, <1>5 DEF TypeOK, i, old, new
  <2>3. QED
    BY <1>1, <1>2, <1>7, <2>1, <2>2 DEF TypeOK, Forward, RailIsTrue, Shrinks
<1>9. RecordsAreSound'
  <2> SUFFICES ASSUME NEW j \in Invoices
               PROVE  /\ OnCadence(collections'[j])
                      /\ Exhausted(collections'[j])
                      /\ collections'[j].status = "paid" => SaidPaid(j)
                      /\ j \in opening => collections'[j] = Absent
                      /\ collections'[j].status = "none" => collections'[j] = Absent
                      /\ Tried(collections'[j]) /\ collections'[j].status # "paid"
                            => SaidUnpaid(j)
    BY <1>2 DEF RecordsAreSound, OnCadence, Exhausted, Tried, Classify, rail,
                SaidPaid, SaidUnpaid
  <2>1. CASE j = i
    <3>1. collections'[j] = new
      BY <1>1, <1>2, <1>3, <2>1 DEF TypeOK, i, old, new
    <3>2. QED  BY <1>4, <1>5, <2>1, <3>1
  <2>2. CASE j # i
    <3>1. collections'[j] = collections[j]
      BY <1>1, <1>2, <2>2 DEF TypeOK, i
    <3>2. QED  BY <1>1, <3>1 DEF RecordsAreSound
  <2>3. QED  BY <2>1, <2>2
<1>10. NoticesAreTrue'
  <2> SUFFICES ASSUME NEW j \in Invoices
               PROVE  /\ told'[j] \cap {"invoice.paid", "invoice.recovered"} # {}
                           => SaidPaid(j)
                      /\ told'[j] \ {"invoice.paid"} # {} => SaidUnpaid(j)
    BY <1>2 DEF NoticesAreTrue, SaidPaid, SaidUnpaid, rail
  <2>1. CASE j = i /\ w \notin Agents
    <3>1. told'[j] = told[j] \cup Notice(old.status, new)
      BY <1>1, <1>2, <1>3, <2>1 DEF TypeOK, i, old, new
    <3>2. QED
      BY <1>1, <1>6, <2>1, <3>1 DEF NoticesAreTrue
  <2>2. CASE ~(j = i /\ w \notin Agents)
    <3>1. told'[j] = told[j]
      BY <1>1, <1>2, <2>2 DEF TypeOK, i
    <3>2. QED  BY <1>1, <3>1 DEF NoticesAreTrue
  <2>3. QED  BY <2>1, <2>2
<1>11. WorkersAreSound' /\ InboxIsTrue'
  BY <1>1, <1>7, WorkersKept, InboxKept DEF RailIsTrue
<1>12. QED
  BY <1>8, <1>9, <1>10, <1>11
     DEF IInv, WorkersAreSound, InboxIsTrue, AnswersAreTrue

-----------------------------------------------------------------------------
(* The steps that write no record: faults, the rail on its own, the clock  *)
(* and the restart.                                                        *)

\* Errors that lose an answer or a write, and the restart, only take away.
LEMMA FaultStep ==
    ASSUME IInv,
           \/ \E i \in Invoices : OpenFails(i)
           \/ \E w \in Workers : RecordFails(w)
           \/ \E w \in Workers, i \in Invoices : ChargeFaults(w, i)
           \/ Crash
    PROVE  IInv'
<1>1. TypeOK
  BY DEF IInv
<1>2. faults' \in Nat /\ UNCHANGED <<collections, told, now>>
  BY <1>1 DEF OpenFails, RecordFails, ChargeFaults, Crash, Fault, store, TypeOK
<1>3. CASE \E i \in Invoices : OpenFails(i)
  <2>1. opening' \subseteq opening /\ UNCHANGED <<worker, rail>>
    BY <1>3 DEF OpenFails
  <2>2. QED
    BY <1>1, <1>2, <2>1, RailStutters, StutterShrinks, QuietStep DEF TypeOK
<1>4. CASE \E w \in Workers : RecordFails(w)
  <2>1. PICK w \in Workers, e \in Outcome : Finish(w, e.inv) /\ UNCHANGED <<store, rail>>
    BY <1>1, <1>4 DEF RecordFails, TypeOK
  <2>2. Shrinks
    BY <1>1, <2>1, FinishShrinks DEF Outcome
  <2>3. QED
    BY <1>1, <1>2, <2>1, <2>2, RailStutters, QuietStep DEF store, TypeOK
<1>5. CASE \E w \in Workers, i \in Invoices : ChargeFaults(w, i)
  <2>1. PICK w \in Workers, i \in Invoices : ChargeFaults(w, i)
    BY <1>5
  <2>2. Finish(w, i) /\ UNCHANGED store
    BY <2>1 DEF ChargeFaults
  <2>3. Forward /\ RailIsTrue
    <3>1. \/ UNCHANGED rail \/ RailPays(i) \/ \E r \in Reasons : RailDeclines(i, r)
      BY <2>1 DEF ChargeFaults
    <3>2. QED
      BY <1>1, <2>2, <3>1, RailStutters, RailPaysIsTrue, RailDeclinesIsTrue DEF store
  <2>4. QED
    BY <1>1, <1>2, <2>2, <2>3, FinishShrinks, QuietStep DEF TypeOK
<1>6. CASE Crash
  <2>1. /\ opening' = {}
        /\ todo' = [w \in Workers |-> {}]
        /\ copy' = [w \in Workers |-> NoCopy]
        /\ outcome' = [w \in Workers |-> {}]
        /\ UNCHANGED rail
    BY <1>6 DEF Crash
  <2>2. Shrinks
    BY <1>1, <2>1, AbsentIsCollection DEF Shrinks, NoCopy
  <2>3. QED
    BY <1>1, <1>2, <2>1, <2>2, RailStutters, QuietStep DEF TypeOK
<1>7. QED  BY <1>3, <1>4, <1>5, <1>6

\* What the rail does on its own.
LEMMA RailStep ==
    ASSUME IInv, NEW i \in Invoices,
           \/ RailCollects(i)
           \/ RailChallenges(i)
           \/ \E r \in Reasons : RailFails(i, r)
    PROVE  IInv'
<1>1. TypeOK
  BY DEF IInv
<1>2. UNCHANGED <<store, worker, told, now, faults>>
  BY DEF RailCollects, RailChallenges, RailFails
<1>3. Forward /\ RailIsTrue
  <2>1. CASE RailCollects(i)
    BY <1>1, <1>2, <2>1, RailPaysIsTrue DEF RailCollects, store
  <2>2. CASE RailChallenges(i)
    BY <1>1, <1>2, <2>2, DunningAssumption
       DEF RailChallenges, TypeOK, Forward, RailIsTrue, TrueAnswer, Challenge,
           Outcome, SaidPaid, SaidUnpaid, store
  <2>3. CASE \E r \in Reasons : RailFails(i, r)
    BY <1>1, <1>2, <2>3, RailDeclinesIsTrue DEF RailFails, store
  <2>4. QED  BY <2>1, <2>2, <2>3
<1>4. QED
  BY <1>1, <1>2, <1>3, StutterShrinks, QuietStep DEF store, TypeOK

\* The clock, and a step that changes nothing.
LEMMA TickStep ==
    ASSUME IInv, Tick \/ UNCHANGED vars
    PROVE  IInv'
<1>1. TypeOK
  BY DEF IInv
<1>2. UNCHANGED <<store, worker, rail, told, faults>> /\ now' \in Nat \ {0}
  BY <1>1 DEF Tick, vars, TypeOK
<1>3. QED
  BY <1>1, <1>2, RailStutters, StutterShrinks, QuietStep DEF store, TypeOK

-----------------------------------------------------------------------------
\* The invariant holds at the start.
LEMMA InitIInv ==
    ASSUME Init
    PROVE  IInv
<1> USE DunningAssumption DEF Init, NoTime
<1>1. TypeOK
  BY AbsentIsCollection DEF TypeOK, NoCopy
<1>2. RecordsAreSound
  BY DEF RecordsAreSound, OnCadence, Exhausted, Tried, Absent, New
<1>3. CopiesAreSound /\ HeldIsCopied /\ AnswersAreTrue /\ NoticesAreTrue
  BY DEF CopiesAreSound, HeldIsCopied, AnswersAreTrue, NoticesAreTrue, NoCopy
<1>4. QED  BY <1>1, <1>2, <1>3 DEF IInv

\* Every action keeps the invariant.
LEMMA NextIInv ==
    ASSUME IInv, [Next]_vars
    PROVE  IInv'
<1>1. ASSUME NEW i \in Invoices,
             \/ OpenCollection(i) \/ OpenFails(i)
             \/ RailCollects(i) \/ RailChallenges(i)
             \/ \E r \in Reasons : RailFails(i, r)
      PROVE  IInv'
  BY <1>1, OpenStep, FaultStep, RailStep
<1>2. ASSUME NEW w \in Workers,
             Sweep(w) \/ Charge(w) \/ Record(w) \/ RecordFails(w)
      PROVE  IInv'
  BY <1>2, SweepStep, ChargeStep, RecordStep, FaultStep
<1>3. ASSUME NEW w \in Workers, NEW i \in Invoices,
             Collect(w, i) \/ ChargeUnread(w, i) \/ ChargeFaults(w, i)
      PROVE  IInv'
  BY <1>3, CollectStep, UnreadStep, FaultStep
<1>4. ASSUME NEW w \in Workers, NEW e \in inbox, Receive(w, e)
      PROVE  IInv'
  BY <1>4, ReceiveStep
<1>5. CASE Tick \/ Crash \/ UNCHANGED vars
  BY <1>5, TickStep, FaultStep
<1>6. QED
  BY <1>1, <1>2, <1>3, <1>4, <1>5 DEF Next

\* The inductive invariant: records, copies, answers and webhooks in flight
\* are sound together, so that a write-back is harmless however stale it is.
THEOREM IInvInvariant == Spec => []IInv
BY InitIInv, NextIInv, PTL DEF Spec

-----------------------------------------------------------------------------
(* The properties of Collections, for every instance.                      *)

\* Every variable keeps its type.
THEOREM TypeCorrect == Spec => []TypeOK
<1>1. IInv => TypeOK
  BY DEF IInv
<1>2. QED  BY <1>1, IInvInvariant, PTL

\* Whatever handlers overlap and whatever is lost, repeated or reordered, a
\* waiting record waits for exactly the published offset of its first failure.
THEOREM CadenceHolds == Spec => []RetryCadence
<1>1. IInv => RetryCadence
  BY DEF IInv, RecordsAreSound, RetryCadence
<1>2. QED  BY <1>1, IInvInvariant, PTL

\* No stale write-back and no duplicate delivery writes an invoice off before
\* more outcomes than retries were counted, or on anything but a soft decline.
THEOREM WriteOffJustified == Spec => []WriteOffExhausts
<1>1. IInv => WriteOffExhausts
  BY DEF IInv, RecordsAreSound, WriteOffExhausts
<1>2. QED  BY <1>1, IInvInvariant, PTL

\* A record says "paid" only of an invoice the rail has collected, or answered
\* 2xx for without a usable body.
THEOREM PaidIsPaid == Spec => []PaidMeansPaid
<1>1. IInv => PaidMeansPaid
  BY DEF IInv, RecordsAreSound, PaidMeansPaid
<1>2. QED  BY <1>1, IInvInvariant, PTL

\* The write that opens a record is the first one on it.
THEOREM OpeningIsFirst == Spec => []OpensFirst
<1>1. IInv => OpensFirst
  BY DEF IInv, RecordsAreSound, OpensFirst, TypeOK
<1>2. QED  BY <1>1, IInvInvariant, PTL

\* Subscribers are told of no payment the rail did not report, and of no
\* failure, recovery or write-off without a decline or an open invoice.
THEOREM NoticesHold == Spec => []NoticesAreTrue
<1>1. IInv => NoticesAreTrue
  BY DEF IInv
<1>2. QED  BY <1>1, IInvInvariant, PTL

\* The only way a final record changes is the write-back of a copy that was
\* read before the verdict.
THEOREM OnlyStaleWritersUndo == Spec => OnlyStaleWriters
<1>1. ASSUME IInv, [Next]_vars, NEW i \in Invoices,
             Terminal(collections[i].status), collections'[i] # collections[i]
      PROVE  \E w \in Workers : /\ \E e \in outcome[w] : e.inv = i
                                /\ ~Terminal(copy[w][i].status)
  <2>1. TypeOK /\ RecordsAreSound /\ WorkersAreSound
    BY <1>1, IInvParts
  <2>2. \/ \E j \in Invoices : OpenCollection(j)
        \/ \E w \in Workers : Record(w)
    <3>1. collections' # collections
      BY <1>1
    <3>2. QED
      BY <1>1, <3>1
         DEF Next, OpenFails, RailCollects, RailChallenges, RailFails, Sweep, Charge,
             ChargeSucceeds, ChargeDeclined, ChargePending, ChargePaidAgain, RecordFails,
             Collect, ChargeUnread, ChargeFaults, Receive, Tick, Crash, vars, store
  <2>3. CASE \E j \in Invoices : OpenCollection(j)
    <3>1. PICK j \in Invoices : OpenCollection(j)
      BY <2>3
    <3>2. j \in opening /\ collections' = [collections EXCEPT ![j] = New]
      BY <3>1 DEF OpenCollection
    <3>3. j = i
      BY <1>1, <2>1, <3>2 DEF TypeOK
    <3>4. collections[i] = Absent
      BY <2>1, <3>2, <3>3 DEF RecordsAreSound
    <3>5. QED  BY <1>1, <3>4 DEF Terminal, Absent, New
  <2>4. CASE \E w \in Workers : Record(w)
    <3>1. PICK w \in Workers : Record(w)
      BY <2>4
    <3>2. PICK e \in outcome[w] :
             collections' = [collections EXCEPT ![e.inv] = Fold(copy[w][e.inv], e)]
      BY <3>1 DEF Record
    <3>3. e.inv = i
      BY <1>1, <2>1, <3>2 DEF TypeOK
    <3>4. Live(copy[w][i])
      BY <2>1, <3>2, <3>3 DEF WorkersAreSound, HeldIsCopied, CopiesAreSound
    <3>5. QED  BY <3>2, <3>3, <3>4 DEF Live, Terminal
  <2>5. QED  BY <2>2, <2>3, <2>4
<1>2. IInv /\ [Next]_vars => StaleWrite
  BY <1>1 DEF StaleWrite
<1>3. QED
  BY <1>2, IInvInvariant, PTL DEF Spec, OnlyStaleWriters

-----------------------------------------------------------------------------
(* One handler at a time, with every fault, crash, lost or repeated         *)
(* webhook there is: what a handler writes back is then a function of the   *)
(* record as stored, a verdict is final, and Collections implements         *)
(* Recovery.                                                                *)

\* No two handlers overlap: where they do, the run collections_final shows a
\* verdict undone.
OneWorker == \A v, w \in Workers : v = w

\* Handler w works on record i, or is going to.
Holds(w, i) == i \in todo[w] \/ \E e \in outcome[w] : e.inv = i

\* Who has been told a verdict can rely on it: the record is final.
VerdictsAreFinal ==
    \A i \in Invoices :
       told[i] \cap Verdicts # {} => Terminal(collections[i].status)

SerialInv ==
    /\ IInv
    /\ FreshCopies
    /\ VerdictsAreFinal
    /\ OneVerdict

-----------------------------------------------------------------------------
(* The two ways a record is written.                                       *)

\* What a write does to record i: it is opened, or one outcome is folded in
\* by a handler that holds it, and announced or not.
Opened(i) ==
    /\ i \in opening /\ collections[i] = Absent
    /\ collections' = [collections EXCEPT ![i] = New]
    /\ UNCHANGED <<todo, copy, outcome, told>>

Folded(w, e) ==
    LET i == e.inv
        c == Fold(copy[w][i], e)
    IN  /\ e \in outcome[w]
        /\ collections' = [collections EXCEPT ![i] = c]
        /\ told' \in {told, [told EXCEPT ![i] = @ \cup Notice(copy[w][i].status, c)]}
        /\ Finish(w, i)
        /\ now' = now

\* Every step opens a record, folds an answer in, or leaves the records and
\* what was announced of them alone.
LEMMA Writes ==
    ASSUME IInv, [Next]_vars
    PROVE  \/ \E i \in Invoices : Opened(i)
           \/ \E w \in Workers, e \in Outcome : Folded(w, e)
           \/ UNCHANGED <<collections, told>>
<1>1. TypeOK /\ RecordsAreSound
  BY DEF IInv
<1>2. ASSUME NEW i \in Invoices, OpenCollection(i)
      PROVE  Opened(i)
  BY <1>1, <1>2 DEF OpenCollection, Opened, RecordsAreSound, worker
<1>3. ASSUME NEW w \in Workers, Record(w)
      PROVE  \E e \in Outcome : Folded(w, e)
  BY <1>1, <1>3 DEF Record, Folded, TypeOK
<1>4. CASE /\ ~\E i \in Invoices : OpenCollection(i)
           /\ ~\E w \in Workers : Record(w)
  BY <1>4
     DEF Next, OpenFails, RailCollects, RailChallenges, RailFails, Sweep, Charge,
         ChargeSucceeds, ChargeDeclined, ChargePending, ChargePaidAgain, RecordFails,
         Collect, ChargeUnread, ChargeFaults, Receive, Tick, Crash, vars, store
<1>5. QED  BY <1>2, <1>3, <1>4

\* Who holds a record after a step held it before, with the same copy, or has
\* just read it from the store.
LEMMA HoldersRead ==
    ASSUME IInv, [Next]_vars, NEW w \in Workers, NEW i \in Invoices, Holds(w, i)'
    PROVE  \/ Holds(w, i) /\ copy'[w][i] = copy[w][i]
           \/ copy'[w][i] = collections[i] /\ UNCHANGED collections
<1>1. TypeOK
  BY DEF IInv
<1>2. ASSUME Shrinks
      PROVE  Holds(w, i) /\ copy'[w][i] = copy[w][i]
  <2>1. Holds(w, i)
    BY <1>1, <1>2 DEF Holds, Shrinks, TypeOK
  <2>2. copy'[w][i] = copy[w][i]
    BY <1>2 DEF Holds, Shrinks
  <2>3. QED  BY <2>1, <2>2
<1>3. ASSUME NEW v \in Workers, NEW j \in todo[v], NEW e \in {Paid(j)} \cup {Failed(j, r) : r \in Reasons},
             outcome' = [outcome EXCEPT ![v] = {e}], UNCHANGED <<todo, copy>>
      PROVE  Holds(w, i) /\ copy'[w][i] = copy[w][i]
  <2>1. e.inv = j
    BY <1>3 DEF Paid, Failed
  <2>2. QED  BY <1>1, <1>3, <2>1 DEF Holds, TypeOK
<1>4. ASSUME NEW v \in Workers, Charge(v)
      PROVE  Holds(w, i) /\ copy'[w][i] = copy[w][i]
  <2>1. PICK j \in Invoices : \/ ChargeSucceeds(v, j)
                              \/ \E r \in Reasons : ChargeDeclined(v, j, r)
                              \/ ChargePending(v, j)
                              \/ ChargePaidAgain(v, j)
    BY <1>4 DEF Charge
  <2>2. j \in todo[v] /\ UNCHANGED store
    BY <2>1 DEF ChargeSucceeds, ChargeDeclined, ChargePending, ChargePaidAgain, Charging
  <2>3. CASE Finish(v, j)
    <3>1. Shrinks
      BY <1>1, <2>3, FinishShrinks
    <3>2. QED  BY <1>2, <3>1
  <2>4. CASE ~Finish(v, j)
    <3>1. PICK e \in {Paid(j)} \cup {Failed(j, r) : r \in Reasons} :
             outcome' = [outcome EXCEPT ![v] = {e}]
      BY <2>1, <2>4, DunningAssumption
         DEF ChargeSucceeds, ChargeDeclined, ChargePending, ChargePaidAgain
    <3>2. UNCHANGED <<todo, copy>>
      BY <2>1, <2>4 DEF ChargeSucceeds, ChargeDeclined, ChargePending, ChargePaidAgain
    <3>3. QED  BY <1>3, <2>2, <3>1, <3>2
  <2>5. QED  BY <2>3, <2>4
<1>5. ASSUME NEW v \in Workers, Sweep(v)
      PROVE  \/ Holds(w, i) /\ copy'[w][i] = copy[w][i]
             \/ copy'[w][i] = collections[i] /\ UNCHANGED collections
  BY <1>1, <1>5 DEF Sweep, Holds, TypeOK, store, Idle
<1>6. ASSUME NEW v \in Workers, NEW j \in Invoices, Collect(v, j)
      PROVE  \/ Holds(w, i) /\ copy'[w][i] = copy[w][i]
             \/ copy'[w][i] = collections[i] /\ UNCHANGED collections
  BY <1>1, <1>6 DEF Collect, Holds, TypeOK, store, Idle
<1>7. ASSUME NEW v \in Workers, NEW e \in inbox, Receive(v, e)
      PROVE  \/ Holds(w, i) /\ copy'[w][i] = copy[w][i]
             \/ copy'[w][i] = collections[i] /\ UNCHANGED collections
  <2>1. CASE UNCHANGED worker
    <3>1. Shrinks
      BY <1>1, <2>1, StutterShrinks
    <3>2. QED  BY <1>2, <3>1
  <2>2. CASE ~UNCHANGED worker
    <3>1. /\ copy' = [copy EXCEPT ![v][e.inv] = collections[e.inv]]
          /\ outcome' = [outcome EXCEPT ![v] = {e}]
          /\ UNCHANGED todo /\ Idle(v) /\ UNCHANGED store
      BY <1>7, <2>2 DEF Receive
    <3>2. QED  BY <1>1, <1>7, <3>1 DEF Holds, TypeOK, store, Idle, Outcome
  <2>3. QED  BY <2>1, <2>2
<1>8. ASSUME \E v \in Workers : Record(v) \/ RecordFails(v) \/ \E j \in Invoices : ChargeFaults(v, j)
      PROVE  Shrinks
  <2>1. PICK v \in Workers, j \in Invoices : Finish(v, j)
    BY <1>1, <1>8 DEF Record, RecordFails, ChargeFaults, TypeOK, Outcome
  <2>2. QED  BY <1>1, <2>1, FinishShrinks
<1>9. ASSUME Crash
      PROVE  Shrinks
  BY <1>1, <1>9, AbsentIsCollection DEF Shrinks, NoCopy, Crash
<1>10. ASSUME \/ Tick \/ UNCHANGED vars
              \/ \E j \in Invoices : \/ OpenCollection(j) \/ OpenFails(j)
                                     \/ RailCollects(j) \/ RailChallenges(j)
                                     \/ \E r \in Reasons : RailFails(j, r)
       PROVE  Shrinks
  <2>1. UNCHANGED worker
    BY <1>10 DEF Tick, vars, OpenCollection, OpenFails, RailCollects, RailChallenges,
                 RailFails
  <2>2. QED  BY <1>1, <2>1, StutterShrinks
<1>11. ASSUME NEW v \in Workers, NEW j \in Invoices, ChargeUnread(v, j)
       PROVE  Holds(w, i) /\ copy'[w][i] = copy[w][i]
  BY <1>3, <1>11 DEF ChargeUnread, Charging
<1>12. QED
  BY <1>2, <1>4, <1>5, <1>6, <1>7, <1>8, <1>9, <1>10, <1>11 DEF Next

-----------------------------------------------------------------------------
(* What one outcome does to one record, seen from the record's past.       *)

\* A fold counts upwards, keeps the first failure, and is a step of Recovery.
LEMMA FoldForward ==
    ASSUME TypeOK, NEW c \in Collection, NEW e \in Outcome
    PROVE  LET f == Fold(c, e)
           IN  /\ f.attempts >= c.attempts
               /\ c.first # NoTime => f.first = c.first
               /\ \/ f.attempts = c.attempts /\ f.status = "requires_action"
                  \/ /\ f.attempts = c.attempts + 1
                     /\ f.status \in {"paid", "requires_action",
                            IF f.attempts > Retries THEN "uncollectible" ELSE "retrying"}
<1>1. CASE e.kind = "action_required"
  <2>1. Fold(c, e) = Pause(c)
    BY <1>1 DEF Fold
  <2>2. QED  BY <2>1 DEF Pause, Collection
<1>2. CASE e.kind # "action_required"
  <2>1. Fold(c, e) \in {Success(c), StopFailure(c, e.reason, now), SoftFailure(c, e.reason, now)}
    BY <1>2 DEF Fold, RecordAttempt
  <2>2. QED
    BY <2>1 DEF Success, StopFailure, SoftFailure, FirstFailure, Collection
<1>3. QED  BY <1>1, <1>2

\* One fold announces one verdict at most, and only with a final record.
LEMMA OneNotice ==
    ASSUME NEW prev, NEW c
    PROVE  /\ \A a, b \in Notice(prev, c) \cap Verdicts : a = b
           /\ Notice(prev, c) \cap Verdicts # {} => Terminal(c.status)
BY DEF Notice, Verdicts, Terminal

-----------------------------------------------------------------------------
(* The invariant of one worker.                                            *)

\* A copy stays the record as stored: with one worker whoever writes a record
\* holds no other copy of it.
LEMMA CopiesStayFresh ==
    ASSUME OneWorker, IInv, FreshCopies, [Next]_vars
    PROVE  FreshCopies'
<1>1. TypeOK /\ WorkersAreSound
  BY IInvParts
<1> SUFFICES ASSUME NEW w \in Workers, NEW i \in Invoices, Holds(w, i)'
             PROVE  copy'[w][i] = collections'[i]
  BY DEF FreshCopies, Holds
<1>2. CASE copy'[w][i] = collections[i] /\ UNCHANGED collections
  BY <1>2
<1>3. CASE Holds(w, i) /\ copy'[w][i] = copy[w][i]
  <2>1. copy[w][i] = collections[i] /\ copy[w][i] # Absent
    BY <1>1, <1>3 DEF FreshCopies, Holds, WorkersAreSound, HeldIsCopied
  <2>2. collections'[i] = collections[i]
    <3>1. CASE \E j \in Invoices : Opened(j)
      BY <1>1, <2>1, <3>1 DEF Opened, TypeOK
    <3>2. ASSUME NEW v \in Workers, NEW e \in Outcome, Folded(v, e)
          PROVE  collections'[i] = collections[i]
      <4>1. v = w /\ Finish(w, e.inv)
        BY <3>2 DEF OneWorker, Folded
      <4>2. e.inv # i
        BY <1>1, <4>1, <1>3 DEF Finish, Holds, TypeOK
      <4>3. QED  BY <1>1, <3>2, <4>2 DEF Folded, TypeOK
    <3>3. QED  BY <3>1, <3>2, Writes
  <2>3. QED  BY <1>3, <2>1, <2>2
<1>4. QED  BY <1>2, <1>3, HoldersRead

\* The record a handler folds into is the stored one, and it is open.
LEMMA FoldsTheStored ==
    ASSUME IInv, FreshCopies, NEW w \in Workers, NEW e \in Outcome, Folded(w, e)
    PROVE  /\ copy[w][e.inv] = collections[e.inv]
           /\ e.inv \in Invoices
           /\ collections[e.inv] \in Collection
           /\ Live(collections[e.inv])
           /\ collections' = [collections EXCEPT ![e.inv] = Fold(collections[e.inv], e)]
<1>1. TypeOK /\ WorkersAreSound
  BY IInvParts
<1>2. e \in outcome[w] /\ e.inv \in Invoices
  BY DEF Folded, Outcome
<1>3. copy[w][e.inv] = collections[e.inv] /\ copy[w][e.inv] # Absent
  BY <1>1, <1>2 DEF FreshCopies, WorkersAreSound, HeldIsCopied
<1>4. QED
  BY <1>1, <1>2, <1>3 DEF WorkersAreSound, CopiesAreSound, Folded, TypeOK

\* Only an open record is written, so whoever was told a verdict was told one,
\* and the record it was told of stays as it is.
LEMMA VerdictsStay ==
    ASSUME OneWorker, SerialInv, [Next]_vars
    PROVE  VerdictsAreFinal' /\ OneVerdict'
<1>1. IInv /\ TypeOK /\ RecordsAreSound
  BY DEF SerialInv, IInv
<1>2. CASE UNCHANGED <<collections, told>>
  BY <1>2 DEF SerialInv, VerdictsAreFinal, OneVerdict, Verdicts, Terminal
<1>3. ASSUME NEW i \in Invoices, Opened(i)
      PROVE  VerdictsAreFinal' /\ OneVerdict'
  <2>1. ~Terminal(collections[i].status)
    BY <1>3 DEF Opened, Terminal, Absent, New
  <2>2. told[i] \cap Verdicts = {}
    BY <2>1 DEF SerialInv, VerdictsAreFinal
  <2>3. UNCHANGED told /\ \A j \in Invoices \ {i} : collections'[j] = collections[j]
    BY <1>1, <1>3 DEF Opened, TypeOK
  <2>4. QED
    BY <2>2, <2>3 DEF SerialInv, VerdictsAreFinal, OneVerdict, Verdicts, Terminal
<1>4. ASSUME NEW w \in Workers, NEW e \in Outcome, Folded(w, e)
      PROVE  VerdictsAreFinal' /\ OneVerdict'
  <2> DEFINE i == e.inv
             c == Fold(collections[i], e)
             said == Notice(collections[i].status, c)
  <2>1. /\ i \in Invoices /\ Live(collections[i])
        /\ collections' = [collections EXCEPT ![i] = c]
        /\ told' \in {told, [told EXCEPT ![i] = @ \cup said]}
    BY <1>1, <1>4, FoldsTheStored DEF SerialInv, Folded
  <2>2. told[i] \cap Verdicts = {}
    BY <2>1 DEF Live, Terminal, SerialInv, VerdictsAreFinal
  <2>3. /\ \A a, b \in said \cap Verdicts : a = b
        /\ said \cap Verdicts # {} => Terminal(c.status)
    BY OneNotice
  <2> HIDE DEF i, c, said
  <2>4. ASSUME NEW j \in Invoices
        PROVE  /\ told'[j] \cap Verdicts # {} => Terminal(collections'[j].status)
               /\ \A a, b \in told'[j] \cap Verdicts : a = b
    <3>1. CASE j = i
      <4>1. collections'[j] = c /\ told'[j] \in {told[j], told[j] \cup said}
        BY <1>1, <2>1, <3>1 DEF TypeOK
      <4>2. told'[j] \cap Verdicts \subseteq said
        BY <2>2, <3>1, <4>1
      <4>3. QED  BY <2>3, <4>1, <4>2
    <3>2. CASE j # i
      <4>1. collections'[j] = collections[j] /\ told'[j] = told[j]
        BY <1>1, <2>1, <3>2 DEF TypeOK
      <4>2. QED  BY <4>1 DEF SerialInv, VerdictsAreFinal, OneVerdict
    <3>3. QED  BY <3>1, <3>2
  <2>5. QED  BY <2>4 DEF VerdictsAreFinal, OneVerdict, Verdicts, Terminal
<1>5. QED  BY <1>1, <1>2, <1>3, <1>4, Writes

\* With one worker, the whole invariant holds of every reachable state.
THEOREM SerialInvariant ==
    ASSUME OneWorker
    PROVE  Spec => []SerialInv
<1>1. Init => SerialInv
  <2> SUFFICES ASSUME Init PROVE SerialInv
    OBVIOUS
  <2>1. IInv
    BY InitIInv
  <2>2. FreshCopies /\ VerdictsAreFinal /\ OneVerdict
    BY DEF Init, FreshCopies, VerdictsAreFinal, OneVerdict
  <2>3. QED  BY <2>1, <2>2 DEF SerialInv
<1>2. SerialInv /\ [Next]_vars => SerialInv'
  BY NextIInv, CopiesStayFresh, VerdictsStay DEF SerialInv
<1>3. QED  BY <1>1, <1>2, PTL DEF Spec

-----------------------------------------------------------------------------
(* The properties of collections_serial, for every instance with one worker.*)

\* Every copy a handler still has to act on is the record as stored.
THEOREM CopiesAreFresh ==
    ASSUME OneWorker
    PROVE  Spec => []FreshCopies
<1>1. SerialInv => FreshCopies
  BY DEF SerialInv
<1>2. QED  BY <1>1, SerialInvariant, PTL

\* A subscriber never hears two verdicts about an invoice.
THEOREM SubscribersHearOneVerdict ==
    ASSUME OneWorker
    PROVE  Spec => []OneVerdict
<1>1. SerialInv => OneVerdict
  BY DEF SerialInv
<1>2. QED  BY <1>1, SerialInvariant, PTL

\* What a step does to a record, when the copy it writes back is fresh: it
\* opens the missing one, or folds an outcome into an open one.
LEMMA RecordMoves ==
    ASSUME SerialInv, [Next]_vars
    PROVE  \/ \E i \in Invoices :
                /\ collections[i] = Absent
                /\ collections' = [collections EXCEPT ![i] = New]
           \/ \E i \in Invoices, e \in Outcome :
                /\ collections[i] \in Collection /\ Live(collections[i])
                /\ collections' = [collections EXCEPT ![i] = Fold(collections[i], e)]
           \/ UNCHANGED collections
BY Writes, FoldsTheStored DEF SerialInv, Opened

\* A verdict is final.
THEOREM VerdictsAreForGood ==
    ASSUME OneWorker
    PROVE  Spec => TerminalIsFinal
<1>1. ASSUME SerialInv, [Next]_vars, NEW i \in Invoices, Terminal(collections[i].status)
      PROVE  collections'[i] = collections[i]
  <2>1. TypeOK
    BY <1>1 DEF SerialInv, IInv
  <2>2. ~Live(collections[i]) /\ collections[i] # Absent
    BY <1>1 DEF Live, Terminal, Absent, New
  <2>3. QED  BY <1>1, <2>1, <2>2, RecordMoves DEF TypeOK
<1>2. SerialInv /\ [Next]_vars
         => \A i \in Invoices : Terminal(collections[i].status) => collections'[i] = collections[i]
  BY <1>1
<1>3. QED  BY <1>2, SerialInvariant, PTL DEF Spec, TerminalIsFinal

\* Attempts only grow, and the origin of the cadence never moves once set.
THEOREM FirstFailureIsKept ==
    ASSUME OneWorker
    PROVE  Spec => FirstFailureSticks
<1>1. ASSUME SerialInv, [Next]_vars, NEW i \in Invoices
      PROVE  /\ collections'[i].attempts >= collections[i].attempts
             /\ collections[i].first # NoTime
                   => collections'[i].first = collections[i].first
  <2>1. TypeOK /\ collections[i] \in Collection
    BY <1>1 DEF SerialInv, IInv, TypeOK
  <2>2. CASE collections'[i] = collections[i]
    BY <2>1, <2>2 DEF Collection
  <2>3. CASE collections[i] = Absent /\ collections'[i] = New
    BY <2>3 DEF Absent, New
  <2>4. CASE \E e \in Outcome : collections'[i] = Fold(collections[i], e)
    BY <2>1, <2>4, FoldForward
  <2>5. QED  BY <1>1, <2>1, <2>2, <2>3, <2>4, RecordMoves DEF TypeOK
<1>2. SerialInv /\ [Next]_vars
         => \A i \in Invoices :
               /\ collections'[i].attempts >= collections[i].attempts
               /\ collections[i].first # NoTime
                     => collections'[i].first = collections[i].first
  BY <1>1
<1>3. QED  BY <1>2, SerialInvariant, PTL DEF Spec, FirstFailureSticks

-----------------------------------------------------------------------------
(* Collections implements Recovery.                                        *)

\* What Recovery sees of the records.
StatusOf == [i \in Invoices |-> collections[i].status]
TriesOf  == [i \in Invoices |-> collections[i].attempts]

\* Every step opens a record, counts an attempt, pauses, or stutters.
LEMMA StepRefined ==
    ASSUME SerialInv, [Next]_vars
    PROVE  [R!Next]_(R!vars)
<1>1. TypeOK
  BY DEF SerialInv, IInv
<1>2. ASSUME NEW i \in Invoices, collections[i] = Absent,
             collections' = [collections EXCEPT ![i] = New]
      PROVE  R!Open(i)
  BY <1>1, <1>2 DEF R!Open, TypeOK, Absent, New
<1>3. ASSUME NEW i \in Invoices, NEW e \in Outcome,
             collections[i] \in Collection, Live(collections[i]),
             collections' = [collections EXCEPT ![i] = Fold(collections[i], e)]
      PROVE  R!Attempt(i) \/ R!Pause(i)
  <2> DEFINE f == Fold(collections[i], e)
  <2>1. /\ collections'[i] = f
        /\ \A j \in Invoices \ {i} : collections'[j] = collections[j]
    BY <1>1, <1>3 DEF TypeOK
  <2>2. \/ f.attempts = collections[i].attempts /\ f.status = "requires_action"
        \/ /\ f.attempts = collections[i].attempts + 1
           /\ f.status \in {"paid", "requires_action",
                  IF f.attempts > Retries THEN "uncollectible" ELSE "retrying"}
    BY <1>1, <1>3, FoldForward
  <2>3. collections[i].status \notin R!Final \cup {"none"}
    BY <1>3 DEF Live, R!Final
  <2> HIDE DEF f
  <2>4. /\ StatusOf' = [StatusOf EXCEPT ![i] = f.status]
        /\ TriesOf' = [TriesOf EXCEPT ![i] = f.attempts]
    BY <2>1 DEF StatusOf, TriesOf
  <2>5. CASE f.attempts = collections[i].attempts /\ f.status = "requires_action"
    <3>1. TriesOf' = TriesOf
      BY <2>4, <2>5 DEF TriesOf
    <3>2. QED
      BY <2>3, <2>4, <2>5, <3>1 DEF R!Pause, StatusOf, TriesOf
  <2>6. CASE f.attempts = collections[i].attempts + 1
    BY <2>2, <2>3, <2>4, <2>6 DEF R!Attempt, StatusOf, TriesOf
  <2>7. QED  BY <2>2, <2>5, <2>6
<1>4. CASE UNCHANGED collections
  BY <1>4 DEF R!vars
<1>5. QED  BY <1>2, <1>3, <1>4, RecordMoves DEF R!Next

\* With one worker every record lives the life Recovery promises: attempts
\* are judged against the budget as they are counted, and verdicts are final.
THEOREM ImplementsRecovery ==
    ASSUME OneWorker
    PROVE  Spec => RecoveryRefined
<1>1. Init => R!Init
  BY DEF Init, R!Init, Absent, New
<1>2. SerialInv /\ [Next]_vars => [R!Next]_(R!vars)
  BY StepRefined
<1>3. QED  BY <1>1, <1>2, SerialInvariant, PTL DEF Spec, RecoveryRefined, R!Spec
=============================================================================
