---------------------------- MODULE AlertsProofs ----------------------------
(***************************************************************************)
(* Proofs about Alerts for every set of calls and thresholds, every budget *)
(* and window, and every bound; what IngestProofs proves of ingest alone   *)
(* holds beside the evaluation too.                                        *)
(*                                                                         *)
(* That an alarm is true and the mark honest depends on what a handler read*)
(* long before it sends and stores: the invariant says that a bill in hand *)
(* is never more than the bill, and that a mark in hand is as honest as    *)
(* the stored one.                                                         *)
(***************************************************************************)
EXTENDS Alerts, IngestProofs, FiniteSetTheorems, WellFoundedInduction

Told(t) == sent[t] > 0

\* Nothing at or below a mark went unsent.
Honest(mark) == \A t \in Thresholds : t <= mark => Told(t)

EvaluationTypeOK ==
    /\ maxFired \in {0} \cup Thresholds
    /\ step \in [Calls -> Steps]
    /\ seenMark \in [Calls -> {0} \cup Thresholds]
    /\ projected \in [Calls -> Nat]
    /\ sent \in [Thresholds -> Nat]

BillsInHand == \A c \in Calls : projected[c] <= Spend

MarksInHand == faults = 0 => /\ Honest(maxFired)
                             /\ \A c \in Calls : Honest(seenMark[c])

\* A handler that has sent its thresholds has none left, unless a POST failed.
FiredIsTold ==
    faults = 0 => \A c \in Calls : step[c] = "fired" =>
        \A t \in ToFire(seenMark[c], projected[c]) : Told(t)

AlertsInv ==
    /\ IngestInv
    /\ EvaluationTypeOK
    /\ IsFiniteSet(log)
    /\ NoFalseAlarm
    /\ BillsInHand
    /\ MarksInHand
    /\ FiredIsTold

-----------------------------------------------------------------------------
(* Marks and bills.                                                        *)

Lower == {p \in Nat \X Nat : p[1] < p[2]}

\* The naturals have no infinite descent.
LEMMA LowerIsWellFounded == IsWellFoundedOn(Lower, Nat)
  BY NatLessThanWellFounded DEF OpToRel, Lower

\* A set of naturals that is not empty has a least element.
LEMMA HasLeast ==
    ASSUME NEW S \in SUBSET Nat, S # {}
    PROVE  \E m \in S : \A s \in S : m <= s
<1>1. PICK m \in S : \A s \in S : ~(<<s, m>> \in Lower)
  BY LowerIsWellFounded, WFMin
<1>2. \A s \in S : ~(s < m)
  BY <1>1 DEF Lower
<1> QED
  BY <1>2

\* One that has a bound, too, has a greatest.
LEMMA HasGreatest ==
    ASSUME NEW S \in SUBSET Nat, S # {}, NEW n \in Nat, \A s \in S : s <= n
    PROVE  \E m \in S : \A s \in S : s <= m
<1> DEFINE Gaps == {d \in Nat : \E s \in S : d = n - s}
<1>1. \A s \in S : n - s \in Gaps
  OBVIOUS
<1>2. Gaps \in SUBSET Nat /\ Gaps # {}
  BY <1>1
<1>3. PICK d \in Gaps : \A e \in Gaps : d <= e
  <2> HIDE DEF Gaps
  <2> QED
    BY <1>2, HasLeast
<1>4. PICK m \in S : d = n - m
  BY <1>3
<1> HIDE DEF Gaps
<1>5. \A s \in S : n - m <= n - s
  BY <1>1, <1>3, <1>4
<1> QED
  BY <1>5

\* A smaller threshold is reached by the same bill.
LEMMA ReachedDown ==
    ASSUME NEW s \in Nat, NEW t \in Thresholds, NEW u \in Thresholds,
           u <= t, Reached(s, t)
    PROVE  Reached(s, u)
<1>1. t \in Nat /\ u \in Nat /\ Budget \in Nat
  BY AlertsAssumption
<1>2. u * Budget <= t * Budget
  BY <1>1, SMT
<1> QED
  BY <1>1, <1>2 DEF Reached

\* A threshold is reached by any larger bill.
LEMMA ReachedUp ==
    ASSUME NEW s \in Nat, NEW r \in Nat, NEW t \in Thresholds,
           s <= r, Reached(s, t)
    PROVE  Reached(r, t)
<1>1. t * Budget \in Nat
  BY AlertsAssumption
<1> QED
  BY <1>1 DEF Reached

\* The new mark is the old one or the highest threshold that fires.
LEMMA NewMarkIsHighest ==
    ASSUME NEW mark \in {0} \cup Thresholds, NEW s \in Nat
    PROVE  /\ NewMark(mark, s) \in {mark} \cup ToFire(mark, s)
           /\ \A t \in ToFire(mark, s) : t <= NewMark(mark, s)
<1> DEFINE F == ToFire(mark, s)
<1>1. F \in SUBSET Nat /\ \A t \in F : t <= s * 100
  <2> SUFFICES ASSUME NEW t \in F PROVE t \in Nat /\ t <= s * 100
    OBVIOUS
  <2>1. t \in Nat /\ Budget \in Nat /\ Budget >= 1 /\ s * 100 >= t * Budget
    BY AlertsAssumption DEF ToFire, Reached
  <2>2. t * Budget >= t
    BY <2>1, SMT
  <2> QED
    BY <2>1, <2>2
<1>2. \E m \in {mark} \cup F : \A t \in F : t <= m
  <2>1. CASE F = {}
    BY <2>1
  <2>2. CASE F # {}
    <3> HIDE DEF F
    <3>1. s * 100 \in Nat
      OBVIOUS
    <3>2. \E m \in F : \A t \in F : t <= m
      BY <1>1, <2>2, <3>1, HasGreatest
    <3> QED
      BY <3>2
  <2> QED
    BY <2>1, <2>2
<1> QED
  BY <1>2 DEF NewMark

\* The bill is a number, and no event ever leaves it.
LEMMA SpendGrows ==
    ASSUME IsFiniteSet(log), IsFiniteSet(log'), log \subseteq log'
    PROVE  Spend \in Nat /\ Spend' \in Nat /\ Spend <= Spend'
<1> DEFINE old == {e \in log : e.when < PeriodEnd}
           new == {e \in log' : e.when < PeriodEnd}
<1>1. old \in SUBSET log /\ new \in SUBSET log' /\ old \in SUBSET new
  OBVIOUS
<1>2. IsFiniteSet(old) /\ IsFiniteSet(new)
  BY <1>1, FS_Subset
<1>3. Cardinality(old) \in Nat /\ Cardinality(new) \in Nat
  BY <1>2, FS_CardinalityType
<1>4. Cardinality(old) <= Cardinality(new)
  BY <1>1, <1>2, FS_Subset
<1>5. Spend = Cardinality(old) /\ Spend' = Cardinality(new)
  BY DEF Spend
<1> QED
  BY <1>3, <1>4, <1>5

\* A step of the log adds one event at most.
LEMMA LogGrows ==
    ASSUME IngestInv, IsFiniteSet(log), Next \/ Aside
    PROVE  IsFiniteSet(log') /\ log \subseteq log'
<1>1. ASSUME NEW c \in Calls, log' = Appended(c)
      PROVE  IsFiniteSet(log') /\ log \subseteq log'
  BY <1>1, FS_AddElement DEF Appended
<1> QED
  BY <1>1 DEF Next, Aside, Arrive, Check, CheckFails, Append, AppendFails,
              Reply, Tick, Crash

-----------------------------------------------------------------------------
(* The invariant.                                                          *)

\* A start with nothing read, rated or sent satisfies the invariant.
LEMMA AlertsStart == AlertsInit => AlertsInv
<1> SUFFICES ASSUME AlertsInit PROVE AlertsInv
  OBVIOUS
<1>1. log = {} /\ IsFiniteSet(log)
  BY FS_EmptySet DEF AlertsInit, Init
<1>2. Spend = 0
  <2>1. {e \in log : e.when < PeriodEnd} = {}
    BY <1>1
  <2> QED
    BY <2>1, FS_EmptySet DEF Spend
<1>3. EvaluationTypeOK
  BY DEF AlertsInit, EvaluationTypeOK, Steps
<1>4. NoFalseAlarm /\ BillsInHand /\ FiredIsTold
  BY <1>2 DEF AlertsInit, NoFalseAlarm, BillsInHand, FiredIsTold
<1>5. MarksInHand
  BY AlertsAssumption DEF AlertsInit, MarksInHand, Honest
<1> QED
  BY <1>1, <1>3, <1>4, <1>5, IngestInit DEF AlertsInit, AlertsInv

\* What every step keeps of ingest, the log and the fault counter.
LEMMA Underneath ==
    ASSUME AlertsInv, Next \/ Aside
    PROVE  /\ IngestInv' /\ IsFiniteSet(log')
           /\ Spend \in Nat /\ Spend' \in Nat /\ Spend <= Spend'
<1>1. IngestInv' /\ IsFiniteSet(log') /\ log \subseteq log'
  BY IngestNext, LogGrows DEF AlertsInv
<1> QED
  BY <1>1, SpendGrows DEF AlertsInv

\* An alarm that was true stays true, and a bill in hand stays behind the bill.
LEMMA SentStaysTrue ==
    ASSUME AlertsInv, Next \/ Aside, NEW t \in Thresholds, Told(t)
    PROVE  t \in AllReached'
<1>1. Reached(Spend, t)
  BY DEF AlertsInv, NoFalseAlarm, AllReached, Told
<1>2. Reached(Spend', t)
  BY <1>1, Underneath, ReachedUp
<1> QED
  BY <1>2 DEF AllReached, Reached

\* The alert is left alone: ingest goes on.
LEMMA IngestBeside ==
    ASSUME AlertsInv, Next \/ Aside, UNCHANGED alert, faults' = 0 => faults = 0
    PROVE  AlertsInv'
<1>1. EvaluationTypeOK'
  BY DEF AlertsInv, EvaluationTypeOK, alert
<1>2. NoFalseAlarm'
  BY SentStaysTrue DEF NoFalseAlarm, Told, alert
<1>3. BillsInHand'
  <2>1. \A c \in Calls : projected'[c] = projected[c] /\ projected[c] \in Nat
    BY DEF alert, AlertsInv, EvaluationTypeOK
  <2> QED
    BY <2>1, Underneath DEF AlertsInv, BillsInHand
<1>4. MarksInHand'
  BY DEF AlertsInv, MarksInHand, Honest, Told, alert
<1>5. FiredIsTold'
  BY DEF AlertsInv, FiredIsTold, Told, alert, ToFire, Reached
<1> QED
  BY <1>1, <1>2, <1>3, <1>4, <1>5, Underneath DEF AlertsInv

\* A step of the evaluation in call c: the log stays, nothing that was sent
\* is forgotten, the marks and bills of other calls stay.
LEMMA EvaluationStep ==
    ASSUME AlertsInv, Aside, faults' = 0 => faults = 0, EvaluationTypeOK',
           NEW c \in Calls,
           \A t \in Thresholds : sent'[t] >= sent[t],
           \A t \in Thresholds : sent'[t] = sent[t] \/ Reached(Spend, t),
           \A d \in Calls \ {c} : /\ seenMark'[d] = seenMark[d]
                                  /\ projected'[d] = projected[d]
                                  /\ step'[d] = step[d],
           projected'[c] <= Spend,
           faults' = 0 => Honest(seenMark[c])' /\ Honest(maxFired)',
           faults' = 0 /\ step'[c] = "fired" =>
               \A t \in ToFire(seenMark[c], projected[c])' : Told(t)'
    PROVE  AlertsInv'
<1>1. Spend' = Spend
  BY DEF Aside, Spend
<1>2. \A t \in Thresholds : Told(t) => Told(t)'
  BY DEF Told, AlertsInv, EvaluationTypeOK
<1>3. NoFalseAlarm'
  <2> SUFFICES ASSUME NEW t \in Thresholds, Told(t)' PROVE Reached(Spend, t)
    BY <1>1 DEF NoFalseAlarm, AllReached, Told, Reached
  <2>1. CASE sent'[t] = sent[t]
    BY <2>1 DEF Told, AlertsInv, NoFalseAlarm, AllReached
  <2>2. CASE Reached(Spend, t)
    BY <2>2
  <2> QED
    BY <2>1, <2>2
<1>4. BillsInHand'
  BY <1>1 DEF AlertsInv, BillsInHand
<1>5. MarksInHand'
  <2> SUFFICES ASSUME faults' = 0, NEW d \in Calls
               PROVE  Honest(maxFired)' /\ Honest(seenMark[d])'
    BY DEF MarksInHand, Honest
  <2>1. CASE d = c
    BY <2>1
  <2>2. CASE d # c
    BY <1>2, <2>2 DEF AlertsInv, MarksInHand, Honest
  <2> QED
    BY <2>1, <2>2
<1>6. FiredIsTold'
  <2> SUFFICES ASSUME faults' = 0, NEW d \in Calls, step'[d] = "fired",
                      NEW t \in ToFire(seenMark[d], projected[d])'
               PROVE  Told(t)'
    BY DEF FiredIsTold, ToFire, Reached
  <2>1. CASE d = c
    BY <2>1
  <2>2. CASE d # c
    BY <1>2, <2>2 DEF AlertsInv, FiredIsTold, ToFire
  <2> QED
    BY <2>1, <2>2
<1> QED
  BY <1>3, <1>4, <1>5, <1>6, Underneath DEF AlertsInv

\* The steps of the evaluation one by one.  A step that failed leaves nothing
\* to show of honesty: the fault is counted.
LEMMA FaultCounts ==
    ASSUME IngestInv, Fault
    PROVE  faults' \in Nat /\ faults' # 0
  BY DEF IngestInv, TypeOK, Fault

\* A mark that never rose hides no threshold.
LEMMA HonestZero == Honest(0)
  BY AlertsAssumption DEF Honest

\* A mark just read is as honest as the stored one.
LEMMA ReadAlertsKeeps ==
    ASSUME AlertsInv, NEW c \in Calls, ReadAlerts(c)
    PROVE  AlertsInv'
<1> USE DEF ReadAlerts, Go
<1>0. EvaluationTypeOK /\ Spend \in Nat /\ Aside
  BY Underneath DEF AlertsInv, IngestInv, TypeOK, Aside, ivars
<1>1. EvaluationTypeOK'
  BY <1>0 DEF EvaluationTypeOK, Steps
<1>2. projected'[c] <= Spend
  BY DEF AlertsInv, BillsInHand
<1>3. faults' = 0 => Honest(seenMark[c])' /\ Honest(maxFired)'
  BY <1>0 DEF AlertsInv, MarksInHand, Honest, Told, EvaluationTypeOK, ivars
<1>4. step'[c] # "fired"
  BY <1>0 DEF EvaluationTypeOK
<1>5. \A t \in Thresholds : sent'[t] >= sent[t]
  BY <1>0 DEF EvaluationTypeOK
<1> QED
  BY <1>0, <1>1, <1>2, <1>3, <1>4, <1>5, EvaluationStep DEF EvaluationTypeOK, ivars

\* A bill just computed is the bill.
LEMMA ProjectKeeps ==
    ASSUME AlertsInv, NEW c \in Calls, Project(c)
    PROVE  AlertsInv'
<1> USE DEF Project, Go
<1>0. EvaluationTypeOK /\ Aside
  BY DEF AlertsInv, IngestInv, TypeOK, Aside, ivars
<1>1. Spend \in Nat
  BY <1>0, Underneath
<1>2. EvaluationTypeOK'
  BY <1>0, <1>1 DEF EvaluationTypeOK, Steps
<1>3. projected'[c] <= Spend
  BY <1>0, <1>1 DEF EvaluationTypeOK
<1>4. faults' = 0 => Honest(seenMark[c])' /\ Honest(maxFired)'
  BY DEF AlertsInv, MarksInHand, Honest, Told, ivars
<1>5. step'[c] # "fired"
  BY <1>0 DEF EvaluationTypeOK
<1>6. \A t \in Thresholds : sent'[t] >= sent[t]
  BY <1>0 DEF EvaluationTypeOK
<1> QED
  BY <1>0, <1>2, <1>3, <1>4, <1>5, <1>6, EvaluationStep DEF EvaluationTypeOK, ivars

\* The evaluation is given up, by an error of a read or of the update.
LEMMA GivingUpKeeps ==
    ASSUME AlertsInv, NEW c \in Calls, EvaluateFails(c) \/ UpdateFails(c)
    PROVE  AlertsInv'
<1> USE DEF EvaluateFails, UpdateFails, End, Go
<1>0. faults' \in Nat /\ faults' # 0
  BY FaultCounts DEF AlertsInv
<1>1. EvaluationTypeOK /\ Aside
  BY <1>0 DEF AlertsInv, Aside
<1>2. Spend \in Nat
  BY <1>1, Underneath
<1>3. EvaluationTypeOK'
  BY <1>1 DEF EvaluationTypeOK, Steps
<1>4. projected'[c] <= Spend
  BY <1>1, <1>2 DEF EvaluationTypeOK
<1>5. \A t \in Thresholds : sent'[t] >= sent[t]
  BY <1>1 DEF EvaluationTypeOK
<1> QED
  BY <1>0, <1>1, <1>3, <1>4, <1>5, EvaluationStep DEF EvaluationTypeOK

\* What is sent was reached by the bill in hand, so by the bill.
LEMMA PostIsTrue ==
    ASSUME AlertsInv, Aside, NEW c \in Calls,
           NEW ts \in SUBSET ToFire(seenMark[c], projected[c]), Post(ts)
    PROVE  /\ sent' \in [Thresholds -> Nat]
           /\ \A t \in Thresholds : sent'[t] >= sent[t]
           /\ \A t \in Thresholds : sent'[t] = sent[t] \/ Reached(Spend, t)
           /\ \A t \in ts : sent'[t] > 0
<1>1. /\ sent \in [Thresholds -> Nat] /\ projected[c] \in Nat
      /\ projected[c] <= Spend
  BY DEF AlertsInv, EvaluationTypeOK, BillsInHand
<1>2. Spend \in Nat
  BY Underneath
<1>3. \A t \in ts : t \in Thresholds /\ Reached(Spend, t)
  BY <1>1, <1>2, ReachedUp DEF ToFire
<1> QED
  BY <1>1, <1>3 DEF Post

\* Sending the crossed thresholds, of a bill that is at most the bill.
LEMMA NotifyKeeps ==
    ASSUME AlertsInv, NEW c \in Calls, Notify(c)
    PROVE  AlertsInv'
<1> USE DEF Notify, Go
<1>0. EvaluationTypeOK /\ Aside
  BY DEF AlertsInv, IngestInv, TypeOK, Aside, ivars
<1> DEFINE ts == ToFire(seenMark[c], projected[c])
<1>1. /\ sent' \in [Thresholds -> Nat]
      /\ \A t \in Thresholds : sent'[t] >= sent[t]
      /\ \A t \in Thresholds : sent'[t] = sent[t] \/ Reached(Spend, t)
      /\ \A t \in ts : sent'[t] > 0
  BY <1>0, PostIsTrue
<1>2. EvaluationTypeOK'
  BY <1>0, <1>1 DEF EvaluationTypeOK, Steps
<1>3. projected'[c] <= Spend
  BY DEF AlertsInv, BillsInHand
<1>4. faults' = 0 => Honest(seenMark[c])' /\ Honest(maxFired)'
  BY <1>0, <1>1 DEF AlertsInv, MarksInHand, Honest, Told, EvaluationTypeOK, ivars
<1>5. \A t \in ToFire(seenMark[c], projected[c])' : Told(t)'
  BY <1>1 DEF Told, ToFire
<1> HIDE DEF ts
<1> QED
  BY <1>0, <1>1, <1>2, <1>3, <1>4, <1>5, EvaluationStep DEF EvaluationTypeOK, ivars

\* A POST that fails has sent some of the thresholds, and used up a fault.
LEMMA NotifyFailsKeeps ==
    ASSUME AlertsInv, NEW c \in Calls, NotifyFails(c)
    PROVE  AlertsInv'
<1> USE DEF NotifyFails, Go
<1>0. faults' \in Nat /\ faults' # 0
  BY FaultCounts DEF AlertsInv
<1>1. EvaluationTypeOK /\ Aside
  BY <1>0 DEF AlertsInv, Aside
<1>2. PICK ts \in SUBSET ToFire(seenMark[c], projected[c]) : Post(ts)
  OBVIOUS
<1>3. /\ sent' \in [Thresholds -> Nat]
      /\ \A t \in Thresholds : sent'[t] >= sent[t]
      /\ \A t \in Thresholds : sent'[t] = sent[t] \/ Reached(Spend, t)
  BY <1>1, <1>2, PostIsTrue
<1>4. EvaluationTypeOK'
  BY <1>1, <1>3 DEF EvaluationTypeOK, Steps
<1>5. projected'[c] <= Spend
  BY DEF AlertsInv, BillsInHand
<1> QED
  BY <1>0, <1>1, <1>3, <1>4, <1>5, EvaluationStep DEF EvaluationTypeOK

\* A mark is raised only to a threshold that was sent, with all below it.
LEMMA NewMarkIsHonest ==
    ASSUME AlertsInv, NEW c \in Calls, faults = 0, step[c] = "fired"
    PROVE  Honest(NewMark(seenMark[c], projected[c]))
<1> DEFINE mark == seenMark[c]
           bill == projected[c]
<1>1. mark \in {0} \cup Thresholds /\ bill \in Nat /\ Honest(mark)
  BY DEF AlertsInv, EvaluationTypeOK, MarksInHand
<1>2. \A t \in ToFire(mark, bill) : Told(t)
  BY DEF AlertsInv, FiredIsTold
<1>3. NewMark(mark, bill) \in {mark} \cup ToFire(mark, bill)
  BY <1>1, NewMarkIsHighest
<1>4. CASE NewMark(mark, bill) = mark
  BY <1>1, <1>4
<1>5. CASE NewMark(mark, bill) \in ToFire(mark, bill)
  <2> SUFFICES ASSUME NEW u \in Thresholds, u <= NewMark(mark, bill)
               PROVE  Told(u)
    BY DEF Honest
  <2>1. CASE u <= mark
    BY <1>1, <2>1 DEF Honest
  <2>2. CASE ~(u <= mark)
    <3>1. NewMark(mark, bill) \in Thresholds /\ Reached(bill, NewMark(mark, bill))
      BY <1>5 DEF ToFire
    <3>2. Reached(bill, u)
      BY <1>1, <3>1, ReachedDown
    <3> HIDE DEF mark
    <3>3. u \in Nat /\ mark \in Nat
      BY <1>1, AlertsAssumption
    <3>4. u > mark
      BY <2>2, <3>3
    <3> QED
      BY <1>2, <3>2, <3>4 DEF ToFire
  <2> QED
    BY <2>1, <2>2
<1> QED
  BY <1>3, <1>4, <1>5

\* The mark written back is honest: all below it was sent by now.
LEMMA UpdateKeeps ==
    ASSUME AlertsInv, NEW c \in Calls, UpdateAlertFired(c)
    PROVE  AlertsInv'
<1> USE DEF UpdateAlertFired, End, Go
<1>0. EvaluationTypeOK /\ Aside /\ step[c] = "fired"
  BY DEF AlertsInv, IngestInv, TypeOK, Aside, ivars, At
<1>1. Spend \in Nat
  BY <1>0, Underneath
<1> DEFINE mark == NewMark(seenMark[c], projected[c])
<1>2. mark \in {0} \cup Thresholds
  <2>1. seenMark[c] \in {0} \cup Thresholds /\ projected[c] \in Nat
    BY <1>0 DEF EvaluationTypeOK
  <2>2. mark \in {seenMark[c]} \cup ToFire(seenMark[c], projected[c])
    BY <2>1, NewMarkIsHighest
  <2> QED
    BY <2>1, <2>2 DEF ToFire
<1>3. maxFired' = mark \/ maxFired' = maxFired
  OBVIOUS
<1>4. faults = 0 => Honest(mark)
  BY <1>0, NewMarkIsHonest
<1> HIDE DEF mark
<1>5. EvaluationTypeOK'
  BY <1>0, <1>2, <1>3 DEF EvaluationTypeOK, Steps
<1>6. projected'[c] <= Spend
  BY <1>0, <1>1 DEF EvaluationTypeOK
<1>7. faults' = 0 => Honest(seenMark[c])' /\ Honest(maxFired)'
  <2> SUFFICES ASSUME faults = 0 PROVE Honest(seenMark[c])' /\ Honest(maxFired)'
    BY DEF ivars
  <2>1. seenMark'[c] = 0
    BY <1>0 DEF EvaluationTypeOK
  <2>2. Honest(seenMark[c])'
    BY <2>1, HonestZero DEF Honest, Told
  <2>3. Honest(maxFired)
    BY DEF AlertsInv, MarksInHand
  <2> QED
    BY <1>3, <1>4, <2>2, <2>3 DEF Honest, Told
<1>8. step'[c] # "fired"
  BY <1>0 DEF EvaluationTypeOK
<1>9. \A t \in Thresholds : sent'[t] >= sent[t]
  BY <1>0 DEF EvaluationTypeOK
<1> QED
  BY <1>0, <1>5, <1>6, <1>7, <1>8, <1>9, EvaluationStep DEF EvaluationTypeOK, ivars

-----------------------------------------------------------------------------
(* Every step.                                                             *)

\* Ingest sees its own step or one that leaves all but the faults alone.
LEMMA StepsBelow ==
    ASSUME AlertsInv, [AlertsNext]_vars
    PROVE  Next \/ Aside
<1>1. faults \in Nat
  BY DEF AlertsInv, IngestInv, TypeOK
<1>2. CASE UNCHANGED vars
  BY <1>1, <1>2 DEF vars, ivars, Aside
<1>3. ASSUME NEW c \in Calls, IngestStep(c) PROVE Next
  BY <1>3 DEF IngestStep, Next
<1>4. ASSUME NEW c \in Calls, Evaluate(c) PROVE Next \/ Aside
  BY <1>1, <1>4 DEF Evaluate, ReadAlerts, Project, Notify, UpdateAlertFired,
                    AnswerAccepted, Next, Aside, ivars
<1>5. ASSUME NEW c \in Calls, EvaluateFails(c) \/ NotifyFails(c) \/ UpdateFails(c)
      PROVE  Aside
  BY <1>1, <1>5 DEF EvaluateFails, NotifyFails, UpdateFails, Fault, Aside
<1>6. CASE (Tick \/ Crash) /\ UNCHANGED alert
  BY <1>6 DEF Next
<1> QED
  BY <1>2, <1>3, <1>4, <1>5, <1>6 DEF AlertsNext

\* A fault of the evaluation changes nothing the invariant speaks of.
LEMMA FaultsOnlyCount ==
    ASSUME AlertsInv, Next \/ UNCHANGED ivars
    PROVE  faults' = 0 => faults = 0
  BY DEF AlertsInv, IngestInv, TypeOK, Next, Arrive, Check, CheckFails, Append,
         AppendFails, Reply, Tick, Crash, Fault, ivars

\* Every step of the handler keeps the invariant.
LEMMA NextAlertsInv ==
    ASSUME AlertsInv, [AlertsNext]_vars
    PROVE  AlertsInv'
<1>1. CASE UNCHANGED vars
  BY <1>1, StepsBelow, FaultsOnlyCount, IngestBeside DEF vars
<1>2. ASSUME NEW c \in Calls, IngestStep(c) PROVE AlertsInv'
  <2>1. Next /\ UNCHANGED alert
    BY <1>2 DEF IngestStep, Next
  <2> QED
    BY <2>1, FaultsOnlyCount, IngestBeside
<1>3. ASSUME NEW c \in Calls, AnswerAccepted(c) PROVE AlertsInv'
  <2>1. Next /\ UNCHANGED alert
    BY <1>3 DEF AnswerAccepted, Next
  <2> QED
    BY <2>1, FaultsOnlyCount, IngestBeside
<1>4. ASSUME NEW c \in Calls, Evaluate(c) PROVE AlertsInv'
  BY <1>3, <1>4, ReadAlertsKeeps, ProjectKeeps, NotifyKeeps, UpdateKeeps DEF Evaluate
<1>5. ASSUME NEW c \in Calls, EvaluateFails(c) \/ NotifyFails(c) \/ UpdateFails(c)
      PROVE  AlertsInv'
  BY <1>5, GivingUpKeeps, NotifyFailsKeeps
<1>6. CASE (Tick \/ Crash) /\ UNCHANGED alert
  BY <1>6, FaultsOnlyCount, IngestBeside DEF Next
<1> QED
  BY <1>1, <1>2, <1>4, <1>5, <1>6 DEF AlertsNext

-----------------------------------------------------------------------------
(* The theorems.                                                           *)

\* AlertsInv holds in every reachable state of ingest with its alert.
THEOREM AlertsInvariant == AlertsSpec => []AlertsInv
<1>1. AlertsInv /\ [AlertsNext]_vars => AlertsInv'
  BY NextAlertsInv
<1> QED
  BY <1>1, AlertsStart, PTL DEF AlertsSpec

\* Types.
THEOREM AlertsTypeCorrect == AlertsSpec => []AlertsTypeOK
<1>1. AlertsInv => AlertsTypeOK
  BY DEF AlertsInv, IngestInv, EvaluationTypeOK, AlertsTypeOK
<1> QED
  BY <1>1, AlertsInvariant, PTL

\* One event a key, and answers in the log, in the handler as it is: with the
\* evaluation between append and answer (ingestEvent).
THEOREM IngestHoldsBesideAlerts == AlertsSpec => [](OneEventPerKey /\ AnswersAreDurable)
<1>1. AlertsInv => OneEventPerKey /\ AnswersAreDurable
  BY DEF AlertsInv, IngestInv
<1> QED
  BY <1>1, AlertsInvariant, PTL

\* A bill as of a past moment stays what it was in the whole handler, too.
THEOREM AsOfIsSettledBesideAlerts == AlertsSpec => AsOfSettles
<1>1. AlertsInv /\ [AlertsNext]_vars => [AsOfSettlesStep]_ivars
  BY StepsBelow, AsOfStep DEF AlertsInv
<1> QED
  BY <1>1, AlertsInvariant, PTL DEF AlertsSpec, AsOfSettles

\* No customer is told of a threshold the bill has not reached, whatever stale
\* bill a handler holds (evaluateAlerts).
THEOREM AlarmsAreTrue == AlertsSpec => []NoFalseAlarm
<1>1. AlertsInv => NoFalseAlarm
  BY DEF AlertsInv
<1> QED
  BY <1>1, AlertsInvariant, PTL

\* No stale mark written back silences a threshold that was not sent
\* (UpdateAlertFired).
THEOREM MarkHonest == AlertsSpec => []MarkIsHonest
<1>1. AlertsInv => MarkIsHonest
  BY DEF AlertsInv, MarksInHand, Honest, Told, MarkIsHonest
<1> QED
  BY <1>1, AlertsInvariant, PTL
=============================================================================
