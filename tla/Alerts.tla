------------------------------- MODULE Alerts -------------------------------
(***************************************************************************)
(* Spend alerts, evaluated by the ingest handler of an accepted event      *)
(* before it answers: read the alert's high-water mark, compute the        *)
(* customer's bill, POST every newly crossed threshold, store the new mark.*)
(* Other calls do the same in between.                                     *)
(*                                                                         *)
(* One customer with one alert in the currency of the bill; the handler    *)
(* treats several one after the other, independently.  The bill is the     *)
(* number of events that fall in the subscription's period: any price that *)
(* never goes down with usage would do.  Calls of the ingest_event tool    *)
(* evaluate nothing.                                                       *)
(***************************************************************************)
EXTENDS Ingest

CONSTANTS
    AgentCalls,   \* the calls that come through the ingest_event tool
    Thresholds,   \* percentages of the budget
    Budget,
    PeriodEnd     \* events from this time on are not in the period

ASSUME AlertsAssumption ==
    /\ AgentCalls \subseteq Calls
    /\ Thresholds \subseteq Nat \ {0}
    /\ Budget \in Nat \ {0}
    /\ PeriodEnd \in Nat

VARIABLES
    maxFired,    \* the stored high-water mark
    step,        \* step[c]: where the evaluation in the handler of c is
    seenMark,    \* seenMark[c]: the mark it read
    projected,   \* projected[c]: the bill it computed
    sent         \* sent[t]: POSTs that reached the endpoint for threshold t

alert == <<maxFired, step, seenMark, projected, sent>>
vars  == <<ivars, alert>>

Steps == {"none", "read", "computed", "fired", "done"}

Spend == Cardinality({e \in log : e.when < PeriodEnd})

Reached(spend, t) == spend * 100 >= t * Budget

AllReached == {t \in Thresholds : Reached(Spend, t)}

\* Deliberate slips of the operators that follow them; nothing else uses them.
ToFireEarly(mark, spend) == {t \in Thresholds : t > mark /\ Reached(spend + 1, t)}
ToFireStrictly(mark, spend) ==   \* > for >=
    {t \in Thresholds : t > mark /\ spend * 100 > t * Budget}
NewMarkHighest(mark, spend) ==   \* everything counted as fired
    CHOOSE m \in {mark} \cup Thresholds : \A t \in Thresholds : t <= m
NewMarkCounts(mark, spend) == mark + Cardinality({t \in Thresholds : t > mark})

\* Crossed: what fires now and the new high-water mark.
ToFire(mark, spend) == {t \in Thresholds : t > mark /\ Reached(spend, t)}

NewMark(mark, spend) ==
    CHOOSE m \in {mark} \cup ToFire(mark, spend) :
       \A t \in ToFire(mark, spend) : t <= m

AlertsInit ==
    /\ Init
    /\ maxFired = 0
    /\ step = [c \in Calls |-> "none"]
    /\ seenMark = [c \in Calls |-> 0]
    /\ projected = [c \in Calls |-> 0]
    /\ sent = [t \in Thresholds |-> 0]

\* The tool records the event and answers.
Evaluates(c) == c \notin AgentCalls

\* The evaluation runs in the handler of an accepted event, before the answer.
At(c, s) == phase[c] = "appended" /\ Evaluates(c) /\ step[c] = s

Go(c, s) == step' = [step EXCEPT ![c] = s]

\* The evaluation is over; what it had read is gone.
End(c) ==
    /\ Go(c, "done")
    /\ seenMark' = [seenMark EXCEPT ![c] = 0]
    /\ projected' = [projected EXCEPT ![c] = 0]

Post(ts) == sent' = [t \in Thresholds |-> IF t \in ts THEN sent[t] + 1 ELSE sent[t]]

-----------------------------------------------------------------------------
ReadAlerts(c) ==
    /\ At(c, "none")
    /\ seenMark' = [seenMark EXCEPT ![c] = maxFired]
    /\ Go(c, "read")
    /\ UNCHANGED <<ivars, maxFired, projected, sent>>

Project(c) ==
    /\ At(c, "read")
    /\ projected' = [projected EXCEPT ![c] = Spend]
    /\ Go(c, "computed")
    /\ UNCHANGED <<ivars, maxFired, seenMark, sent>>

\* The alerts or the bill cannot be read: the evaluation is given up.
EvaluateFails(c) ==
    /\ At(c, "none") \/ At(c, "read")
    /\ Fault
    /\ End(c)
    /\ UNCHANGED <<log, phase, request, reply, now, maxFired, sent>>

Notify(c) ==
    /\ At(c, "computed")
    /\ Post(ToFire(seenMark[c], projected[c]))
    /\ Go(c, "fired")
    /\ UNCHANGED <<ivars, maxFired, seenMark, projected>>

\* Some POSTs fail; that is logged and the evaluation goes on.
NotifyFails(c) ==
    /\ At(c, "computed")
    /\ Fault
    /\ \E ts \in SUBSET ToFire(seenMark[c], projected[c]) : Post(ts)
    /\ Go(c, "fired")
    /\ UNCHANGED <<log, phase, request, reply, now, maxFired, seenMark, projected>>

UpdateAlertFired(c) ==
    /\ At(c, "fired")
    /\ LET mark == NewMark(seenMark[c], projected[c])
       IN  maxFired' = IF mark # seenMark[c] THEN mark ELSE maxFired
    /\ End(c)
    /\ UNCHANGED <<ivars, sent>>

UpdateFails(c) ==
    /\ At(c, "fired")
    /\ Fault
    /\ End(c)
    /\ UNCHANGED <<log, phase, request, reply, now, maxFired, sent>>

AnswerAccepted(c) ==
    /\ Evaluates(c) => step[c] = "done"
    /\ Reply(c)
    /\ UNCHANGED alert

\* What the rest of the handler does leaves the alert alone.
IngestStep(c) ==
    /\ Arrive(c) \/ Check(c) \/ CheckFails(c) \/ Append(c) \/ AppendFails(c)
    /\ UNCHANGED alert

Evaluate(c) ==
    \/ ReadAlerts(c) \/ Project(c) \/ Notify(c) \/ UpdateAlertFired(c)
    \/ AnswerAccepted(c)

AlertsNext ==
    \/ \E c \in Calls : \/ IngestStep(c) \/ Evaluate(c)
                        \/ EvaluateFails(c) \/ NotifyFails(c) \/ UpdateFails(c)
    \/ (Tick \/ Crash) /\ UNCHANGED alert

AlertsSpec == AlertsInit /\ [][AlertsNext]_vars

\* A handler that has started goes on to its answer.
AlertsFairSpec == AlertsSpec /\ \A c \in Calls : WF_vars(Evaluate(c))
-----------------------------------------------------------------------------
AlertsTypeOK ==
    /\ TypeOK
    /\ maxFired \in {0} \cup Thresholds
    /\ step \in [Calls -> Steps]
    /\ seenMark \in [Calls -> {0} \cup Thresholds]
    /\ projected \in [Calls -> Nat]
    /\ sent \in [Thresholds -> Nat]

\* A customer is only told of a threshold the bill has reached (alerts.go,
\* Crossed; phase3.go, evaluateAlerts).
NoFalseAlarm == \A t \in Thresholds : sent[t] > 0 => t \in AllReached

\* The mark silences a threshold only after it was sent, unless a POST failed:
\* not even a stale mark written back hides one (phase3.go, evaluateAlerts).
MarkIsHonest ==
    faults = 0 => \A t \in Thresholds : t <= maxFired => sent[t] > 0

\* Every threshold the bill has reached is sent in the end, however evaluations
\* overlap, if nothing fails and no event came through the tool ("silence
\* while a customer sails toward a surprise bill is a bug", alerts.go:5).
Untold == \E t \in AllReached : sent[t] = 0

Excused == faults > 0 \/ \E e \in log : ~Evaluates(e.call)

ReachedIsTold == (Untold /\ ~Excused) ~> (~Untold \/ Excused)

\* README.md:166, "Each threshold fires at most once per period (no spam)".
OncePerPeriod == \A t \in Thresholds : sent[t] <= 1
=============================================================================
