------------------------------- MODULE Dunning -------------------------------
(***************************************************************************)
(* The pure failed-payment state machine of internal/dunning: what one     *)
(* charge outcome does to the recovery record of one invoice.  No clock    *)
(* and no store of its own; module Collections runs it concurrently.       *)
(*                                                                         *)
(* Times are naturals.  Go's zero time.Time in a dunning.State and the nil *)
(* *time.Time of a stored domain.Collection stand for the same "no time"   *)
(* (toState and nilIfZero map one to the other); both are NoTime here, and *)
(* clocks start at 1.  Decline codes are abstract members of Reasons: only *)
(* their class matters.                                                    *)
(***************************************************************************)
EXTENDS Integers, Sequences

CONSTANTS
    Reasons,                 \* decline codes a rail may report
    NoReason,                \* the empty code, "": an unclassified decline
    AuthenticationRequired,  \* the code of an SCA / 3DS challenge
    HardDeclines,            \* codes that say the card itself is unusable
    DefaultSchedule          \* delays after the FIRST failure, one per retry

\* The retry delays are positive; nothing else about the cadence is assumed.
ASSUME DunningAssumption ==
    /\ NoReason \in Reasons
    /\ NoReason \notin HardDeclines \cup {AuthenticationRequired}
    /\ AuthenticationRequired \notin HardDeclines
    /\ DefaultSchedule \in Seq(Nat \ {0})

NoTime == 0

Statuses == {"scheduled", "retrying", "requires_action", "paid", "uncollectible"}

\* "none" is the absent row: GetCollection's ok = FALSE.
Collection == [status   : Statuses \cup {"none"},
               attempts : Nat,
               first    : Nat,      \* FirstFailedAt
               next     : Nat,      \* NextAttemptAt
               reason   : Reasons]  \* LastReason

New == [status |-> "scheduled", attempts |-> 0, first |-> NoTime,
        next |-> NoTime, reason |-> NoReason]

Absent == [New EXCEPT !.status = "none"]

Terminal(status) == status \in {"paid", "uncollectible"}

Classify(reason) ==
    CASE reason = AuthenticationRequired -> "auth_required"
      [] reason \in HardDeclines         -> "hard"
      [] OTHER                           -> "soft"

DueOnlyScheduled(c, now) == c.status = "scheduled"   \* slip: the retrying case missing

Due(c, now) ==
    \/ c.status = "scheduled"
    \/ c.status = "retrying" /\ c.next # NoTime /\ c.next <= now

Retries == Len(DefaultSchedule)

-----------------------------------------------------------------------------
(* Deliberate slips of the operators that follow them, to see that the      *)
(* properties of Collections notice; nothing else refers to them.          *)

RetryFromNow(c, reason, now) ==   \* the delay counted from this failure
    LET n     == c.attempts + 1
        first == IF c.first = NoTime THEN now ELSE c.first
    IN  IF n > Retries
        THEN [status |-> "uncollectible", attempts |-> n, first |-> first,
              next |-> NoTime, reason |-> reason]
        ELSE [status |-> "retrying", attempts |-> n, first |-> first,
              next |-> now + DefaultSchedule[n], reason |-> reason]

WriteOffOneEarly(c, reason, now) ==   \* idx + 1 >= len(sched)
    LET n     == c.attempts + 1
        first == IF c.first = NoTime THEN now ELSE c.first
    IN  IF n >= Retries
        THEN [status |-> "uncollectible", attempts |-> n, first |-> first,
              next |-> NoTime, reason |-> reason]
        ELSE [status |-> "retrying", attempts |-> n, first |-> first,
              next |-> first + DefaultSchedule[n], reason |-> reason]

FirstOverwritten(c, now) == now   \* the IsZero guard dropped

-----------------------------------------------------------------------------
FirstFailure(c, now) == IF c.first = NoTime THEN now ELSE c.first

\* A soft decline: the next retry, counted from the first failure, or the
\* write-off once the schedule is exhausted.
SoftFailure(c, reason, now) ==
    LET n     == c.attempts + 1
        first == FirstFailure(c, now)
    IN  IF n > Retries
        THEN [status |-> "uncollectible", attempts |-> n, first |-> first,
              next |-> NoTime, reason |-> reason]
        ELSE [status |-> "retrying", attempts |-> n, first |-> first,
              next |-> first + DefaultSchedule[n], reason |-> reason]

\* A hard decline or an authentication challenge: stop and wait.
StopFailure(c, reason, now) ==
    [status |-> "requires_action", attempts |-> c.attempts + 1,
     first |-> FirstFailure(c, now), next |-> NoTime, reason |-> reason]

Success(c) ==
    [status |-> "paid", attempts |-> c.attempts + 1, first |-> c.first,
     next |-> NoTime, reason |-> NoReason]

RecordAttempt(c, success, reason, now) ==
    CASE success                               -> Success(c)
      [] ~success /\ Classify(reason) # "soft" -> StopFailure(c, reason, now)
      [] ~success /\ Classify(reason) = "soft" -> SoftFailure(c, reason, now)
=============================================================================
