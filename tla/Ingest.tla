------------------------------- MODULE Ingest -------------------------------
(***************************************************************************)
(* Usage ingest: POST /v1/events and the ingest_event tool.  A call samples*)
(* the clock, asks the store whether its idempotency key was seen within   *)
(* the window, and then appends; the two store calls are separate, and the *)
(* store's append is idempotent on the key whatever its age.  A client that*)
(* got no answer or an error may call again with the same key.             *)
(*                                                                         *)
(* The store is the Postgres one and survives a crash; the memory store    *)
(* keeps the same keys (seenKeys) for as long as it lives.  Requests that  *)
(* fail validation change nothing and are left out.                        *)
(***************************************************************************)
EXTENDS Integers, FiniteSets

CONSTANTS
    Calls,       \* requests, each served once
    Keys,        \* idempotency keys the clients use
    key,         \* key[c]: the idempotency_key c carries
    Window,      \* the dedup window
    MaxTime,     \* bound: the clock stops here
    MaxFaults    \* bound: store errors and restarts in all

ASSUME IngestAssumption ==
    /\ key \in [Calls -> Keys]
    /\ Window \in Nat /\ MaxTime \in Nat /\ MaxFaults \in Nat

VARIABLES
    log,     \* the events table
    phase,   \* phase[c]: where the handler of c is
    when,    \* when[c]: the event_time c carries
    at,      \* at[c]: the ingestion clock c sampled
    reply,   \* reply[c]: what the client was answered
    now,
    faults

request == <<when, at>>
ivars   == <<log, phase, request, reply, now, faults>>

Phases  == {"idle", "arrived", "checked", "appended", "done", "lost"}
Replies == {"none", "accepted", "duplicate", "error"}
Event   == [key : Keys, call : Calls, when : Nat, at : Nat]

Running == {"arrived", "checked", "appended"}

Init ==
    /\ log = {}
    /\ phase = [c \in Calls |-> "idle"]
    /\ when = [c \in Calls |-> 0]
    /\ at = [c \in Calls |-> 0]
    /\ reply = [c \in Calls |-> "none"]
    /\ now = 1
    /\ faults = 0

Fault == faults < MaxFaults /\ faults' = faults + 1

Answer(c, word) ==
    /\ reply' = [reply EXCEPT ![c] = word]
    /\ phase' = [phase EXCEPT ![c] = "done"]

SeenKey(k, t) == \E e \in log : e.key = k /\ e.at >= t - Window

\* Deliberate slips of the operators that follow them; nothing else uses them.
AppendedAgain(c) == log \cup {[key |-> key[c], call |-> c, when |-> when[c], at |-> at[c]]}

AppendedAtEventTime(c) ==   \* ingested_at taken from the event
    IF \E e \in log : e.key = key[c] THEN log
    ELSE log \cup {[key |-> key[c], call |-> c, when |-> when[c], at |-> when[c]]}

\* The log once c's event is in: a key already there makes it a no-op.
Appended(c) ==
    IF \E e \in log : e.key = key[c]
    THEN log
    ELSE log \cup {[key |-> key[c], call |-> c, when |-> when[c], at |-> at[c]]}

-----------------------------------------------------------------------------
\* A request with an event of the past or the present: late is legal.
Arrive(c) ==
    /\ phase[c] = "idle"
    /\ \E t \in 1..now : when' = [when EXCEPT ![c] = t]
    /\ at' = [at EXCEPT ![c] = now]
    /\ phase' = [phase EXCEPT ![c] = "arrived"]
    /\ UNCHANGED <<log, reply, now, faults>>

Check(c) ==
    /\ phase[c] = "arrived"
    /\ IF SeenKey(key[c], at[c])
       THEN Answer(c, "duplicate")
       ELSE phase' = [phase EXCEPT ![c] = "checked"] /\ UNCHANGED reply
    /\ UNCHANGED <<log, request, now, faults>>

CheckFails(c) ==
    /\ phase[c] = "arrived"
    /\ Fault
    /\ Answer(c, "error")
    /\ UNCHANGED <<log, request, now>>

Append(c) ==
    /\ phase[c] = "checked"
    /\ log' = Appended(c)
    /\ phase' = [phase EXCEPT ![c] = "appended"]
    /\ UNCHANGED <<request, reply, now, faults>>

AppendFailsButSaysYes(c) ==   \* slip: the error of AppendEvent is dropped
    /\ phase[c] = "checked"
    /\ Fault
    /\ Answer(c, "accepted")
    /\ UNCHANGED <<log, request, now>>

\* An error of the append: the row may have been written all the same.
AppendFails(c) ==
    /\ phase[c] = "checked"
    /\ Fault
    /\ log' \in {log, Appended(c)}
    /\ Answer(c, "error")
    /\ UNCHANGED <<request, now>>

Reply(c) ==
    /\ phase[c] = "appended"
    /\ Answer(c, "accepted")
    /\ UNCHANGED <<log, request, now, faults>>

Tick ==
    /\ now < MaxTime
    /\ now' = now + 1
    /\ UNCHANGED <<log, phase, request, reply, faults>>

Crash ==
    /\ Fault
    /\ phase' = [c \in Calls |-> IF phase[c] \in Running THEN "lost" ELSE phase[c]]
    /\ UNCHANGED <<log, request, reply, now>>

Next ==
    \/ \E c \in Calls : \/ Arrive(c) \/ Check(c) \/ CheckFails(c)
                        \/ Append(c) \/ AppendFails(c) \/ Reply(c)
    \/ Tick
    \/ Crash

Spec == Init /\ [][Next]_ivars
-----------------------------------------------------------------------------
TypeOK ==
    /\ log \subseteq Event
    /\ phase \in [Calls -> Phases]
    /\ when \in [Calls -> Nat]
    /\ at \in [Calls -> Nat]
    /\ reply \in [Calls -> Replies]
    /\ now \in Nat
    /\ faults \in Nat

\* However many retries of one key race past the check, or come back after the
\* window, one event is billed (memory.go:84-91, "the check-then-act race would
\* double-count and therefore double-bill").
OneEventPerKey == \A d, e \in log : d.key = e.key => d = e

\* A client that was told "accepted" or "duplicate" may stop retrying: an
\* event with its key is in the log (ingest.go, Accept; api.go, ingestEvent).
AnswersAreDurable ==
    \A c \in Calls :
       reply[c] \in {"accepted", "duplicate"} => \E e \in log : e.key = key[c]

\* The bill as of a past moment is settled once every call that sampled its
\* clock by then has ended: later calls, late events included, never show up
\* in it (engine.go, ComputeAsOf, which filters on the sampled clock).
AsOf(t) == {e \in log : e.at <= t}

AsOfSettlesStep ==
    \A t \in 1..now - 1 :
       (\A c \in Calls : at[c] <= t => phase[c] \notin {"arrived", "checked"})
          => AsOf(t)' = AsOf(t)

AsOfSettles == [][AsOfSettlesStep]_ivars

\* ingest.go:28, "AppendEvent durably stores an accepted event": a call that
\* was answered "accepted" has its own event in the log.
AcceptedIsRecorded ==
    \A c \in Calls : reply[c] = "accepted" => \E e \in log : e.call = c
=============================================================================
