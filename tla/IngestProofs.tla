---------------------------- MODULE IngestProofs ----------------------------
(***************************************************************************)
(* Proofs about Ingest for every set of calls and keys, every window and   *)
(* every bound.                                                            *)
(*                                                                         *)
(* That answers are durable is not inductive: "accepted" is given one step *)
(* after the append, so the invariant also says what the log holds for a   *)
(* handler between the two.                                                *)
(***************************************************************************)
EXTENDS Ingest, TLAPS

InLog(c) == \E e \in log : e.key = key[c]

\* A handler past its append finds its key in the log.
AppendedIsLogged == \A c \in Calls : phase[c] = "appended" => InLog(c)

IngestInv ==
    /\ TypeOK
    /\ OneEventPerKey
    /\ AnswersAreDurable
    /\ AppendedIsLogged

\* A step that leaves all but the fault counter alone; the evaluation of the
\* alerts makes such steps too.
Aside == UNCHANGED <<log, phase, request, reply, now>> /\ faults' \in Nat

-----------------------------------------------------------------------------
(* What an append does to the log.                                         *)

\* Whatever the log was, after an append it holds the key, keeps what it had,
\* has at most the one new event of the call, and still one event a key.
LEMMA AppendedLog ==
    ASSUME IngestInv, NEW c \in Calls
    PROVE  /\ Appended(c) \subseteq Event
           /\ log \subseteq Appended(c)
           /\ \A e \in Appended(c) : e \in log \/ e.at = at[c]
           /\ \E e \in Appended(c) : e.key = key[c]
           /\ \A d, e \in Appended(c) : d.key = e.key => d = e
<1> DEFINE new == [key |-> key[c], call |-> c, when |-> when[c], at |-> at[c]]
<1>1. new \in Event
  BY IngestAssumption DEF IngestInv, TypeOK, Event
<1>2. CASE \E e \in log : e.key = key[c]
  BY <1>2 DEF Appended, IngestInv, TypeOK, OneEventPerKey
<1>3. CASE ~(\E e \in log : e.key = key[c])
  <2>1. Appended(c) = log \cup {new}
    BY <1>3 DEF Appended
  <2>2. new.key = key[c] /\ new.at = at[c]
    OBVIOUS
  <2>3. \A d, e \in log \cup {new} : d.key = e.key => d = e
    BY <1>3, <2>2 DEF IngestInv, OneEventPerKey
  <2> HIDE DEF new
  <2> QED
    BY <1>1, <2>1, <2>2, <2>3 DEF IngestInv, TypeOK
<1> QED
  BY <1>2, <1>3

-----------------------------------------------------------------------------
(* The invariant.                                                          *)

\* An empty log satisfies the invariant.
LEMMA IngestInit == Init => IngestInv
  BY DEF Init, IngestInv, TypeOK, Phases, Replies, Event, OneEventPerKey,
         AnswersAreDurable, AppendedIsLogged

\* The log stays as it is, and nobody is told or gets past an append whose key
\* is not in it.
LEMMA QuietIngestStep ==
    ASSUME IngestInv, TypeOK', UNCHANGED log,
           \A c \in Calls : reply'[c] \in {"accepted", "duplicate"} =>
               reply[c] = reply'[c] \/ InLog(c),
           \A c \in Calls : phase'[c] = "appended" => phase[c] = "appended"
    PROVE  IngestInv'
  BY DEF IngestInv, OneEventPerKey, AnswersAreDurable, AppendedIsLogged, InLog

\* The event of call c goes into the log, and at most c moves on.
LEMMA LoggedStep ==
    ASSUME IngestInv, TypeOK', NEW c \in Calls, log' = Appended(c),
           \A d \in Calls \ {c} : phase'[d] = phase[d] /\ reply'[d] = reply[d]
    PROVE  IngestInv'
<1>1. OneEventPerKey'
  BY AppendedLog DEF OneEventPerKey
<1>2. InLog(c)'
  BY AppendedLog DEF InLog
<1>3. AnswersAreDurable'
  <2> SUFFICES ASSUME NEW d \in Calls, reply'[d] \in {"accepted", "duplicate"}
               PROVE  InLog(d)'
    BY DEF AnswersAreDurable, InLog
  <2>1. CASE d = c
    BY <1>2, <2>1
  <2>2. CASE d # c
    BY <2>2, AppendedLog DEF IngestInv, AnswersAreDurable, InLog
  <2> QED
    BY <2>1, <2>2
<1>4. AppendedIsLogged'
  <2> SUFFICES ASSUME NEW d \in Calls, phase'[d] = "appended"
               PROVE  InLog(d)'
    BY DEF AppendedIsLogged
  <2>1. CASE d = c
    BY <1>2, <2>1
  <2>2. CASE d # c
    BY <2>2, AppendedLog DEF IngestInv, AppendedIsLogged, InLog
  <2> QED
    BY <2>1, <2>2
<1> QED
  BY <1>1, <1>3, <1>4 DEF IngestInv

\* Every step of ingest keeps the invariant.
LEMMA IngestNext ==
    ASSUME IngestInv, Next \/ Aside
    PROVE  IngestInv'
<1> USE DEF request
<1>0. TypeOK
  BY DEF IngestInv
<1>1. ASSUME NEW c \in Calls, Arrive(c) PROVE IngestInv'
  <2>1. TypeOK'
    BY <1>0, <1>1 DEF Arrive, TypeOK, Phases
  <2> QED
    BY <1>0, <1>1, <2>1, QuietIngestStep DEF Arrive, TypeOK
<1>2. ASSUME NEW c \in Calls, Check(c) PROVE IngestInv'
  <2>1. TypeOK'
    BY <1>0, <1>2 DEF Check, Answer, TypeOK, Phases, Replies
  <2>2. SeenKey(key[c], at[c]) => InLog(c)
    BY DEF SeenKey, InLog
  <2>3. \A d \in Calls : reply'[d] \in {"accepted", "duplicate"} =>
            reply[d] = reply'[d] \/ InLog(d)
    BY <1>0, <1>2, <2>2 DEF Check, Answer, TypeOK
  <2>4. \A d \in Calls : phase'[d] = "appended" => phase[d] = "appended"
    BY <1>0, <1>2 DEF Check, Answer, TypeOK
  <2>5. UNCHANGED log
    BY <1>2 DEF Check
  <2> QED
    BY <2>1, <2>3, <2>4, <2>5, QuietIngestStep
<1>3. ASSUME NEW c \in Calls, CheckFails(c) PROVE IngestInv'
  <2>1. TypeOK'
    BY <1>0, <1>3 DEF CheckFails, Fault, Answer, TypeOK, Phases, Replies
  <2> QED
    BY <1>0, <1>3, <2>1, QuietIngestStep DEF CheckFails, Answer, TypeOK
<1>4. ASSUME NEW c \in Calls, Append(c) PROVE IngestInv'
  <2>1. TypeOK'
    BY <1>0, <1>4, AppendedLog DEF Append, TypeOK, Phases
  <2> QED
    BY <1>0, <1>4, <2>1, LoggedStep DEF Append, TypeOK
<1>5. ASSUME NEW c \in Calls, AppendFails(c) PROVE IngestInv'
  <2>1. TypeOK'
    BY <1>0, <1>5, AppendedLog DEF AppendFails, Fault, Answer, TypeOK, Phases, Replies
  <2>2. CASE log' = log
    BY <1>0, <1>5, <2>1, <2>2, QuietIngestStep DEF AppendFails, Answer, TypeOK
  <2>3. CASE log' = Appended(c)
    BY <1>0, <1>5, <2>1, <2>3, LoggedStep DEF AppendFails, Answer, TypeOK
  <2> QED
    BY <1>5, <2>2, <2>3 DEF AppendFails
<1>6. ASSUME NEW c \in Calls, Reply(c) PROVE IngestInv'
  <2>1. TypeOK'
    BY <1>0, <1>6 DEF Reply, Answer, TypeOK, Phases, Replies
  <2>2. InLog(c)
    BY <1>6 DEF Reply, IngestInv, AppendedIsLogged
  <2> QED
    BY <1>0, <1>6, <2>1, <2>2, QuietIngestStep DEF Reply, Answer, TypeOK
<1>7. ASSUME Tick PROVE IngestInv'
  <2>1. TypeOK'
    BY <1>0, <1>7 DEF Tick, TypeOK
  <2> QED
    BY <1>7, <2>1, QuietIngestStep DEF Tick
<1>8. ASSUME Crash PROVE IngestInv'
  <2>1. TypeOK'
    BY <1>0, <1>8 DEF Crash, Fault, TypeOK, Phases
  <2> QED
    BY <1>0, <1>8, <2>1, QuietIngestStep DEF Crash, TypeOK
<1>9. ASSUME Aside PROVE IngestInv'
  <2>1. TypeOK'
    BY <1>0, <1>9 DEF Aside, TypeOK
  <2> QED
    BY <1>9, <2>1, QuietIngestStep DEF Aside
<1> QED
  BY <1>1, <1>2, <1>3, <1>4, <1>5, <1>6, <1>7, <1>8, <1>9 DEF Next

-----------------------------------------------------------------------------
(* The theorems.                                                           *)

\* IngestInv holds in every reachable state of ingest.
THEOREM IngestInvariant == Spec => []IngestInv
<1>1. IngestInv /\ [Next]_ivars => IngestInv'
  <2> SUFFICES ASSUME IngestInv, [Next]_ivars PROVE IngestInv'
    OBVIOUS
  <2>1. CASE Next
    BY <2>1, IngestNext
  <2>2. CASE UNCHANGED ivars
    BY <2>2, IngestNext DEF ivars, Aside, IngestInv, TypeOK
  <2> QED
    BY <2>1, <2>2
<1> QED
  BY <1>1, IngestInit, PTL DEF Spec

\* No number of retries, overlaps, expired windows, store errors or restarts
\* makes two events of one key (AppendEvent).
THEOREM OneEvent == Spec => []OneEventPerKey
<1>1. IngestInv => OneEventPerKey
  BY DEF IngestInv
<1> QED
  BY <1>1, IngestInvariant, PTL

\* Whoever was told "accepted" or "duplicate" finds the key in the log (Accept).
THEOREM AnswersDurable == Spec => []AnswersAreDurable
<1>1. IngestInv => AnswersAreDurable
  BY DEF IngestInv
<1> QED
  BY <1>1, IngestInvariant, PTL

\* Only an append of a call that sampled its clock by t changes the log as of t.
LEMMA AsOfStep ==
    ASSUME IngestInv, Next \/ Aside
    PROVE  AsOfSettlesStep
<1> SUFFICES ASSUME NEW t \in 1..now - 1,
                    \A c \in Calls : at[c] <= t => phase[c] \notin {"arrived", "checked"}
             PROVE  AsOf(t)' = AsOf(t)
  BY DEF AsOfSettlesStep
<1>1. CASE log' = log
  BY <1>1 DEF AsOf
<1>2. ASSUME NEW c \in Calls, phase[c] = "checked", log' = Appended(c)
      PROVE  AsOf(t)' = AsOf(t)
  <2>1. ~(at[c] <= t)
    BY <1>2
  <2>2. \A e \in log' : e \in log \/ ~(e.at <= t)
    BY <1>2, <2>1, AppendedLog
  <2>3. log \subseteq log'
    BY <1>2, AppendedLog
  <2> QED
    BY <2>2, <2>3 DEF AsOf
<1> QED
  BY <1>1, <1>2 DEF Next, Aside, Arrive, Check, CheckFails, Append, AppendFails,
                    Reply, Tick, Crash

\* A bill as of a past moment stays what it was (ComputeAsOf).
THEOREM AsOfIsSettled == Spec => AsOfSettles
<1>1. IngestInv /\ [Next]_ivars => [AsOfSettlesStep]_ivars
  BY AsOfStep
<1> QED
  BY <1>1, IngestInvariant, PTL DEF Spec, AsOfSettles
=============================================================================
