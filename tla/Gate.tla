-------------------------------- MODULE Gate --------------------------------
(***************************************************************************)
(* The real-time gate beside the wallet.  A client asks whether a customer *)
(* may use a feature or spend an amount; the gate reads the entitlements,  *)
(* the events and the wallet one after the other, each at its own moment,  *)
(* reserves nothing and answers.  An allowed client serves its request and *)
(* posts one usage event, through the rate limiter of the ingest path.     *)
(* Every entitlement here is of one feature, every usage of one unit.      *)
(***************************************************************************)
EXTENDS Wallet, Sequences, SequencesExt

CONSTANTS
    Clients,        \* gated callers: each asks, serves, meters, asks again
    Payer,          \* the customer they serve
    Asks,           \* what they may ask: [feature |-> BOOLEAN, cost |-> Nat]
    GrantRequests,  \* the entitlements that may be asked for
    Workloads,      \* what the callers of a deployment do, chosen at the start:
                    \* their top-ups, their questions, and bounds on the
                    \* entitlements, the usage events and the clock
    Rps, Burst      \* the rate limiter

GrantRequest == [kind : {"boolean", "metered"}, limit : Nat,
                 dated : BOOLEAN, meterKnown : BOOLEAN, agent : BOOLEAN]

ASSUME GateAssumption ==
    /\ IsFiniteSet(Clients) /\ Clients # {}
    /\ Payer \in Customers
    /\ Asks \subseteq [feature : BOOLEAN, cost : Nat]
    /\ GrantRequests \subseteq GrantRequest
    /\ Workloads \subseteq [topUps : SUBSET TopUps, asks : SUBSET Asks,
                             maxGrants : Nat, maxEvents : Nat, maxTime : Nat]
    /\ Rps \in Nat /\ Burst \in Nat \ {0}

VARIABLES
    load,     \* this deployment's workload
    ents,     \* the feature's entitlements, oldest first
    events,   \* the times of the usage events, in the order they came
    at,       \* at[g]: where client g is
    ask,      \* ask[g]: its request
    grant,    \* grant[g]: the entitlement its gate works with
    before,   \* before[g]: usage and credit when it asked
    tokens, last,   \* the limiter's bucket
    now

cvars == <<at, ask, grant, before>>
gvars == <<wvars, load, ents, events, cvars, tokens, last, now>>

Entitlement == [kind : {"boolean", "metered"}, limit : Nat, counts : BOOLEAN]
NoGrant == [kind |-> "boolean", limit |-> 0, counts |-> FALSE]
NoAsk == [feature |-> FALSE, cost |-> 0]
Nothing == [used |-> 0, credit |-> 0]
Places == {"idle", "asked", "granted", "within", "allowed",
           "noGrant", "limit", "balance"}

\* Usage of an entitlement, counted from the log.  One without a period, or
\* whose meter does not exist, counts nothing.
Used(e) == IF e.counts THEN Len(events) ELSE 0
Remaining(e) == e.limit - Used(e)

GateInit ==
    /\ WalletInit
    /\ load \in Workloads
    /\ asked = load.topUps
    /\ ents = <<>>
    /\ events = <<>>
    /\ at = [g \in Clients |-> "idle"]
    /\ ask = [g \in Clients |-> NoAsk]
    /\ grant = [g \in Clients |-> NoGrant]
    /\ before = [g \in Clients |-> Nothing]
    /\ tokens = Burst
    /\ last = 0
    /\ now = 0

-----------------------------------------------------------------------------
\* POST /v1/entitlements takes the period as it is given, none included; the
\* agent's tool falls back on the current month.
DatedByAgent(r) == r.agent /\ r.kind = "metered"
Written(r) == [kind |-> r.kind, limit |-> IF DatedByAgent(r) \/ ~r.agent THEN r.limit ELSE 0,
               counts |-> r.meterKnown /\ (r.dated \/ DatedByAgent(r))]

\* Every creation is a row of its own, appended; none replaces another.
PutEntitlement(r) ==
    /\ Len(ents) < load.maxGrants
    /\ ents' = Append(ents, Written(r))
    /\ UNCHANGED <<wvars, load, events, cvars, tokens, last, now>>

\* The row a gate picks: the oldest in memory; Postgres orders by feature
\* only, so any.
Candidates == IF ents = <<>> THEN {}
              ELSE IF store = "memory" THEN {ents[1]} ELSE ToSet(ents)

\* Deliberate slips of the operators that follow them: nothing else uses them.
CoversMore(b, cost) == b > cost
Covers(b, cost) == b >= cost

OverByOne(e) == e.kind = "metered" /\ Used(e) > e.limit   \* without the unit asked for
Exceeds(e) == e.kind = "metered" /\ Used(e) + 1 > e.limit

Move(g, place) == at' = [at EXCEPT ![g] = place]

\* A request names a feature or a cost, or is refused before it reads anything.
Question(a) == a.feature \/ a.cost > 0

Ask(g) ==
    /\ at[g] = "idle"
    /\ \E a \in load.asks :
         /\ Question(a)
         /\ ask' = [ask EXCEPT ![g] = a]
         /\ Move(g, IF a.feature THEN "asked" ELSE "within")
    /\ before' = [before EXCEPT ![g] = [used |-> Len(events), credit |-> Credited(Payer)]]
    /\ UNCHANGED <<wvars, load, ents, events, grant, tokens, last, now>>

ReadEntitlement(g) ==
    /\ at[g] = "asked"
    /\ \/ /\ Candidates = {}
          /\ Move(g, "noGrant")
          /\ UNCHANGED grant
       \/ \E e \in Candidates :
            /\ grant' = [grant EXCEPT ![g] = e]
            /\ Move(g, "granted")
    /\ UNCHANGED <<wvars, load, ents, events, ask, before, tokens, last, now>>

\* An answer that allows stands when no cost was asked.
AfterUsage(g) == IF ask[g].cost = 0 THEN "allowed" ELSE "within"

ReadUsage(g) ==
    /\ at[g] = "granted"
    /\ Move(g, IF Exceeds(grant[g]) THEN "limit" ELSE AfterUsage(g))
    /\ UNCHANGED <<wvars, load, ents, events, ask, grant, before, tokens, last, now>>

ReadBalance(g) ==
    /\ at[g] = "within"
    /\ \E b \in Readings(Payer) : Move(g, IF Covers(b, ask[g].cost) THEN "allowed" ELSE "balance")
    /\ UNCHANGED <<wvars, load, ents, events, ask, grant, before, tokens, last, now>>

Forget(g) ==
    /\ Move(g, "idle")
    /\ ask' = [ask EXCEPT ![g] = NoAsk]
    /\ grant' = [grant EXCEPT ![g] = NoGrant]
    /\ before' = [before EXCEPT ![g] = Nothing]

Denied(g) ==
    /\ at[g] \in {"noGrant", "limit", "balance"}
    /\ Forget(g)
    /\ UNCHANGED <<wvars, load, ents, events, tokens, last, now>>

-----------------------------------------------------------------------------
Uncapped == tokens + (now - last) * Rps      \* the bucket without its depth
Refilled == IF tokens + (now - last) * Rps > Burst THEN Burst
            ELSE tokens + (now - last) * Rps

\* The event of an allowed request, one token of the bucket.
Record(g) ==
    /\ at[g] = "allowed" /\ Len(events) < load.maxEvents
    /\ last' = now
    /\ \/ /\ Refilled >= 1
          /\ tokens' = Refilled - 1
          /\ events' = Append(events, now)
          /\ Forget(g)
       \/ /\ Refilled < 1              \* 429: the client tries again later
          /\ tokens' = Refilled
          /\ UNCHANGED <<events, cvars>>
    /\ UNCHANGED <<wvars, load, ents, now>>

\* A client whose allowed request needs no metering any more.
GiveUp(g) ==
    /\ at[g] = "allowed"
    /\ Forget(g)
    /\ UNCHANGED <<wvars, load, ents, events, tokens, last, now>>

Tick ==
    /\ now < load.maxTime
    /\ now' = now + 1
    /\ UNCHANGED <<wvars, load, ents, events, cvars, tokens, last>>

Pay(c) == TopUpStep(c) /\ UNCHANGED <<load, ents, events, cvars, tokens, last, now>>
Serve(g) == \/ Ask(g) \/ ReadEntitlement(g) \/ ReadUsage(g) \/ ReadBalance(g)
            \/ Denied(g) \/ Record(g) \/ GiveUp(g)

GateNext == \/ \E c \in Calls : Pay(c)
            \/ \E g \in Clients : Serve(g)
            \/ \E r \in GrantRequests : PutEntitlement(r)
            \/ Tick

GateSpec == GateInit /\ [][GateNext]_gvars

-----------------------------------------------------------------------------
\* Types of the wallet, the entitlements and the clients.
GateTypeOK ==
    /\ req \in [Calls -> TopUps \cup {NoRequest}]
    /\ step \in [Calls -> Open \cup {"idle", "done"}]
    /\ row \in [Calls -> Calls] /\ fresh \subseteq Calls
    /\ \A w \in wallets : w.id \in Calls /\ w.customer \in Customers /\ w.balance \in Nat
    /\ \A t \in txns : t.key \in Keys \cup Calls /\ t.wallet \in Calls /\ t.amount \in Nat
    /\ reply \in [Calls -> {"none", "ok", "refused", "withheld", "error"}]
    /\ ents \in Seq(Entitlement) /\ events \in Seq(0..load.maxTime)
    /\ at \in [Clients -> Places] /\ ask \in [Clients -> Asks \cup {NoAsk}]
    /\ grant \in [Clients -> Entitlement]
    /\ tokens \in 0..Burst /\ last \in 0..now /\ now \in 0..load.maxTime

\* The balance of a wallet row is the sum of its ledger rows, and no key has
\* two of them: overlapping, repeated and half-failed top-ups never lose or
\* double a credit (TopUpWallet, "atomically and idempotently").
BalanceIsLedger ==
    /\ \A w \in wallets :
         w.balance = MapThenSumSet(LAMBDA t : t.amount, {t \in txns : t.wallet = w.id})
    /\ \A t, u \in txns : t.key = u.key => t = u

\* A top-up answered with success is in the ledger for good, in the caller's own
\* wallet unless another customer used its key: a retry that met an open
\* transaction on its key is not told of a credit that is then rolled back
\* (TopUpWallet, topupWallet).
AnswersHold ==
    \A c \in Calls : reply[c] = "ok" =>
        \E t \in txns :
            /\ t.key = KeyOf(c)
            /\ \/ \E w \in RowsOf(req[c].customer) : w.id = t.wallet
               \/ \E d \in Calls : /\ KeyOf(d) = KeyOf(c)
                                   /\ req[d].customer # req[c].customer

\* Whatever row a read of the balance picks, it shows all that was credited,
\* unless two top-ups of the customer were in flight together and each made a
\* row (Wallet and TopUpWallet: customer_id is not unique).
WholeBalance ==
    \A cu \in Customers :
        (\A p \in met : ~(\A c \in p : req[c].customer = cu)) =>
            Readings(cu) = {Credited(cu)}

\* A verdict of the gate was true at some moment of the call: an allowed use
\* fitted the limit and the balance, a refused one did not (engine.Gate reads
\* its sources one by one).  A split balance is left out.
VerdictWasTrue ==
    \A g \in Clients :
        /\ (at[g] = "allowed" /\ grant[g].kind = "metered" /\ grant[g].counts) =>
               before[g].used + 1 <= grant[g].limit
        /\ at[g] = "allowed" => Credited(Payer) >= ask[g].cost
        /\ (at[g] = "limit") => Used(grant[g]) + 1 > grant[g].limit
        /\ (at[g] = "balance" /\ met = {}) => before[g].credit < ask[g].cost

\* With n clients behind the gate an entitlement is overrun by n - 1 at most,
\* whatever they ask and however their calls overlap; one client alone never
\* overruns it.  Usage that no limit was ever read for is not counted.
OverrunBounded ==
    (/\ ents # <<>>
     /\ \A i \in DOMAIN ents : ents[i].kind = "metered" /\ ents[i].counts
     /\ \A a \in load.asks : a.feature)
        => \E i \in DOMAIN ents : Remaining(ents[i]) >= 1 - Cardinality(Clients)

\* In any stretch of time up to now the ingest path took no more events than
\* the bucket's depth and its refill (rateLimiter.allow).
RateBounded ==
    \A t \in 0..now :
        Cardinality({i \in DOMAIN events : events[i] >= t}) <= Burst + Rps * (now - t)
=============================================================================
