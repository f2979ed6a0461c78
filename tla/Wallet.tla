------------------------------- MODULE Wallet -------------------------------
(***************************************************************************)
(* The prepaid wallet: top-ups by the API and by the agent, and what a read*)
(* of the balance may show.  Under Postgres a top-up is one transaction of *)
(* several statements at READ COMMITTED: it finds or makes the wallet row, *)
(* inserts its ledger row unless its key is there, moves the balance if it *)
(* inserted, and commits.  A row or a key another open transaction holds   *)
(* makes the statement wait.  The memory store does the same in one step,  *)
(* under its lock.  Nothing in the code takes money out of a wallet.       *)
(***************************************************************************)
EXTENDS Integers, FiniteSets, FiniteSetsExt

CONSTANTS
    Calls,       \* top-up requests, each served once
    Customers,   \* the known customers
    Keys,        \* idempotency keys; NoKey stands for an empty one
    NoKey,
    Currencies,
    TopUps,      \* what requests may ask for, over all workloads
    Stores,      \* which stores: a subset of {"memory", "postgres"}
    Armed,       \* whether the agent may move money
    MaxCharge,   \* its cap per operation, 0 for none
    MaxFaults    \* bound: database errors, lost commits and restarts in all

TopUp == [customer : Customers, key : Keys \cup {NoKey}, amount : Int,
          currency : Currencies, agent : BOOLEAN]

ASSUME WalletAssumption ==
    /\ NoKey \notin Keys /\ Calls \cap Keys = {}
    /\ TopUps \subseteq TopUp
    /\ Stores \subseteq {"memory", "postgres"}
    /\ Armed \in BOOLEAN /\ MaxCharge \in Nat /\ MaxFaults \in Nat

VARIABLES
    store,    \* the store this process runs on
    asked,    \* the top-ups the callers of this deployment ask for
    req,      \* req[c]: the request c carries, once it arrived
    step,     \* step[c]: how far its transaction is
    row,      \* row[c]: the wallet row it works on; rows are named by their maker
    fresh,    \* the calls whose open transaction made the row
    wallets,  \* the committed wallet rows
    txns,     \* the committed ledger rows, wallet_transactions
    reply,    \* reply[c]: what the caller was told
    met,      \* the calls that were in flight together, in pairs
    faults

txvars == <<row, fresh>>
wvars  == <<store, asked, req, step, row, fresh, wallets, txns, reply, met, faults>>

Open == {"arrived", "found", "keyed", "skipped", "credited"}
NoRequest == [customer |-> CHOOSE cu \in Customers : TRUE, key |-> NoKey,
              amount |-> 0, currency |-> CHOOSE u \in Currencies : TRUE,
              agent |-> FALSE]

Live == {c \in Calls : step[c] \in Open}
\* The key a ledger row is stored under: one of its own when none was given.
KeyOf(c) == IF req[c].key = NoKey THEN c ELSE req[c].key
RowsOf(cu) == {w \in wallets : w.customer = cu}
Credited(cu) == MapThenSumSet(LAMBDA t : t.amount,
                    {t \in txns : \E w \in RowsOf(cu) : w.id = t.wallet})

\* What a read of the customer's wallet may answer: the balance of any one of
\* its rows, or zero without one.
Readings(cu) == IF RowsOf(cu) = {} THEN {0} ELSE {w.balance : w \in RowsOf(cu)}

-----------------------------------------------------------------------------
WalletInit ==
    /\ store \in Stores
    /\ req = [c \in Calls |-> NoRequest]
    /\ step = [c \in Calls |-> "idle"]
    /\ row = [c \in Calls |-> c]
    /\ fresh = {}
    /\ wallets = {}
    /\ txns = {}
    /\ reply = [c \in Calls |-> "none"]
    /\ met = {}
    /\ faults = 0

Fault == faults < MaxFaults /\ faults' = faults + 1

End(c, word) ==
    /\ step' = [step EXCEPT ![c] = "done"]
    /\ reply' = [reply EXCEPT ![c] = word]
    /\ fresh' = fresh \ {c}

\* Deliberate slips, here and below: nothing else uses these operators.
AnyAmount(r) == TRUE
Positive(r) == r.amount > 0

\* The operator's guard on the agent: nothing moves unarmed or above the cap.
OverCap(amount) == MaxCharge > 0 /\ amount > MaxCharge
Withheld(r) == r.agent /\ (~Armed \/ OverCap(r.amount))

\* A request comes in and is refused, previewed, or goes to the store.
Arrive(c) ==
    /\ step[c] = "idle"
    /\ \E r \in asked :
         /\ req' = [req EXCEPT ![c] = r]
         /\ \/ /\ ~Positive(r) /\ End(c, "refused") /\ UNCHANGED met
            \/ /\ Positive(r) /\ Withheld(r) /\ End(c, "withheld") /\ UNCHANGED met
            \/ /\ Positive(r) /\ ~Withheld(r)
               /\ step' = [step EXCEPT ![c] = "arrived"]
               /\ met' = met \cup {{c, d} : d \in Live}
               /\ UNCHANGED <<reply, fresh>>
    /\ UNCHANGED <<store, asked, row, wallets, txns, faults>>

-----------------------------------------------------------------------------
InItsCurrency(c) == {w \in RowsOf(req[c].customer) : w.currency = req[c].currency}
Mine(c) == RowsOf(req[c].customer)

\* Postgres.  The first statement finds a row of the customer, or makes one;
\* another currency than the row's ends the call.
Find(c) ==
    /\ store = "postgres" /\ step[c] = "arrived"
    /\ \/ /\ Mine(c) = {}
          /\ row' = [row EXCEPT ![c] = c]
          /\ fresh' = fresh \cup {c}
          /\ step' = [step EXCEPT ![c] = "found"]
          /\ UNCHANGED reply
       \/ \E w \in Mine(c) :
            /\ row' = [row EXCEPT ![c] = w.id]
            /\ \/ /\ w.currency = req[c].currency
                  /\ step' = [step EXCEPT ![c] = "found"]
                  /\ UNCHANGED <<reply, fresh>>
               \/ /\ w.currency # req[c].currency
                  /\ End(c, "error")
    /\ UNCHANGED <<store, asked, req, wallets, txns, met, faults>>

KeyTaken(c) == \E t \in txns : t.key = KeyOf(c)
KeyHeld(c) == \E d \in Calls \ {c} : step[d] \in {"keyed", "credited"} /\ KeyOf(d) = KeyOf(c)
RowHeld(c) == \E d \in Calls \ {c} : step[d] = "credited" /\ row[d] = row[c]

\* A key that is only held counts as taken: the insert does not wait.
InsertAtOnce(c) ==
    /\ step[c] = "found"
    /\ step' = [step EXCEPT ![c] = IF KeyTaken(c) \/ KeyHeld(c) THEN "skipped" ELSE "keyed"]
    /\ UNCHANGED <<store, asked, req, txvars, wallets, txns, reply, met, faults>>

\* INSERT ... ON CONFLICT DO NOTHING: waits for the open holder of the key.
InsertTxn(c) ==
    /\ step[c] = "found"
    /\ ~KeyHeld(c)
    /\ step' = [step EXCEPT ![c] = IF KeyTaken(c) THEN "skipped" ELSE "keyed"]
    /\ UNCHANGED <<store, asked, req, txvars, wallets, txns, reply, met, faults>>

\* Moves the balance of the row, which is locked until this call ends.
Credit(c) ==
    /\ step[c] = "keyed"
    /\ ~RowHeld(c)
    /\ step' = [step EXCEPT ![c] = "credited"]
    /\ UNCHANGED <<store, asked, req, txvars, wallets, txns, reply, met, faults>>

\* The rows as they are once the transaction of c is in.
Made(c) == IF c \in fresh
           THEN wallets \cup {[id |-> c, customer |-> req[c].customer,
                               currency |-> req[c].currency, balance |-> 0]}
           ELSE wallets

CreditedRows(ws, w, amount) ==
    {IF r.id = w THEN [r EXCEPT !.balance = @ + amount] ELSE r : r \in ws}

Row(c) == [key |-> KeyOf(c), wallet |-> row[c], amount |-> req[c].amount]

ApplyAlways(c) ==    \* the balance moves whether the key was new or not
    /\ wallets' = CreditedRows(Made(c), row[c], req[c].amount)
    /\ txns' = IF step[c] = "credited" THEN txns \cup {Row(c)} ELSE txns

Apply(c) ==
    \/ /\ step[c] = "credited"
       /\ wallets' = CreditedRows(Made(c), row[c], req[c].amount)
       /\ txns' = txns \cup {Row(c)}
    \/ /\ step[c] = "skipped"
       /\ wallets' = Made(c)
       /\ UNCHANGED txns

Commit(c) ==
    /\ Apply(c)
    /\ End(c, "ok")
    /\ UNCHANGED <<store, asked, req, row, met, faults>>

\* The answer of the commit is lost: it took effect, the caller gets an error.
CommitUnheard(c) ==
    /\ Fault
    /\ Apply(c)
    /\ End(c, "error")
    /\ UNCHANGED <<store, asked, req, row, met>>

\* A statement fails, or the process dies: the deferred rollback, or the
\* server, undoes what the transaction did.
RollBack(c) ==
    /\ store = "postgres" /\ step[c] \in Open
    /\ Fault
    /\ End(c, "error")
    /\ UNCHANGED <<store, asked, req, row, wallets, txns, met>>

-----------------------------------------------------------------------------
\* Memory: the whole top-up under the store's lock.  The key is looked up
\* before anything else, for all customers together; the currency after it.
TopUpMemory(c) ==
    /\ store = "memory" /\ step[c] = "arrived"
    /\ LET cu == req[c].customer
           mine == Mine(c)
           w == IF mine = {} THEN c ELSE (CHOOSE x \in mine : TRUE).id
       IN  \/ /\ KeyTaken(c)
              /\ End(c, "ok")
              /\ UNCHANGED <<wallets, txns, row>>
           \/ /\ ~KeyTaken(c)
              /\ \E x \in mine : x.currency # req[c].currency
              /\ End(c, "error")
              /\ UNCHANGED <<wallets, txns, row>>
           \/ /\ ~KeyTaken(c)
              /\ \A x \in mine : x.currency = req[c].currency
              /\ row' = [row EXCEPT ![c] = w]
              /\ wallets' = CreditedRows(
                     IF mine = {} THEN {[id |-> c, customer |-> cu,
                                         currency |-> req[c].currency, balance |-> 0]}
                                       \cup wallets
                     ELSE wallets, w, req[c].amount)
              /\ txns' = txns \cup {[key |-> KeyOf(c), wallet |-> w, amount |-> req[c].amount]}
              /\ End(c, "ok")
    /\ UNCHANGED <<store, asked, req, met, faults>>

TopUpStep(c) == \/ Arrive(c) \/ Find(c) \/ InsertTxn(c) \/ Credit(c) \/ Commit(c)
                \/ CommitUnheard(c) \/ RollBack(c) \/ TopUpMemory(c)
=============================================================================
