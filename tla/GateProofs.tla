------------------------------ MODULE GateProofs ------------------------------
(***************************************************************************)
(* Proofs about Gate and the wallet it composes with, for every set of     *)
(* calls, customers, keys and clients, either store, every workload, every *)
(* limiter and any number of faults.                                       *)
(***************************************************************************)
EXTENDS Gate, Sums

-----------------------------------------------------------------------------
(* Books: wallet rows and ledger rows that agree.                          *)

WalletRow == [id : Calls, customer : Customers, currency : Currencies, balance : Nat]
TxnRow    == [key : Keys \cup Calls, wallet : Calls, amount : Nat]

Of(ts, id) == {t \in ts : t.wallet = id}

Booked(ws, ts) ==
    /\ ws \subseteq WalletRow
    /\ ts \subseteq TxnRow /\ IsFiniteSet(ts)
    /\ \A v, w \in ws : v.id = w.id => v = w
    /\ \A t, u \in ts : t.key = u.key => t = u
    /\ \A t \in ts : \E w \in ws : w.id = t.wallet
    /\ \A w \in ws : w.balance = Amounts(Of(ts, w.id))

\* Any part of a ledger can be summed.
LEMMA PartsAreAmounted ==
    ASSUME NEW ws, NEW ts, Booked(ws, ts), NEW S \in SUBSET ts
    PROVE  Amounted(S)
BY FS_Subset DEF Booked, TxnRow, Amounted

\* A new row with nothing in it keeps the books.
LEMMA BookedNewRow ==
    ASSUME NEW ws, NEW ts, Booked(ws, ts),
           NEW r \in WalletRow, r.balance = 0, \A w \in ws : w.id # r.id
    PROVE  Booked(ws \cup {r}, ts)
<1>1. Of(ts, r.id) = {}
  BY DEF Booked, Of
<1>2. r.balance = Amounts(Of(ts, r.id))
  BY <1>1, AmountsEmpty
<1>3. QED  BY <1>2 DEF Booked

\* Crediting a row and writing the ledger row of it keeps the books.
LEMMA BookedCredit ==
    ASSUME NEW ws, NEW ts, Booked(ws, ts),
           NEW w \in ws, NEW t \in TxnRow, t.wallet = w.id,
           \A u \in ts : u.key # t.key
    PROVE  Booked(CreditedRows(ws, w.id, t.amount), ts \cup {t})
<1> DEFINE after(r) == IF r.id = w.id THEN [r EXCEPT !.balance = @ + t.amount] ELSE r
           rs == CreditedRows(ws, w.id, t.amount)
           us == ts \cup {t}
<1>1. ASSUME NEW r \in ws
      PROVE  /\ after(r) \in WalletRow
             /\ after(r).id = r.id
             /\ after(r).balance = IF r.id = w.id THEN r.balance + t.amount ELSE r.balance
  BY <1>1 DEF Booked, WalletRow, TxnRow
<1>2. rs = {after(r) : r \in ws}
  BY DEF CreditedRows
<1> HIDE DEF after, rs
<1>3. us \subseteq TxnRow /\ IsFiniteSet(us)
  BY FS_AddElement DEF Booked
<1>4. rs \subseteq WalletRow /\ \A p, q \in rs : p.id = q.id => p = q
  BY <1>1, <1>2 DEF Booked
<1>5. \A p, q \in us : p.key = q.key => p = q
  BY DEF Booked
<1>6. \A u \in us : \E r \in rs : r.id = u.wallet
  BY <1>1, <1>2 DEF Booked
<1>7. ASSUME NEW r \in ws
      PROVE  after(r).balance = Amounts(Of(us, after(r).id))
  <2>1. Of(ts, r.id) \subseteq ts /\ Amounted(Of(ts, r.id)) /\ r.balance = Amounts(Of(ts, r.id))
    BY PartsAreAmounted DEF Of, Booked
  <2>2. CASE r.id = w.id
    <3>1. Of(us, r.id) = Of(ts, r.id) \cup {t} /\ t \notin Of(ts, r.id) /\ t.amount \in Nat
      BY <2>2 DEF Of, TxnRow
    <3>2. Amounts(Of(us, r.id)) = Amounts(Of(ts, r.id)) + t.amount
      BY <2>1, <3>1, AmountsAdd
    <3>3. QED  BY <1>1, <2>1, <2>2, <3>2
  <2>3. CASE r.id # w.id
    <3>1. Of(us, r.id) = Of(ts, r.id)
      BY <2>3 DEF Of
    <3>2. QED  BY <1>1, <2>1, <2>3, <3>1
  <2>4. QED  BY <2>2, <2>3
<1>8. QED
  BY <1>2, <1>3, <1>4, <1>5, <1>6, <1>7 DEF Booked, rs

\* Crediting moves balances only.
LEMMA CreditedSame ==
    ASSUME NEW ws \in SUBSET WalletRow, NEW id, NEW n
    PROVE  /\ \A r \in ws : \E s \in CreditedRows(ws, id, n) :
                 s.id = r.id /\ s.customer = r.customer /\ s.currency = r.currency
           /\ \A s \in CreditedRows(ws, id, n) : \E r \in ws :
                 s.id = r.id /\ s.customer = r.customer /\ s.currency = r.currency
<1> DEFINE after(r) == IF r.id = id THEN [r EXCEPT !.balance = @ + n] ELSE r
<1>1. ASSUME NEW r \in ws
      PROVE  after(r).id = r.id /\ after(r).customer = r.customer /\ after(r).currency = r.currency
  BY <1>1 DEF WalletRow
<1>2. CreditedRows(ws, id, n) = {after(r) : r \in ws}
  BY DEF CreditedRows
<1> HIDE DEF after
<1>3. QED  BY <1>1, <1>2

-----------------------------------------------------------------------------
(* The invariant of the wallet.                                            *)

Holding == {"keyed", "credited"}
Working(c) == step[c] \in {"found", "keyed", "skipped", "credited"}

WalletTypes ==
    /\ asked \subseteq TopUps
    /\ req \in [Calls -> TopUps \cup {NoRequest}]
    /\ step \in [Calls -> Open \cup {"idle", "done"}]
    /\ row \in [Calls -> Calls] /\ fresh \subseteq Calls
    /\ reply \in [Calls -> {"none", "ok", "refused", "withheld", "error"}]

\* What a transaction in progress may rely on: its row is there or is its own,
\* the key it holds is nobody else's, the key it skipped is in the ledger.
CallSound(c) ==
    /\ step[c] \in Open => req[c] \in TopUps /\ req[c].amount > 0
    /\ c \in fresh => Working(c) /\ row[c] = c
    /\ Working(c) => /\ store = "postgres"
                     /\ \/ c \in fresh
                        \/ \E w \in wallets : w.id = row[c] /\ w.customer = req[c].customer
    /\ step[c] \in Holding => ~KeyTaken(c) /\ ~KeyHeld(c)
    /\ step[c] = "skipped" \/ reply[c] = "ok" => KeyTaken(c)
    /\ reply[c] # "none" => step[c] = "done"

\* Every ledger row is that of a call that is done, in a row of its customer.
LedgerSound ==
    /\ \A w \in wallets : step[w.id] = "done"
    /\ \A t \in txns : \E d \in Calls, w \in wallets :
          step[d] = "done" /\ KeyOf(d) = t.key /\ w.id = t.wallet /\ w.customer = req[d].customer

\* No two calls of the customer were in flight together.
Apart(cu) == \A p \in met : ~(\A c \in p : req[c].customer = cu)

\* Whoever is in flight together has met; a customer whose calls never met has
\* one row at most, and none while a call is about to make it.
MeetingsSound ==
    /\ \A p \in met : \A c \in p : c \in Calls /\ step[c] # "idle"
    /\ \A c, d \in Live : c # d => {c, d} \in met
    /\ \A cu \in Customers : Apart(cu) =>
          /\ \A v, w \in RowsOf(cu) : v = w
          /\ \A c \in fresh : req[c].customer = cu => RowsOf(cu) = {}

WalletInv ==
    /\ WalletTypes
    /\ Booked(wallets, txns)
    /\ \A c \in Calls : CallSound(c)
    /\ LedgerSound
    /\ MeetingsSound

-----------------------------------------------------------------------------
(* What every step of a call does to the rest of the wallet.               *)

SameRow(v, w) == v.id = w.id /\ v.customer = w.customer

\* A row, or a ledger row, appears only as its maker is done, and a key is
\* taken or held only if it is free.
Moves(c) ==
    /\ step[c] # "done" /\ step'[c] # "idle" /\ store' = store
    /\ step[c] # "idle" => req'[c] = req[c]
    /\ \A d \in Calls \ {c} :
          /\ req'[d] = req[d] /\ step'[d] = step[d] /\ row'[d] = row[d]
          /\ reply'[d] = reply[d] /\ (d \in fresh' <=> d \in fresh)
    /\ met' = IF step'[c] \in Open /\ step[c] \notin Open
              THEN met \cup {{c, d} : d \in Live} ELSE met
    /\ \A w \in wallets : \E v \in wallets' : SameRow(v, w)
    /\ \A v \in wallets' :
          \/ \E w \in wallets : SameRow(v, w)
          \/ /\ v.id = c /\ v.customer = req[c].customer
             /\ step[c] \in Open /\ step'[c] = "done"
             /\ c \in fresh \/ Mine(c) = {}
    /\ txns \subseteq txns'
    /\ \A t \in txns' \ txns :
          /\ t.key = KeyOf(c) /\ step[c] \in Open /\ step'[c] = "done"
          /\ \A d \in Calls \ {c} : step[d] \in Holding => KeyOf(d) # KeyOf(c)
          /\ \E w \in wallets' : w.id = t.wallet /\ w.customer = req[c].customer
    /\ step'[c] \in Holding => step[c] # "idle" /\
          \A d \in Calls \ {c} : step[d] \in Holding => KeyOf(d) # KeyOf(c)
    /\ c \in fresh' => c \in fresh \/ (Mine(c) = {} /\ wallets' = wallets)
    /\ c \in fresh' => step[c] # "idle" /\ step'[c] \in Open

\* The other calls can go on relying on what they did.
LEMMA OthersKept ==
    ASSUME WalletInv, NEW c \in Calls, Moves(c), WalletTypes', NEW d \in Calls \ {c}
    PROVE  CallSound(d)'
<1>1. CallSound(d)
  BY DEF WalletInv
<1>2. /\ req'[d] = req[d] /\ step'[d] = step[d] /\ row'[d] = row[d] /\ store' = store
      /\ reply'[d] = reply[d] /\ (d \in fresh' <=> d \in fresh)
      /\ KeyOf(d)' = KeyOf(d)
  BY DEF Moves, KeyOf
<1>3. (step[d] \in Open => req[d] \in TopUps /\ req[d].amount > 0)'
  BY <1>1, <1>2 DEF CallSound
<1>4. (d \in fresh => Working(d) /\ row[d] = d)'
  BY <1>1, <1>2 DEF CallSound, Working
<1>5. (Working(d) => /\ store = "postgres"
                     /\ \/ d \in fresh
                        \/ \E w \in wallets : w.id = row[d] /\ w.customer = req[d].customer)'
  <2> SUFFICES ASSUME Working(d), d \notin fresh
               PROVE  \E w \in wallets' : w.id = row[d] /\ w.customer = req[d].customer
    BY <1>1, <1>2 DEF CallSound, Working
  <2>1. PICK w \in wallets : w.id = row[d] /\ w.customer = req[d].customer
    BY <1>1 DEF CallSound
  <2>2. QED  BY <2>1 DEF Moves, SameRow
<1>6. (step[d] \in Holding => ~KeyTaken(d) /\ ~KeyHeld(d))'
  <2> SUFFICES ASSUME step[d] \in Holding PROVE ~KeyTaken(d)' /\ ~KeyHeld(d)'
    BY <1>2 DEF Holding
  <2>1. ~KeyTaken(d) /\ ~KeyHeld(d)
    BY <1>1 DEF CallSound
  <2>2. ~KeyTaken(d)'
    BY <1>2, <2>1 DEF Moves, KeyTaken
  <2>3. ASSUME NEW e \in Calls \ {d}, step'[e] \in Holding, KeyOf(e)' = KeyOf(d)
        PROVE  FALSE
    <3>1. CASE e = c
      <4>1. KeyOf(c)' = KeyOf(c) \/ step[c] = "idle"
        BY DEF Moves, KeyOf
      <4>2. step'[c] \in Open /\ KeyOf(d) # KeyOf(c)
        BY <2>3, <3>1 DEF Moves, Open, Holding
      <4>3. step[c] # "idle"
        BY <2>3, <3>1 DEF Moves
      <4>4. QED  BY <2>3, <3>1, <4>1, <4>2, <4>3
    <3>2. CASE e # c
      <4>1. step[e] \in Holding /\ KeyOf(e) = KeyOf(d)
        BY <2>3, <3>2 DEF Moves, KeyOf
      <4>2. QED  BY <2>1, <4>1 DEF KeyHeld, Holding
    <3>3. QED  BY <3>1, <3>2
  <2>4. QED  BY <1>2, <2>2, <2>3 DEF KeyHeld, Holding
<1>7. (step[d] = "skipped" \/ reply[d] = "ok" => KeyTaken(d))'
  BY <1>1, <1>2 DEF CallSound, KeyTaken, Moves
<1>8. (reply[d] # "none" => step[d] = "done")'
  BY <1>1, <1>2 DEF CallSound
<1>9. QED  BY <1>3, <1>4, <1>5, <1>6, <1>7, <1>8 DEF CallSound

\* Ledger rows and wallet rows are still those of calls that are done.
LEMMA LedgerKept ==
    ASSUME WalletInv, NEW c \in Calls, Moves(c), WalletTypes'
    PROVE  LedgerSound'
<1>1. LedgerSound /\ Booked(wallets, txns) /\ CallSound(c)
  BY DEF WalletInv
<1>2. ASSUME NEW d \in Calls, step[d] = "done"
      PROVE  step'[d] = "done" /\ req'[d] = req[d] /\ KeyOf(d)' = KeyOf(d)
  BY <1>2 DEF Moves, KeyOf
<1>3. ASSUME NEW v \in wallets'
      PROVE  step'[v.id] = "done"
  <2>1. CASE \E w \in wallets : SameRow(v, w)
    BY <1>1, <1>2, <2>1 DEF LedgerSound, SameRow, Booked, WalletRow
  <2>2. QED  BY <2>1 DEF Moves
<1>4. ASSUME NEW t \in txns'
      PROVE  \E d \in Calls, w \in wallets' :
                /\ step'[d] = "done" /\ KeyOf(d)' = t.key
                /\ w.id = t.wallet /\ w.customer = req'[d].customer
  <2>1. CASE t \in txns
    <3>1. PICK d \in Calls, w \in wallets :
             step[d] = "done" /\ KeyOf(d) = t.key /\ w.id = t.wallet /\ w.customer = req[d].customer
      BY <1>1, <2>1 DEF LedgerSound
    <3>2. PICK v \in wallets' : SameRow(v, w)
      BY DEF Moves
    <3>3. QED  BY <1>2, <3>1, <3>2 DEF SameRow
  <2>2. CASE t \notin txns
    <3>1. /\ t.key = KeyOf(c) /\ step'[c] = "done" /\ step[c] \in Open
          /\ \E w \in wallets' : w.id = t.wallet /\ w.customer = req[c].customer
      BY <2>2 DEF Moves
    <3>2. req'[c] = req[c] /\ KeyOf(c)' = KeyOf(c)
      BY <3>1 DEF Moves, KeyOf, Open
    <3>3. QED  BY <3>1, <3>2
  <2>3. QED  BY <2>1, <2>2
<1>5. QED  BY <1>3, <1>4 DEF LedgerSound

\* A customer apart now was apart before.
LEMMA ApartBefore ==
    ASSUME WalletInv, NEW c \in Calls, Moves(c), NEW cu, Apart(cu)'
    PROVE  Apart(cu)
<1> SUFFICES ASSUME NEW p \in met, \A d \in p : req[d].customer = cu
             PROVE  FALSE
  BY DEF Apart
<1>1. p \in met'
  BY DEF Moves
<1>2. ASSUME NEW d \in p
      PROVE  req'[d] = req[d]
  BY DEF WalletInv, MeetingsSound, Moves
<1>3. QED  BY <1>1, <1>2 DEF Apart

\* What is known of calls that met, and of customers whose calls never did,
\* is kept.
LEMMA MeetingsKept ==
    ASSUME WalletInv, NEW c \in Calls, Moves(c), WalletTypes', Booked(wallets, txns)'
    PROVE  MeetingsSound'
<1>1. WalletTypes /\ MeetingsSound /\ Booked(wallets, txns) /\ CallSound(c)
  BY DEF WalletInv
<1>2. ASSUME NEW p \in met', NEW d \in p
      PROVE  d \in Calls /\ step'[d] # "idle"
  <2>1. CASE p \in met
    BY <1>1, <2>1 DEF MeetingsSound, Moves
  <2>2. CASE p \notin met
    <3>1. PICK e \in Live : p = {c, e}
      BY <2>2 DEF Moves
    <3>2. QED  BY <3>1 DEF Moves, Live, Open
  <2>3. QED  BY <2>1, <2>2
<1>3. ASSUME NEW d \in Live', NEW e \in Live', d # e
      PROVE  {d, e} \in met'
  <2>1. d \in Calls /\ e \in Calls /\ step'[d] \in Open /\ step'[e] \in Open
    BY DEF Live
  <2>2. CASE d \in Live /\ e \in Live
    BY <1>1, <1>3, <2>2 DEF MeetingsSound, Moves
  <2>3. CASE d \notin Live
    <3>1. d = c /\ e \in Live
      BY <1>3, <2>1, <2>3 DEF Live, Moves
    <3>2. QED  BY <2>1, <2>3, <3>1 DEF Moves, Live
  <2>4. CASE e \notin Live
    <3>1. e = c /\ d \in Live
      BY <1>3, <2>1, <2>4 DEF Live, Moves
    <3>2. {d, e} = {c, d}
      BY <3>1
    <3>3. QED  BY <2>1, <2>4, <3>1, <3>2 DEF Moves, Live
  <2>5. QED  BY <2>2, <2>3, <2>4
<1>4. ASSUME NEW cu \in Customers, Apart(cu)'
      PROVE  /\ \A v, w \in RowsOf(cu)' : v = w
             /\ \A d \in fresh' : req'[d].customer = cu => RowsOf(cu)' = {}
  <2>1. /\ Apart(cu)
        /\ \A v, w \in RowsOf(cu) : v = w
        /\ \A d \in fresh : req[d].customer = cu => RowsOf(cu) = {}
    BY <1>1, <1>4, ApartBefore DEF MeetingsSound
  <2>2. ASSUME NEW v \in RowsOf(cu)'
        PROVE  \/ \E w \in RowsOf(cu) : v.id = w.id
               \/ v.id = c /\ req[c].customer = cu /\ step[c] \in Open /\ RowsOf(cu) = {}
    <3>1. v \in wallets' /\ v.customer = cu
      BY DEF RowsOf
    <3>2. CASE \E w \in wallets : SameRow(v, w)
      BY <3>1, <3>2 DEF RowsOf, SameRow
    <3>3. CASE /\ v.id = c /\ v.customer = req[c].customer /\ step[c] \in Open
               /\ c \in fresh \/ Mine(c) = {}
      BY <2>1, <3>1, <3>3 DEF Mine
    <3>4. QED  BY <3>1, <3>2, <3>3 DEF Moves
  <2>3. \A v, w \in RowsOf(cu)' : v.id = w.id
    BY <2>1, <2>2
  <2>4. \A v, w \in RowsOf(cu)' : v = w
    BY <2>3 DEF Booked, RowsOf
  <2>5. ASSUME NEW d \in fresh', req'[d].customer = cu, RowsOf(cu)' # {}
        PROVE  FALSE
    <3>1. d \in Calls /\ step'[d] \in Open /\ req'[d] = req[d]
      <4>1. d \in Calls
        BY DEF WalletTypes
      <4>2. CASE d = c
        BY <4>2 DEF Moves
      <4>3. CASE d # c
        <5>1. CallSound(d) /\ d \in fresh /\ step'[d] = step[d] /\ req'[d] = req[d]
          BY <4>1, <4>3 DEF Moves, WalletInv
        <5>2. QED  BY <4>1, <5>1 DEF CallSound, Working, Open
      <4>4. QED  BY <4>2, <4>3
    <3>2. RowsOf(cu) = {}
      BY <2>1, <2>5, <3>1 DEF Moves, Mine
    <3>3. PICK v \in RowsOf(cu)' : TRUE
      BY <2>5
    <3>4. v.id = c /\ req[c].customer = cu /\ step[c] \in Open
      BY <2>2, <3>2, <3>3
    <3>5. v \in wallets' /\ ~\E w \in wallets : SameRow(v, w)
      BY <3>2, <3>3 DEF RowsOf, SameRow
    <3>6. step'[c] = "done"
      BY <3>5 DEF Moves
    <3>7. d # c /\ d \in Live /\ c \in Live
      BY <3>1, <3>4, <3>6 DEF Moves, Live, Open
    <3>8. {c, d} \in met
      BY <1>1, <3>7 DEF MeetingsSound
    <3>9. QED  BY <2>1, <2>5, <3>1, <3>4, <3>8 DEF Apart
  <2>6. QED  BY <2>4, <2>5
<1>5. QED  BY <1>2, <1>3, <1>4 DEF MeetingsSound

\* Nothing a step of the wallet does takes a row, a ledger row or a meeting away.
WalletGrows ==
    /\ txns \subseteq txns' /\ met \subseteq met'
    /\ \A w \in wallets : \E v \in wallets' : SameRow(v, w)

\* A step of one call keeps the invariant if it keeps the books and leaves the
\* call itself sound.
LEMMA WalletMoves ==
    ASSUME WalletInv, NEW c \in Calls, Moves(c), WalletTypes',
           Booked(wallets, txns)', CallSound(c)'
    PROVE  WalletInv' /\ WalletGrows
<1>1. \A d \in Calls : CallSound(d)'
  BY OthersKept
<1>2. LedgerSound' /\ MeetingsSound'
  BY LedgerKept, MeetingsKept
<1>3. WalletGrows
  BY DEF Moves, WalletGrows
<1>4. QED  BY <1>1, <1>2, <1>3 DEF WalletInv

-----------------------------------------------------------------------------
(* The steps of a call.                                                    *)

\* A call whose step is not its last writes no row and takes no key.
LEMMA ArriveStep ==
    ASSUME WalletInv, NEW c \in Calls, Arrive(c)
    PROVE  WalletInv' /\ WalletGrows
<1>1. WalletTypes /\ Booked(wallets, txns) /\ CallSound(c)
  BY DEF WalletInv
<1>2. PICK r \in asked : req' = [req EXCEPT ![c] = r] /\
         \/ /\ step' = [step EXCEPT ![c] = "done"]
            /\ \E word \in {"refused", "withheld"} : reply' = [reply EXCEPT ![c] = word]
            /\ fresh' = fresh \ {c} /\ met' = met
         \/ /\ r.amount > 0
            /\ step' = [step EXCEPT ![c] = "arrived"]
            /\ met' = met \cup {{c, d} : d \in Live}
            /\ UNCHANGED <<reply, fresh>>
  BY DEF Arrive, End, Positive
<1>3. step[c] = "idle" /\ UNCHANGED <<store, asked, row, wallets, txns, faults>>
  BY DEF Arrive
<1>4. c \notin fresh /\ reply[c] = "none" /\ r \in TopUps
  BY <1>1, <1>3 DEF CallSound, Working, WalletTypes
<1>5. WalletTypes'
  BY <1>1, <1>2, <1>3, <1>4 DEF WalletTypes, Open
<1>6. Moves(c)
  BY <1>1, <1>2, <1>3, <1>4 DEF WalletTypes, Moves, SameRow, Open, Holding
<1>7. CallSound(c)'
  BY <1>1, <1>2, <1>3, <1>4 DEF WalletTypes, CallSound, Working, Open, Holding
<1>8. QED  BY <1>1, <1>3, <1>5, <1>6, <1>7, WalletMoves

\* The first statement: the row found is the customer's own.
LEMMA FindStep ==
    ASSUME WalletInv, NEW c \in Calls, Find(c)
    PROVE  WalletInv' /\ WalletGrows
<1>1. WalletTypes /\ Booked(wallets, txns) /\ CallSound(c)
  BY DEF WalletInv
<1>2. /\ store = "postgres" /\ step[c] = "arrived"
      /\ UNCHANGED <<store, asked, req, wallets, txns, met, faults>>
  BY DEF Find
<1>3. c \notin fresh /\ reply[c] = "none"
  BY <1>1, <1>2 DEF CallSound, Working
<1>4. CASE /\ Mine(c) = {}
           /\ row' = [row EXCEPT ![c] = c] /\ fresh' = fresh \cup {c}
           /\ step' = [step EXCEPT ![c] = "found"] /\ UNCHANGED reply
  <2>1. WalletTypes'
    BY <1>1, <1>2, <1>4 DEF WalletTypes, Open
  <2>2. Moves(c)
    BY <1>1, <1>2, <1>4 DEF WalletTypes, Moves, SameRow, Open, Holding
  <2>3. CallSound(c)'
    BY <1>1, <1>2, <1>3, <1>4 DEF WalletTypes, CallSound, Working, Open, Holding
  <2>4. QED  BY <1>1, <1>2, <2>1, <2>2, <2>3, WalletMoves
<1>5. ASSUME NEW w \in Mine(c), row' = [row EXCEPT ![c] = w.id],
             \/ step' = [step EXCEPT ![c] = "found"] /\ UNCHANGED <<reply, fresh>>
             \/ End(c, "error")
      PROVE  WalletInv' /\ WalletGrows
  <2>1. w \in wallets /\ w.customer = req[c].customer /\ w.id \in Calls
    BY <1>1 DEF Mine, RowsOf, Booked, WalletRow
  <2>2. WalletTypes'
    BY <1>1, <1>2, <1>5, <2>1 DEF WalletTypes, Open, End
  <2>3. Moves(c)
    BY <1>1, <1>2, <1>3, <1>5 DEF WalletTypes, Moves, SameRow, Open, Holding, End
  <2>4. CallSound(c)'
    BY <1>1, <1>2, <1>3, <1>5, <2>1
       DEF WalletTypes, CallSound, Working, Open, Holding, End, KeyTaken, KeyOf
  <2>5. QED  BY <1>1, <1>2, <2>2, <2>3, <2>4, WalletMoves
<1>6. QED
  BY <1>4, <1>5 DEF Find

\* The insert takes a key that is neither in the ledger nor held.
LEMMA InsertStep ==
    ASSUME WalletInv, NEW c \in Calls, InsertTxn(c)
    PROVE  WalletInv' /\ WalletGrows
<1>1. WalletTypes /\ Booked(wallets, txns) /\ CallSound(c)
  BY DEF WalletInv
<1>2. /\ step[c] = "found" /\ ~KeyHeld(c)
      /\ step' = [step EXCEPT ![c] = IF KeyTaken(c) THEN "skipped" ELSE "keyed"]
      /\ UNCHANGED <<store, asked, req, row, fresh, wallets, txns, reply, met, faults>>
  BY DEF InsertTxn, txvars
<1>3. WalletTypes'
  BY <1>1, <1>2 DEF WalletTypes, Open
<1>4. Moves(c)
  BY <1>1, <1>2 DEF WalletTypes, Moves, SameRow, Open, Holding, KeyHeld
<1>5. CallSound(c)'
  <2>1. KeyTaken(c)' = KeyTaken(c) /\ (KeyHeld(c)' => KeyHeld(c))
    BY <1>1, <1>2 DEF WalletTypes, KeyTaken, KeyHeld, KeyOf
  <2>2. QED
    BY <1>1, <1>2, <2>1 DEF WalletTypes, CallSound, Working, Open, Holding
<1>6. QED  BY <1>1, <1>2, <1>3, <1>4, <1>5, WalletMoves

\* The update of the balance inside the transaction.
LEMMA CreditStep ==
    ASSUME WalletInv, NEW c \in Calls, Credit(c)
    PROVE  WalletInv' /\ WalletGrows
<1>1. WalletTypes /\ Booked(wallets, txns) /\ CallSound(c)
  BY DEF WalletInv
<1>2. /\ step[c] = "keyed"
      /\ step' = [step EXCEPT ![c] = "credited"]
      /\ UNCHANGED <<store, asked, req, row, fresh, wallets, txns, reply, met, faults>>
  BY DEF Credit, txvars
<1>3. WalletTypes'
  BY <1>1, <1>2 DEF WalletTypes, Open
<1>4. ~KeyTaken(c) /\ ~KeyHeld(c)
  BY <1>1, <1>2 DEF CallSound, Holding
<1>5. Moves(c)
  BY <1>1, <1>2, <1>4 DEF WalletTypes, Moves, SameRow, Open, Holding, KeyHeld
<1>6. CallSound(c)'
  <2>1. KeyTaken(c)' = KeyTaken(c) /\ (KeyHeld(c)' => KeyHeld(c))
    BY <1>1, <1>2 DEF WalletTypes, KeyTaken, KeyHeld, KeyOf
  <2>2. QED
    BY <1>1, <1>2, <1>4, <2>1 DEF WalletTypes, CallSound, Working, Open, Holding
<1>7. QED  BY <1>1, <1>2, <1>3, <1>5, <1>6, WalletMoves

\* The row a call made is nobody else's, and the rows with it keep the books.
LEMMA MadeIsBooked ==
    ASSUME WalletInv, NEW c \in Calls, Working(c)
    PROVE  /\ Booked(Made(c), txns)
           /\ \A w \in wallets : w \in Made(c)
           /\ \A v \in Made(c) : v \in wallets \/ (v.id = c /\ v.customer = req[c].customer /\ c \in fresh)
           /\ \E w \in Made(c) : w.id = row[c] /\ w.customer = req[c].customer
<1>1. WalletTypes /\ Booked(wallets, txns) /\ CallSound(c) /\ LedgerSound
  BY DEF WalletInv
<1> DEFINE r == [id |-> c, customer |-> req[c].customer,
                 currency |-> req[c].currency, balance |-> 0]
<1>2. CASE c \in fresh
  <2>1. req[c] \in TopUp
    BY <1>1, WalletAssumption DEF CallSound, Working, Open
  <2>2. r \in WalletRow /\ r.balance = 0
    BY <2>1 DEF TopUp, WalletRow
  <2>3. \A w \in wallets : w.id # r.id
    BY <1>1 DEF LedgerSound, Working
  <2>4. Made(c) = wallets \cup {r}
    BY <1>2 DEF Made
  <2>5. r.id = c /\ r.customer = req[c].customer /\ row[c] = c
    BY <1>1, <1>2 DEF CallSound
  <2> HIDE DEF r
  <2>6. QED  BY <1>1, <1>2, <2>2, <2>3, <2>4, <2>5, BookedNewRow
<1>3. CASE c \notin fresh
  BY <1>1, <1>3 DEF Made, CallSound
<1>4. QED  BY <1>2, <1>3

\* The transaction is in, whatever its caller hears: a credit is in the row
\* and in the ledger, a skipped one was there.
LEMMA ApplyStep ==
    ASSUME WalletInv, NEW c \in Calls, Apply(c),
           End(c, "ok") \/ End(c, "error"),
           UNCHANGED <<store, asked, req, row, met>>
    PROVE  WalletInv' /\ WalletGrows
<1>1. WalletTypes /\ Booked(wallets, txns) /\ CallSound(c)
  BY DEF WalletInv
<1>2. /\ step[c] \in {"skipped", "credited"} /\ step[c] \in Open /\ Working(c)
      /\ req[c] \in TopUps /\ req[c].amount > 0 /\ req[c] \in TopUp
  BY <1>1, WalletAssumption DEF Apply, Working, CallSound, Open
<1>3. /\ Booked(Made(c), txns)
      /\ \A w \in wallets : w \in Made(c)
      /\ \A v \in Made(c) : v \in wallets \/ (v.id = c /\ v.customer = req[c].customer /\ c \in fresh)
  BY <1>2, MadeIsBooked
<1>4. PICK w \in Made(c) : w.id = row[c] /\ w.customer = req[c].customer
  BY <1>2, MadeIsBooked
<1>5. /\ WalletTypes' /\ step'[c] = "done" /\ c \notin fresh' /\ reply'[c] \in {"ok", "error"}
      /\ \A d \in Calls \ {c} : /\ step'[d] = step[d] /\ reply'[d] = reply[d]
                                /\ (d \in fresh' <=> d \in fresh)
  BY <1>1 DEF WalletTypes, End
<1>6. KeyOf(c) \in Keys \cup Calls /\ KeyOf(c)' = KeyOf(c)
  BY <1>2 DEF KeyOf, TopUp
<1>7. CASE step[c] = "credited"
  <2> DEFINE t == Row(c)
  <2>1. wallets' = CreditedRows(Made(c), w.id, t.amount) /\ txns' = txns \cup {t}
    BY <1>4, <1>7 DEF Apply, Row
  <2>2. t \in TxnRow /\ t.wallet = w.id /\ t.key = KeyOf(c)
    BY <1>1, <1>2, <1>4, <1>6 DEF Row, TxnRow, WalletTypes, TopUp
  <2>3. \A u \in txns : u.key # t.key
    BY <1>1, <1>7, <2>2 DEF CallSound, Holding, KeyTaken
  <2> HIDE DEF t
  <2>4. Booked(wallets, txns)'
    BY <1>3, <2>1, <2>2, <2>3, BookedCredit
  <2>5. /\ \A r \in Made(c) : \E s \in wallets' : s.id = r.id /\ s.customer = r.customer
        /\ \A s \in wallets' : \E r \in Made(c) : s.id = r.id /\ s.customer = r.customer
    BY <1>3, <2>1, CreditedSame DEF Booked
  <2>6. \A d \in Calls \ {c} : step[d] \in Holding => KeyOf(d) # KeyOf(c)
    BY <1>1, <1>7 DEF CallSound, Holding, KeyHeld
  <2>7. Moves(c)
    <3>1. \A v \in wallets : \E s \in wallets' : SameRow(s, v)
      BY <1>3, <2>5 DEF SameRow
    <3>2. \A v \in wallets' : \/ \E r \in wallets : SameRow(v, r)
                              \/ v.id = c /\ v.customer = req[c].customer /\ c \in fresh
      BY <1>3, <2>5 DEF SameRow
    <3>3. \A u \in txns' \ txns : u.key = KeyOf(c) /\ \E s \in wallets' :
                                     s.id = u.wallet /\ s.customer = req[c].customer
      BY <1>4, <2>1, <2>2, <2>5
    <3>4. QED
      BY <1>2, <1>5, <2>1, <2>6, <3>1, <3>2, <3>3 DEF Moves, Open, Holding
  <2>8. CallSound(c)'
    BY <1>5, <1>6, <2>1, <2>2 DEF CallSound, Working, Open, Holding, KeyTaken
  <2>9. QED  BY <1>5, <2>4, <2>7, <2>8, WalletMoves
<1>8. CASE step[c] = "skipped"
  <2>1. wallets' = Made(c) /\ txns' = txns
    BY <1>8 DEF Apply
  <2>2. Booked(wallets, txns)'
    BY <1>3, <2>1
  <2>3. Moves(c)
    <3>1. \A v \in wallets' : \/ \E r \in wallets : SameRow(v, r)
                              \/ v.id = c /\ v.customer = req[c].customer /\ c \in fresh
      BY <1>3, <2>1 DEF SameRow
    <3>2. \A v \in wallets : \E s \in wallets' : SameRow(s, v)
      BY <1>3, <2>1 DEF SameRow
    <3>3. QED
      BY <1>2, <1>5, <2>1, <3>1, <3>2 DEF Moves, Open, Holding
  <2>4. CallSound(c)'
    BY <1>1, <1>5, <1>6, <1>8, <2>1 DEF CallSound, Working, Open, Holding, KeyTaken
  <2>5. QED  BY <1>5, <2>2, <2>3, <2>4, WalletMoves
<1>9. QED  BY <1>2, <1>7, <1>8

\* The rollback takes with it all the transaction did.
LEMMA RollBackStep ==
    ASSUME WalletInv, NEW c \in Calls, RollBack(c)
    PROVE  WalletInv' /\ WalletGrows
<1>1. WalletTypes /\ Booked(wallets, txns) /\ CallSound(c)
  BY DEF WalletInv
<1>2. /\ step[c] \in Open /\ End(c, "error")
      /\ UNCHANGED <<store, asked, req, row, wallets, txns, met>>
  BY DEF RollBack
<1>3. WalletTypes'
  BY <1>1, <1>2 DEF WalletTypes, End
<1>4. Moves(c)
  BY <1>1, <1>2 DEF WalletTypes, Moves, SameRow, Open, Holding, End
<1>5. CallSound(c)'
  BY <1>1, <1>2 DEF WalletTypes, CallSound, Working, Open, Holding, End
<1>6. QED  BY <1>1, <1>2, <1>3, <1>4, <1>5, WalletMoves

\* The memory store's top-up, whole under its lock.
LEMMA MemoryStep ==
    ASSUME WalletInv, NEW c \in Calls, TopUpMemory(c)
    PROVE  WalletInv' /\ WalletGrows
<1>1. WalletTypes /\ Booked(wallets, txns) /\ CallSound(c) /\ LedgerSound
  BY DEF WalletInv
<1>2. /\ store = "memory" /\ step[c] = "arrived"
      /\ UNCHANGED <<store, asked, req, met, faults>>
  BY DEF TopUpMemory
<1>3. /\ c \notin fresh /\ req[c] \in TopUp /\ req[c].amount \in Nat
      /\ \A d \in Calls : step[d] \notin Holding
  BY <1>1, <1>2, WalletAssumption DEF CallSound, Working, Open, TopUp, Holding, WalletInv
<1>4. ASSUME End(c, "ok") \/ End(c, "error"), row' \in [Calls -> Calls],
             \A d \in Calls \ {c} : row'[d] = row[d]
      PROVE  /\ WalletTypes' /\ step'[c] = "done" /\ c \notin fresh' /\ reply'[c] \in {"ok", "error"}
             /\ \A d \in Calls \ {c} : /\ step'[d] = step[d] /\ reply'[d] = reply[d]
                                       /\ (d \in fresh' <=> d \in fresh)
  BY <1>1, <1>2, <1>4 DEF WalletTypes, End
<1>5. KeyOf(c) \in Keys \cup Calls /\ KeyOf(c)' = KeyOf(c)
  BY <1>2, <1>3 DEF KeyOf, TopUp
<1>6. CASE /\ UNCHANGED <<wallets, txns, row>>
           /\ (KeyTaken(c) /\ End(c, "ok")) \/ End(c, "error")
  <2>1. /\ WalletTypes' /\ step'[c] = "done" /\ c \notin fresh' /\ reply'[c] \in {"ok", "error"}
        /\ \A d \in Calls \ {c} : /\ step'[d] = step[d] /\ reply'[d] = reply[d]
                                  /\ (d \in fresh' <=> d \in fresh)
    BY <1>1, <1>4, <1>6 DEF WalletTypes
  <2>2. Moves(c)
    BY <1>2, <1>6, <2>1 DEF Moves, SameRow, Open, Holding
  <2>3. reply'[c] = "ok" => KeyTaken(c)
    BY <1>1, <1>6 DEF End, WalletTypes
  <2>4. CallSound(c)'
    BY <1>2, <1>5, <1>6, <2>1, <2>3 DEF CallSound, Working, Open, Holding, KeyTaken
  <2>5. QED  BY <1>1, <1>6, <2>1, <2>2, <2>4, WalletMoves
<1>7. ASSUME NEW ws, NEW w \in ws, Booked(ws, txns), ~KeyTaken(c), w.customer = req[c].customer,
             \A v \in wallets : v \in ws,
             \A v \in ws : \/ v \in wallets
                           \/ v.id = c /\ v.customer = req[c].customer /\ Mine(c) = {},
             row' = [row EXCEPT ![c] = w.id], End(c, "ok"),
             wallets' = CreditedRows(ws, w.id, req[c].amount),
             txns' = txns \cup {[key |-> KeyOf(c), wallet |-> w.id, amount |-> req[c].amount]}
      PROVE  WalletInv' /\ WalletGrows
  <2> DEFINE t == [key |-> KeyOf(c), wallet |-> w.id, amount |-> req[c].amount]
  <2>1. w.id \in Calls
    BY <1>7 DEF Booked, WalletRow
  <2>2. /\ WalletTypes' /\ step'[c] = "done" /\ c \notin fresh' /\ reply'[c] \in {"ok", "error"}
        /\ \A d \in Calls \ {c} : /\ step'[d] = step[d] /\ reply'[d] = reply[d]
                                  /\ (d \in fresh' <=> d \in fresh) /\ row'[d] = row[d]
    BY <1>1, <1>4, <1>7, <2>1 DEF WalletTypes
  <2>3. t \in TxnRow /\ t.wallet = w.id /\ t.key = KeyOf(c)
    BY <1>3, <1>5, <2>1 DEF TxnRow
  <2>4. \A u \in txns : u.key # t.key
    BY <1>7, <2>3 DEF KeyTaken
  <2>5. wallets' = CreditedRows(ws, w.id, t.amount) /\ txns' = txns \cup {t}
    BY <1>7
  <2> HIDE DEF t
  <2>6. Booked(wallets, txns)'
    BY <1>7, <2>3, <2>4, <2>5, BookedCredit
  <2>7. /\ \A r \in ws : \E s \in wallets' : s.id = r.id /\ s.customer = r.customer
        /\ \A s \in wallets' : \E r \in ws : s.id = r.id /\ s.customer = r.customer
    BY <1>7, <2>5, CreditedSame DEF Booked
  <2>8. Moves(c)
    <3>1. \A v \in wallets : \E s \in wallets' : SameRow(s, v)
      BY <1>7, <2>7 DEF SameRow
    <3>2. \A v \in wallets' : \/ \E r \in wallets : SameRow(v, r)
                              \/ v.id = c /\ v.customer = req[c].customer /\ Mine(c) = {}
      BY <1>7, <2>7 DEF SameRow
    <3>3. \A u \in txns' \ txns : u.key = KeyOf(c) /\ \E s \in wallets' :
                                     s.id = u.wallet /\ s.customer = req[c].customer
      BY <1>7, <2>3, <2>5, <2>7
    <3>4. QED
      BY <1>2, <1>3, <2>2, <2>5, <3>1, <3>2, <3>3 DEF Moves, Open, Holding
  <2>9. CallSound(c)'
    BY <1>5, <2>2, <2>3, <2>5 DEF CallSound, Working, Open, Holding, KeyTaken
  <2>10. QED  BY <2>2, <2>6, <2>8, <2>9, WalletMoves
<1>8. CASE /\ ~KeyTaken(c) /\ Mine(c) # {}
           /\ row' = [row EXCEPT ![c] = (CHOOSE x \in Mine(c) : TRUE).id]
           /\ wallets' = CreditedRows(wallets, (CHOOSE x \in Mine(c) : TRUE).id, req[c].amount)
           /\ txns' = txns \cup {[key |-> KeyOf(c), wallet |-> (CHOOSE x \in Mine(c) : TRUE).id,
                                  amount |-> req[c].amount]}
           /\ End(c, "ok")
  <2>1. PICK w \in Mine(c) : w = CHOOSE x \in Mine(c) : TRUE
    BY <1>8
  <2>2. w \in wallets /\ w.customer = req[c].customer
    BY DEF Mine, RowsOf
  <2>3. QED  BY <1>1, <1>7, <1>8, <2>1, <2>2
<1>9. CASE /\ ~KeyTaken(c) /\ Mine(c) = {}
           /\ row' = [row EXCEPT ![c] = c]
           /\ wallets' = CreditedRows({[id |-> c, customer |-> req[c].customer,
                                        currency |-> req[c].currency, balance |-> 0]} \cup wallets,
                                      c, req[c].amount)
           /\ txns' = txns \cup {[key |-> KeyOf(c), wallet |-> c, amount |-> req[c].amount]}
           /\ End(c, "ok")
  <2> DEFINE r == [id |-> c, customer |-> req[c].customer,
                   currency |-> req[c].currency, balance |-> 0]
  <2>1. /\ r \in WalletRow /\ r.balance = 0 /\ r.id = c /\ r.customer = req[c].customer
        /\ \A w \in wallets : w.id # r.id
    BY <1>1, <1>2, <1>3 DEF LedgerSound, TopUp, WalletRow
  <2> HIDE DEF r
  <2>2. Booked(wallets \cup {r}, txns)
    BY <1>1, <2>1, BookedNewRow
  <2>3. {r} \cup wallets = wallets \cup {r}
    OBVIOUS
  <2>4. wallets' = CreditedRows(wallets \cup {r}, r.id, req[c].amount)
    BY <1>9, <2>1, <2>3 DEF r
  <2>5. /\ row' = [row EXCEPT ![c] = r.id]
        /\ txns' = txns \cup {[key |-> KeyOf(c), wallet |-> r.id, amount |-> req[c].amount]}
    BY <1>9, <2>1
  <2>6. r \in wallets \cup {r} /\ \A v \in wallets : v \in wallets \cup {r}
    OBVIOUS
  <2>7. \A v \in wallets \cup {r} :
           \/ v \in wallets
           \/ v.id = c /\ v.customer = req[c].customer /\ Mine(c) = {}
    BY <1>9, <2>1
  <2>8. ~KeyTaken(c) /\ End(c, "ok")
    BY <1>9
  <2>9. QED  BY <1>7, <2>1, <2>2, <2>4, <2>5, <2>6, <2>7, <2>8
<1>10. QED
  BY <1>6, <1>8, <1>9 DEF TopUpMemory

\* A step of the wallet keeps its invariant.
LEMMA WalletStep ==
    ASSUME WalletInv, NEW c \in Calls, TopUpStep(c)
    PROVE  WalletInv' /\ WalletGrows
<1>1. CASE Commit(c)
  BY <1>1, ApplyStep DEF Commit
<1>2. CASE CommitUnheard(c)
  BY <1>2, ApplyStep DEF CommitUnheard
<1>3. QED
  BY <1>1, <1>2, ArriveStep, FindStep, InsertStep, CreditStep, RollBackStep, MemoryStep
     DEF TopUpStep

\* The invariant is about the wallet alone.
LEMMA WalletUnmoved ==
    ASSUME WalletInv, UNCHANGED wvars
    PROVE  WalletInv' /\ WalletGrows
<1>1. WalletTypes' /\ Booked(wallets, txns)' /\ LedgerSound'
  BY DEF WalletInv, wvars, WalletTypes, LedgerSound, KeyOf
<1>2. \A c \in Calls : CallSound(c)'
  BY DEF WalletInv, wvars, CallSound, Working, KeyTaken, KeyHeld, KeyOf
<1>3. MeetingsSound'
  BY DEF WalletInv, wvars, MeetingsSound, Live, Apart, RowsOf
<1>4. WalletGrows
  BY DEF wvars, WalletGrows, SameRow
<1>5. QED  BY <1>1, <1>2, <1>3, <1>4 DEF WalletInv

-----------------------------------------------------------------------------
(* What follows for a caller and for a reader of the balance.              *)

\* The ledger rows of a customer.
Ledger(cu) == {t \in txns : \E w \in RowsOf(cu) : w.id = t.wallet}

\* What was credited to a customer is the sum of its ledger rows, now and
\* after the next step.
CreditedSum == \A cu : Credited(cu) = Amounts(Ledger(cu))

\* What a customer was credited is the sum of its ledger rows.
LEMMA CreditedSums == CreditedSum
BY DEF CreditedSum, Credited, Amounts, Ledger

\* And it is so after a step.
LEMMA CreditedSumsNext == \A cu : Credited(cu)' = Amounts(Ledger(cu)')
<1>1. CreditedSum'
  BY CreditedSums, PTL
<1>2. QED  BY <1>1 DEF CreditedSum

\* A customer's rows are rows of the ledger, and what they come to is not negative.
LEMMA CreditedIsLedger ==
    ASSUME WalletInv, NEW cu
    PROVE  /\ Ledger(cu) \subseteq txns /\ Amounted(Ledger(cu))
           /\ Credited(cu) = Amounts(Ledger(cu)) /\ Credited(cu) \in Nat
<1>1. Ledger(cu) \subseteq txns /\ Booked(wallets, txns)
  BY DEF Ledger, WalletInv
<1>2. Amounted(Ledger(cu))
  BY <1>1, PartsAreAmounted
<1>3. Credited(cu) = Amounts(Ledger(cu))
  BY DEF Credited, Amounts, Ledger
<1>4. QED  BY <1>1, <1>2, <1>3, AmountsType

\* And so after a step.
LEMMA CreditedNatNext ==
    ASSUME WalletInv', NEW cu
    PROVE  Credited(cu)' \in Nat
<1>1. Ledger(cu)' \subseteq txns' /\ Booked(wallets', txns')
  BY DEF Ledger, WalletInv
<1>2. QED  BY <1>1, CreditedSumsNext, PartsAreAmounted, AmountsType

\* What was credited to a customer is never taken back.
LEMMA CreditedGrows ==
    ASSUME WalletInv, WalletInv', WalletGrows, NEW cu
    PROVE  Credited(cu) <= Credited(cu)'
<1>1. Ledger(cu) \subseteq Ledger(cu)'
  BY DEF Ledger, RowsOf, WalletGrows, SameRow
<1>2. Amounted(Ledger(cu)') /\ Credited(cu)' = Amounts(Ledger(cu)')
  <2>1. Ledger(cu)' \subseteq txns' /\ Booked(wallets', txns')
    BY DEF Ledger, WalletInv
  <2>2. Credited(cu)' = Amounts(Ledger(cu)')
    BY CreditedSumsNext
  <2>3. QED  BY <2>1, <2>2, PartsAreAmounted
<1>3. Credited(cu) = Amounts(Ledger(cu))
  BY CreditedIsLedger
<1>4. QED  BY <1>1, <1>2, <1>3, AmountsMonotone

\* A balance read shows no more than what was credited to the customer.
LEMMA ReadingsBelow ==
    ASSUME WalletInv, NEW cu, NEW b \in Readings(cu)
    PROVE  b \in Nat /\ b <= Credited(cu)
<1>1. Credited(cu) \in Nat /\ Booked(wallets, txns)
  BY CreditedIsLedger DEF WalletInv
<1>2. CASE RowsOf(cu) = {}
  BY <1>1, <1>2 DEF Readings
<1>3. ASSUME NEW w \in RowsOf(cu), b = w.balance
      PROVE  b \in Nat /\ b <= Credited(cu)
  <2>1. w \in wallets /\ b = Amounts(Of(txns, w.id)) /\ b \in Nat
    BY <1>1, <1>3 DEF RowsOf, Booked, WalletRow
  <2>2. Of(txns, w.id) \subseteq Ledger(cu)
    BY DEF Of, Ledger
  <2>3. QED  BY <2>1, <2>2, CreditedIsLedger, AmountsMonotone
<1>4. QED  BY <1>2, <1>3 DEF Readings

\* The reading of a customer whose top-ups were never in flight together.
LEMMA ReadingIsCredited ==
    ASSUME WalletInv, NEW cu \in Customers, Apart(cu)
    PROVE  Readings(cu) = {Credited(cu)}
<1>1. Booked(wallets, txns) /\ \A v, w \in RowsOf(cu) : v = w
  BY DEF WalletInv, MeetingsSound
<1>2. CASE RowsOf(cu) = {}
  <2>1. Ledger(cu) = {}
    BY <1>2 DEF Ledger
  <2>2. QED  BY <1>2, <2>1, CreditedIsLedger, AmountsEmpty DEF Readings
<1>3. ASSUME NEW w \in RowsOf(cu)
      PROVE  Readings(cu) = {Credited(cu)}
  <2>1. w \in wallets /\ RowsOf(cu) = {w}
    BY <1>1 DEF RowsOf
  <2>2. Ledger(cu) = Of(txns, w.id)
    BY <2>1 DEF Ledger, Of
  <2>3. w.balance = Credited(cu)
    BY <1>1, <2>1, <2>2, CreditedIsLedger DEF Booked
  <2>4. QED  BY <2>1, <2>3 DEF Readings
<1>4. QED  BY <1>2, <1>3

\* The invariant gives BalanceIsLedger.
LEMMA InvImpliesBalanceIsLedger == WalletInv => BalanceIsLedger
BY DEF WalletInv, Booked, BalanceIsLedger, Amounts, Of

\* The invariant gives WholeBalance.
LEMMA InvImpliesWholeBalance == WalletInv => WholeBalance
BY ReadingIsCredited DEF Apart, WholeBalance

\* The invariant gives AnswersHold.
LEMMA InvImpliesAnswersHold == WalletInv => AnswersHold
<1> SUFFICES ASSUME WalletInv, NEW c \in Calls, reply[c] = "ok"
             PROVE  \E t \in txns :
                      /\ t.key = KeyOf(c)
                      /\ \/ \E w \in RowsOf(req[c].customer) : w.id = t.wallet
                         \/ \E d \in Calls : /\ KeyOf(d) = KeyOf(c)
                                             /\ req[d].customer # req[c].customer
  BY DEF AnswersHold
<1>1. PICK t \in txns : t.key = KeyOf(c)
  BY DEF WalletInv, CallSound, KeyTaken
<1>2. PICK d \in Calls, w \in wallets :
         KeyOf(d) = t.key /\ w.id = t.wallet /\ w.customer = req[d].customer
  BY DEF WalletInv, LedgerSound
<1>3. QED  BY <1>1, <1>2 DEF RowsOf

\* Before any call there is nothing to agree on.
LEMMA WalletInitial ==
    ASSUME WalletInit, asked \subseteq TopUps
    PROVE  WalletInv
<1>1. WalletTypes
  BY DEF WalletInit, WalletTypes
<1>2. Booked(wallets, txns)
  BY FS_EmptySet DEF WalletInit, Booked
<1>3. \A c \in Calls : CallSound(c)
  BY DEF WalletInit, CallSound, Working, Open, Holding
<1>4. LedgerSound
  BY DEF WalletInit, LedgerSound
<1>5. MeetingsSound
  BY DEF WalletInit, MeetingsSound, Live, Open, RowsOf
<1>6. QED  BY <1>1, <1>2, <1>3, <1>4, <1>5 DEF WalletInv

-----------------------------------------------------------------------------
(* The invariant of the gate.                                              *)

ClientTypes ==
    /\ load \in Workloads
    /\ ents \in Seq(Entitlement) /\ events \in Seq(Nat)
    /\ at \in [Clients -> Places] /\ ask \in [Clients -> Asks \cup {NoAsk}]
    /\ grant \in [Clients -> Entitlement]
    /\ before \in [Clients -> [used : Nat, credit : Nat]]
    /\ now \in 0..load.maxTime

\* What a client has read and what it has been told, at the place it is.
ClientSound(g) ==
    /\ at[g] # "idle" => /\ ask[g] \in load.asks
                         /\ before[g].used <= Len(events)
                         /\ before[g].credit <= Credited(Payer)
    /\ at[g] \in {"idle", "asked"} => grant[g] = NoGrant
    /\ at[g] = "granted" => \E i \in DOMAIN ents : grant[g] = ents[i]
    /\ (at[g] \in {"within", "allowed"} /\ grant[g].kind = "metered" /\ grant[g].counts) =>
          before[g].used + 1 <= grant[g].limit
    /\ (at[g] \in {"within", "allowed"} /\ ask[g].feature) => ents # <<>>
    /\ at[g] = "allowed" => Credited(Payer) >= ask[g].cost
    /\ at[g] = "limit" => Used(grant[g]) + 1 > grant[g].limit
    /\ (at[g] = "balance" /\ met = {}) => before[g].credit < ask[g].cost

\* The events at or after t.
Since(t) == {i \in DOMAIN events : events[i] >= t}

\* The bucket holds no more than the stretches up to its last use left of it.
BucketSound ==
    /\ tokens \in 0..Burst /\ last \in 0..now
    /\ \A i \in DOMAIN events : events[i] \in 0..last
    /\ \A t \in 0..last : Cardinality(Since(t)) + tokens <= Burst + Rps * (last - t)

\* The clients that are past the limit check and whose event is not in.
Passed == {g \in Clients : at[g] \in {"within", "allowed"}}

\* Every use is of a feature and every entitlement limits it.
Limited ==
    /\ \A i \in DOMAIN ents : ents[i].kind = "metered" /\ ents[i].counts
    /\ \A a \in load.asks : a.feature

\* An entitlement has room for all but one of the clients beyond what is used
\* or about to be; nothing was used while there was none.
OverrunSound ==
    Limited =>
        /\ ents = <<>> => events = <<>>
        /\ ents # <<>> => \E i \in DOMAIN ents :
              Len(events) + Cardinality(Passed) <= ents[i].limit + Cardinality(Clients) - 1

GateInv ==
    /\ WalletInv
    /\ ClientTypes
    /\ \A g \in Clients : ClientSound(g)
    /\ BucketSound
    /\ OverrunSound

-----------------------------------------------------------------------------
(* Facts of a state that the steps use.                                    *)

\* The workloads are what GateAssumption says of them.
LEMMA WorkloadTypes ==
    ASSUME ClientTypes
    PROVE  /\ load.topUps \subseteq TopUps /\ load.asks \subseteq Asks
           /\ load.maxGrants \in Nat /\ load.maxEvents \in Nat /\ load.maxTime \in Nat
           /\ \A a \in load.asks \cup {NoAsk} : a.feature \in BOOLEAN /\ a.cost \in Nat
<1> DEFINE Workload == [topUps : SUBSET TopUps, asks : SUBSET Asks,
                        maxGrants : Nat, maxEvents : Nat, maxTime : Nat]
<1>1. load \in Workload
  BY GateAssumption DEF ClientTypes
<1>2. load.topUps \in SUBSET TopUps /\ load.asks \in SUBSET Asks
  BY <1>1
<1>3. load.maxGrants \in Nat /\ load.maxEvents \in Nat /\ load.maxTime \in Nat
  BY <1>1
<1>4. \A a \in load.asks : a.feature \in BOOLEAN /\ a.cost \in Nat
  BY <1>2, GateAssumption
<1>5. NoAsk.feature \in BOOLEAN /\ NoAsk.cost \in Nat
  BY DEF NoAsk
<1>6. QED  BY <1>2, <1>3, <1>4, <1>5

\* The clients that were let through are counted, and are at most all of them.
LEMMA PassedSize ==
    /\ IsFiniteSet(Passed) /\ Cardinality(Passed) \in Nat
    /\ Cardinality(Clients) \in Nat /\ Cardinality(Clients) >= 1
    /\ Cardinality(Passed) <= Cardinality(Clients)
<1>1. Passed \subseteq Clients
  BY DEF Passed
<1>2. Cardinality(Clients) # 0
  BY FS_EmptySet, GateAssumption
<1>3. QED
  BY <1>1, <1>2, GateAssumption, FS_Subset, FS_CardinalityType

\* The events since a moment are counted.
LEMMA SinceSize ==
    ASSUME ClientTypes, NEW t
    PROVE  IsFiniteSet(Since(t)) /\ Cardinality(Since(t)) \in Nat
<1>1. Len(events) \in Nat /\ DOMAIN events = 1..Len(events)
  BY DEF ClientTypes
<1>2. IsFiniteSet(DOMAIN events)
  BY <1>1, FS_Interval
<1>3. Since(t) \subseteq DOMAIN events
  BY DEF Since
<1>4. QED  BY <1>2, <1>3, FS_Subset, FS_CardinalityType

\* A row that may be picked is one of the entitlements.
LEMMA CandidatesAreRows ==
    ASSUME ClientTypes, NEW e \in Candidates
    PROVE  e \in Entitlement /\ \E i \in DOMAIN ents : e = ents[i]
<1>1. ents # <<>> /\ (e = ents[1] \/ e \in ToSet(ents))
  BY DEF Candidates
<1>2. 1 \in DOMAIN ents
  BY <1>1 DEF ClientTypes
<1>3. \E i \in DOMAIN ents : e = ents[i]
  BY <1>1, <1>2 DEF ToSet
<1>4. QED  BY <1>3 DEF ClientTypes

-----------------------------------------------------------------------------
(* What a step leaves as it was.                                           *)

\* The deployment went on: nothing that a client relies on shrank.
Onward ==
    /\ load' = load /\ met \subseteq met'
    /\ Credited(Payer) <= Credited(Payer)'
    /\ Len(events) <= Len(events')
    /\ \A i \in DOMAIN ents : i \in DOMAIN ents' /\ ents'[i] = ents[i]

Stays(g) == at'[g] = at[g] /\ ask'[g] = ask[g] /\ grant'[g] = grant[g] /\ before'[g] = before[g]

\* What a client holds stays sound in a step that leaves it where it is.
LEMMA ClientKept ==
    ASSUME GateInv, WalletInv', ClientTypes', Onward, NEW g \in Clients, Stays(g)
    PROVE  ClientSound(g)'
<1>1. ClientSound(g) /\ ClientTypes
  BY DEF GateInv
<1>2. /\ Credited(Payer) \in Nat /\ Credited(Payer)' \in Nat
      /\ Len(events) \in Nat /\ Len(events') \in Nat
  BY CreditedIsLedger, CreditedNatNext DEF GateInv, ClientTypes
<1>3. /\ before[g].used \in Nat /\ before[g].credit \in Nat /\ grant[g].limit \in Nat
      /\ grant[g].counts \in BOOLEAN /\ ask[g].cost \in Nat
  BY <1>1, WorkloadTypes, GateAssumption DEF ClientTypes, Entitlement, NoAsk
<1>4. ents # <<>> => ents' # <<>>
  BY <1>1 DEF ClientTypes, Onward
<1>5. (at[g] = "limit" => Used(grant[g]) + 1 > grant[g].limit)'
  BY <1>1, <1>2, <1>3 DEF ClientSound, Stays, Onward, Used
<1>6. (at[g] = "granted" => \E i \in DOMAIN ents : grant[g] = ents[i])'
  BY <1>1 DEF ClientSound, Stays, Onward
<1>7. (at[g] # "idle" => /\ ask[g] \in load.asks
                         /\ before[g].used <= Len(events)
                         /\ before[g].credit <= Credited(Payer))'
  BY <1>1, <1>2, <1>3 DEF ClientSound, Stays, Onward
<1>8. (at[g] = "allowed" => Credited(Payer) >= ask[g].cost)'
  BY <1>1, <1>2, <1>3 DEF ClientSound, Stays, Onward
<1>9. ((at[g] = "balance" /\ met = {}) => before[g].credit < ask[g].cost)'
  BY <1>1 DEF ClientSound, Stays, Onward
<1>10. QED
  BY <1>1, <1>4, <1>5, <1>6, <1>7, <1>8, <1>9 DEF ClientSound, Stays

\* The bucket stays sound while only the clock moves.
LEMMA BucketKept ==
    ASSUME BucketSound, UNCHANGED <<events, tokens, last>>, now \in Nat, now' \in Nat, now <= now'
    PROVE  BucketSound'
<1>1. \A t : Since(t)' = Since(t)
  BY DEF Since
<1>2. last \in 0..now'
  BY DEF BucketSound
<1>3. QED  BY <1>1, <1>2 DEF BucketSound

\* The overrun stays bounded in steps that let nobody new through.
LEMMA OverrunKept ==
    ASSUME GateInv, UNCHANGED <<load, ents, events>>, Passed' \subseteq Passed \/ ~Limited
    PROVE  OverrunSound'
<1> SUFFICES ASSUME Limited PROVE OverrunSound'
  BY DEF OverrunSound, Limited
<1>1. IsFiniteSet(Passed) /\ Cardinality(Passed) \in Nat /\ Cardinality(Clients) \in Nat
  BY PassedSize
<1>2. Cardinality(Passed') \in Nat /\ Cardinality(Passed') <= Cardinality(Passed)
  BY <1>1, FS_Subset, FS_CardinalityType
<1>3. CASE ents = <<>>
  BY <1>3 DEF GateInv, OverrunSound
<1>4. ASSUME ents # <<>>
      PROVE  \E i \in DOMAIN ents :
                Len(events) + Cardinality(Passed') <= ents[i].limit + Cardinality(Clients) - 1
  <2>1. PICK i \in DOMAIN ents :
           Len(events) + Cardinality(Passed) <= ents[i].limit + Cardinality(Clients) - 1
    BY <1>4 DEF GateInv, OverrunSound
  <2>2. Len(events) \in Nat /\ ents[i] \in Entitlement
    BY DEF GateInv, ClientTypes
  <2>3. ents[i].limit \in Nat
    BY <2>2 DEF Entitlement
  <2>4. QED  BY <1>1, <1>2, <2>1, <2>2, <2>3
<1>5. QED  BY <1>3, <1>4 DEF OverrunSound

\* A step that leaves the wallet, the entitlements and the log alone.
LEMMA OnwardAlone ==
    ASSUME GateInv, UNCHANGED <<wvars, load, ents, events>>
    PROVE  WalletInv' /\ Onward /\ Credited(Payer)' = Credited(Payer)
<1>1. WalletInv'
  BY WalletUnmoved DEF GateInv
<1>2. Credited(Payer)' = Credited(Payer)
  <2>1. Ledger(Payer)' = Ledger(Payer)
    BY DEF Ledger, RowsOf, wvars
  <2>2. QED  BY <2>1, CreditedSums, CreditedSumsNext DEF CreditedSum
<1>3. Credited(Payer) \in Nat /\ Len(events) \in Nat
  BY CreditedIsLedger DEF GateInv, ClientTypes
<1>4. met' = met
  BY DEF wvars
<1>5. QED  BY <1>1, <1>2, <1>3, <1>4 DEF Onward

\* A step of one client, short of its event: the invariant holds if it holds
\* of that client, and the client passes no limit or none is to be passed.
LEMMA ClientMoves ==
    ASSUME GateInv, NEW g \in Clients,
           UNCHANGED <<wvars, load, ents, events, tokens, last, now>>,
           \A h \in Clients \ {g} : Stays(h),
           ClientTypes', ClientSound(g)',
           ~Limited \/ at'[g] \notin {"within", "allowed"} \/ at[g] \in {"within", "allowed"}
    PROVE  GateInv'
<1>1. WalletInv' /\ Onward
  BY OnwardAlone
<1>2. \A h \in Clients : ClientSound(h)'
  BY <1>1, ClientKept
<1>3. BucketSound'
  <2>1. now \in Nat
    BY WorkloadTypes DEF GateInv, ClientTypes
  <2>2. QED  BY <2>1, BucketKept DEF GateInv
<1>4. Passed' \subseteq Passed \/ ~Limited
  BY DEF Passed, Stays
<1>5. QED  BY <1>1, <1>2, <1>3, <1>4, OverrunKept DEF GateInv

-----------------------------------------------------------------------------
(* The steps of a client.                                                  *)

\* A new question: usage and credit are what they are.
LEMMA AskStep ==
    ASSUME GateInv, NEW g \in Clients, Ask(g)
    PROVE  GateInv'
<1>1. ClientTypes /\ ClientSound(g) /\ Credited(Payer) \in Nat /\ Len(events) \in Nat
  BY CreditedIsLedger DEF GateInv, ClientTypes
<1>2. PICK a \in load.asks :
         /\ ask' = [ask EXCEPT ![g] = a]
         /\ at' = [at EXCEPT ![g] = IF a.feature THEN "asked" ELSE "within"]
  BY DEF Ask, Move
<1>3. /\ at[g] = "idle"
      /\ before' = [before EXCEPT ![g] = [used |-> Len(events), credit |-> Credited(Payer)]]
      /\ UNCHANGED <<wvars, load, ents, events, grant, tokens, last, now>>
  BY DEF Ask
<1>4. a \in Asks
  BY <1>1, WorkloadTypes
<1>5. ClientTypes'
  BY <1>1, <1>2, <1>3, <1>4 DEF ClientTypes, Places
<1>6. /\ ask'[g] = a /\ at'[g] = (IF a.feature THEN "asked" ELSE "within")
      /\ before'[g] = [used |-> Len(events), credit |-> Credited(Payer)]
      /\ grant'[g] = NoGrant
  BY <1>1, <1>2, <1>3 DEF ClientTypes, ClientSound
<1>7. Credited(Payer)' = Credited(Payer)
  BY <1>3, OnwardAlone
<1>8. ClientSound(g)'
  BY <1>1, <1>3, <1>6, <1>7 DEF ClientSound, NoGrant
<1>9. Limited => at'[g] = "asked"
  BY <1>6 DEF Limited
<1>10. \A h \in Clients \ {g} : Stays(h)
  BY <1>1, <1>2, <1>3 DEF ClientTypes, Stays
<1>11. QED  BY <1>3, <1>5, <1>8, <1>9, <1>10, ClientMoves

\* The entitlement read is one of those there are.
LEMMA ReadEntitlementStep ==
    ASSUME GateInv, NEW g \in Clients, ReadEntitlement(g)
    PROVE  GateInv'
<1>1. ClientTypes /\ ClientSound(g)
  BY DEF GateInv
<1>2. /\ at[g] = "asked"
      /\ UNCHANGED <<wvars, load, ents, events, ask, before, tokens, last, now>>
  BY DEF ReadEntitlement
<1>3. Credited(Payer)' = Credited(Payer)
  BY <1>2, OnwardAlone
<1>4. CASE at' = [at EXCEPT ![g] = "noGrant"] /\ UNCHANGED grant
  <2>1. ClientTypes'
    BY <1>1, <1>2, <1>4 DEF ClientTypes, Places
  <2>2. ClientSound(g)'
    BY <1>1, <1>2, <1>3, <1>4 DEF ClientTypes, ClientSound
  <2>3. QED  BY <1>1, <1>2, <1>4, <2>1, <2>2, ClientMoves DEF ClientTypes, Stays
<1>5. ASSUME NEW e \in Candidates,
             grant' = [grant EXCEPT ![g] = e], at' = [at EXCEPT ![g] = "granted"]
      PROVE  GateInv'
  <2>1. e \in Entitlement /\ \E i \in DOMAIN ents : e = ents[i]
    BY <1>1, CandidatesAreRows
  <2>2. ClientTypes'
    BY <1>1, <1>2, <1>5, <2>1 DEF ClientTypes, Places
  <2>3. ClientSound(g)'
    BY <1>1, <1>2, <1>3, <1>5, <2>1 DEF ClientTypes, ClientSound
  <2>4. QED  BY <1>1, <1>2, <1>5, <2>2, <2>3, ClientMoves DEF ClientTypes, Stays
<1>6. QED  BY <1>4, <1>5 DEF ReadEntitlement, Move

\* The balance read covers the cost or it does not.
LEMMA ReadBalanceStep ==
    ASSUME GateInv, NEW g \in Clients, ReadBalance(g)
    PROVE  GateInv'
<1>1. ClientTypes /\ ClientSound(g) /\ WalletInv /\ Credited(Payer) \in Nat
  BY CreditedIsLedger DEF GateInv
<1>2. PICK b \in Readings(Payer) :
         at' = [at EXCEPT ![g] = IF Covers(b, ask[g].cost) THEN "allowed" ELSE "balance"]
  BY DEF ReadBalance, Move
<1>3. /\ at[g] = "within"
      /\ UNCHANGED <<wvars, load, ents, events, ask, grant, before, tokens, last, now>>
  BY DEF ReadBalance
<1>4. b \in Nat /\ b <= Credited(Payer)
  BY <1>1, ReadingsBelow
<1>5. ask[g].cost \in Nat /\ before[g].credit \in Nat
  BY <1>1, WorkloadTypes, GateAssumption DEF ClientTypes, NoAsk
<1>6. ClientTypes'
  BY <1>1, <1>2, <1>3 DEF ClientTypes, Places
<1>7. Credited(Payer)' = Credited(Payer) /\ met' = met
  BY <1>3, OnwardAlone DEF wvars
<1>8. at'[g] = IF b >= ask[g].cost THEN "allowed" ELSE "balance"
  BY <1>1, <1>2 DEF ClientTypes, Covers
<1>9. met = {} => b = Credited(Payer)
  BY <1>1, <1>2, ReadingIsCredited, GateAssumption DEF Apart
<1>10. ClientSound(g)'
  BY <1>1, <1>3, <1>4, <1>5, <1>7, <1>8, <1>9 DEF ClientSound
<1>11. \A h \in Clients \ {g} : Stays(h)
  BY <1>1, <1>2, <1>3 DEF ClientTypes, Stays
<1>12. QED  BY <1>3, <1>6, <1>10, <1>11, ClientMoves

\* A client that is done with its request knows nothing any more.
LEMMA ForgetStep ==
    ASSUME GateInv, NEW g \in Clients, Forget(g),
           UNCHANGED <<wvars, load, ents, events, tokens, last, now>>
    PROVE  GateInv'
<1>1. ClientTypes
  BY DEF GateInv
<1>2. ClientTypes'
  BY <1>1 DEF ClientTypes, Forget, Move, Places, NoGrant, Entitlement, Nothing
<1>3. at'[g] = "idle" /\ grant'[g] = NoGrant
  BY <1>1 DEF ClientTypes, Forget, Move
<1>4. ClientSound(g)'
  BY <1>3 DEF ClientSound
<1>5. \A h \in Clients \ {g} : Stays(h)
  BY <1>1 DEF ClientTypes, Forget, Move, Stays
<1>6. QED  BY <1>2, <1>3, <1>4, <1>5, ClientMoves

\* The limit has room for one more, or the client is turned away: so many
\* clients as may have passed since the last event, all but this one go over.
LEMMA ReadUsageStep ==
    ASSUME GateInv, NEW g \in Clients, ReadUsage(g)
    PROVE  GateInv'
<1>1. /\ ClientTypes /\ ClientSound(g) /\ WalletInv /\ Credited(Payer) \in Nat
      /\ Len(events) \in Nat /\ BucketSound /\ OverrunSound
  BY CreditedIsLedger DEF GateInv, ClientTypes
<1>2. /\ at[g] = "granted"
      /\ at' = [at EXCEPT ![g] = IF Exceeds(grant[g]) THEN "limit" ELSE AfterUsage(g)]
      /\ UNCHANGED <<wvars, load, ents, events, ask, grant, before, tokens, last, now>>
  BY DEF ReadUsage, Move
<1>3. /\ ask[g].cost \in Nat /\ before[g].used \in Nat /\ grant[g] \in Entitlement
      /\ before[g].used <= Len(events) /\ \E i \in DOMAIN ents : grant[g] = ents[i]
  BY <1>1, <1>2, WorkloadTypes, GateAssumption DEF ClientTypes, ClientSound, NoAsk
<1>4. grant[g].limit \in Nat /\ grant[g].counts \in BOOLEAN
  BY <1>3 DEF Entitlement
<1>5. ClientTypes'
  BY <1>1, <1>2 DEF ClientTypes, Places, AfterUsage
<1>6. WalletInv' /\ Onward /\ Credited(Payer)' = Credited(Payer)
  BY <1>2, OnwardAlone
<1>7. /\ at'[g] = IF Exceeds(grant[g]) THEN "limit" ELSE AfterUsage(g)
      /\ \A h \in Clients \ {g} : Stays(h)
  BY <1>1, <1>2 DEF ClientTypes, Stays
<1>8. ents # <<>>
  BY <1>3
<1>9. ClientSound(g)'
  <2>1. CASE Exceeds(grant[g])
    BY <1>1, <1>2, <1>3, <1>4, <1>6, <1>7, <2>1 DEF ClientSound, Exceeds, Used
  <2>2. CASE ~Exceeds(grant[g])
    <3>1. (grant[g].kind = "metered" /\ grant[g].counts) => before[g].used + 1 <= grant[g].limit
      BY <1>1, <1>3, <1>4, <2>2 DEF Exceeds, Used
    <3>2. at'[g] = (IF ask[g].cost = 0 THEN "allowed" ELSE "within")
      BY <1>7, <2>2 DEF AfterUsage
    <3>3. QED
      BY <1>1, <1>2, <1>3, <1>4, <1>6, <1>8, <3>1, <3>2 DEF ClientSound
  <2>3. QED  BY <2>1, <2>2
<1>10. OverrunSound'
  <2>1. CASE Exceeds(grant[g])
    <3>1. Passed' \subseteq Passed
      BY <1>2, <1>7, <2>1 DEF Passed, Stays
    <3>2. QED  BY <1>2, <3>1, OverrunKept
  <2>2. CASE ~Exceeds(grant[g])
    <3> SUFFICES ASSUME Limited PROVE OverrunSound'
      BY <1>2 DEF OverrunSound, Limited
    <3>1. PICK i \in DOMAIN ents : grant[g] = ents[i]
      BY <1>3
    <3>2. Len(events) + 1 <= ents[i].limit
      BY <1>1, <1>4, <2>2, <3>1 DEF Exceeds, Used, Limited
    <3>3. /\ Cardinality(Passed') \in Nat /\ Cardinality(Clients) \in Nat
          /\ Cardinality(Passed') <= Cardinality(Clients)
      <4>1. Passed' \subseteq Clients
        BY DEF Passed
      <4>2. QED  BY <4>1, PassedSize, GateAssumption, FS_Subset, FS_CardinalityType
    <3>4. ents[i].limit \in Nat
      BY <1>4, <3>1
    <3>5. Len(events) + Cardinality(Passed') <= ents[i].limit + Cardinality(Clients) - 1
      BY <1>1, <3>2, <3>3, <3>4
    <3>6. QED  BY <1>2, <1>8, <3>5 DEF OverrunSound
  <2>3. QED  BY <2>1, <2>2
<1>11. BucketSound'
  <2>1. now \in Nat
    BY <1>1, WorkloadTypes DEF ClientTypes
  <2>2. QED  BY <1>1, <1>2, <2>1, BucketKept
<1>12. \A h \in Clients : ClientSound(h)'
  BY <1>5, <1>6, <1>7, <1>9, ClientKept
<1>13. QED  BY <1>5, <1>6, <1>10, <1>11, <1>12 DEF GateInv

\* How the log grows by an event at the present.
LEMMA LogGrows ==
    ASSUME ClientTypes, BucketSound, events' = Append(events, now)
    PROVE  /\ events' \in Seq(Nat) /\ Len(events') = Len(events) + 1
           /\ Len(events) \in Nat
           /\ DOMAIN events = 1..Len(events) /\ DOMAIN events' = 1..(Len(events) + 1)
           /\ \A i \in DOMAIN events : events'[i] = events[i]
           /\ events'[Len(events) + 1] = now /\ now \in Nat
<1>1. now \in Nat
  BY WorkloadTypes DEF ClientTypes
<1>2. QED  BY <1>1 DEF ClientTypes

\* The stretch since t, now that there is one more event at the present.
LEMMA SinceGrows ==
    ASSUME ClientTypes, BucketSound, events' = Append(events, now), NEW t \in 0..now
    PROVE  Cardinality(Since(t)') = Cardinality(Since(t)) + 1
<1>1. /\ DOMAIN events = 1..Len(events) /\ DOMAIN events' = 1..(Len(events) + 1)
      /\ \A i \in DOMAIN events : events'[i] = events[i]
      /\ events'[Len(events) + 1] = now /\ Len(events) \in Nat /\ now \in Nat
  BY LogGrows
<1>2. Since(t)' = Since(t) \cup {Len(events) + 1} /\ Len(events) + 1 \notin Since(t)
  BY <1>1 DEF Since
<1>3. QED  BY <1>2, SinceSize, FS_AddElement

\* Nothing happened after the bucket's last use.
LEMMA SinceLast ==
    ASSUME ClientTypes, BucketSound, NEW t \in Int, t > last
    PROVE  Cardinality(Since(t)) = 0
<1>1. Since(t) = {}
  BY DEF BucketSound, Since
<1>2. QED  BY <1>1, FS_EmptySet

\* What the bucket holds after its refill covers every stretch up to now.
LEMMA RefillCovers ==
    ASSUME ClientTypes, BucketSound, NEW t \in 0..now
    PROVE  /\ Refilled \in 0..Burst
           /\ Cardinality(Since(t)) + Refilled <= Burst + Rps * (now - t)
<1>1. /\ now \in Nat /\ last \in Nat /\ last <= now /\ tokens \in 0..Burst
      /\ Burst \in Nat /\ Rps \in Nat
  BY WorkloadTypes, GateAssumption DEF ClientTypes, BucketSound
<1>2. (now - last) * Rps \in Nat
  BY <1>1
<1>3. /\ Refilled \in 0..Burst
      /\ Refilled <= tokens + (now - last) * Rps
  BY <1>1, <1>2 DEF Refilled
<1>4. CASE t <= last
  <2>1. Cardinality(Since(t)) + tokens <= Burst + Rps * (last - t) /\ Cardinality(Since(t)) \in Nat
    BY <1>1, <1>4, SinceSize DEF BucketSound
  <2>2. Rps * (last - t) + (now - last) * Rps = Rps * (now - t)
    BY <1>1
  <2>3. Rps * (last - t) \in Int /\ Rps * (now - t) \in Int
    BY <1>1
  <2>4. QED  BY <1>1, <1>2, <1>3, <2>1, <2>2, <2>3
<1>5. CASE t > last
  <2>1. Cardinality(Since(t)) = 0 /\ Rps * (now - t) \in Nat
    BY <1>1, <1>5, SinceLast
  <2>2. QED  BY <1>1, <1>3, <2>1
<1>6. QED  BY <1>1, <1>3, <1>4, <1>5

\* The event of an allowed request: one token less, one event more, and one
\* client less that is past the limit.
LEMMA RecordTaken ==
    ASSUME GateInv, NEW g \in Clients, at[g] = "allowed", Len(events) < load.maxEvents,
           Refilled >= 1, last' = now, tokens' = Refilled - 1,
           events' = Append(events, now), Forget(g),
           UNCHANGED <<wvars, load, ents, now>>
    PROVE  GateInv'
<1>1. /\ ClientTypes /\ ClientSound(g) /\ BucketSound /\ OverrunSound
      /\ now \in Nat /\ Burst \in Nat /\ Rps \in Nat
  BY WorkloadTypes, GateAssumption DEF GateInv, ClientTypes
<1>2. /\ events' \in Seq(Nat) /\ Len(events') = Len(events) + 1 /\ Len(events) \in Nat
      /\ DOMAIN events = 1..Len(events) /\ DOMAIN events' = 1..(Len(events) + 1)
      /\ \A i \in DOMAIN events : events'[i] = events[i]
      /\ events'[Len(events) + 1] = now
  BY <1>1, LogGrows
<1>3. ClientTypes'
  BY <1>1, <1>2 DEF ClientTypes, Forget, Move, Places, NoGrant, Entitlement, Nothing
<1>4. /\ at'[g] = "idle" /\ grant'[g] = NoGrant
      /\ \A h \in Clients \ {g} : Stays(h)
  BY <1>1 DEF ClientTypes, Forget, Move, Stays
<1>5. WalletInv' /\ Onward
  <2>1. WalletInv' /\ met' = met
    BY WalletUnmoved DEF GateInv, wvars
  <2>2. Credited(Payer)' = Credited(Payer) /\ Credited(Payer) \in Nat
    <3>1. Ledger(Payer)' = Ledger(Payer)
      BY DEF Ledger, RowsOf, wvars
    <3>2. QED  BY <3>1, CreditedSums, CreditedSumsNext, CreditedIsLedger DEF CreditedSum, GateInv
  <2>3. QED  BY <1>2, <2>1, <2>2 DEF Onward
<1>6. ClientSound(g)'
  BY <1>4 DEF ClientSound
<1>7. \A h \in Clients : ClientSound(h)'
  BY <1>3, <1>4, <1>5, <1>6, ClientKept
<1>8. BucketSound'
  <2>1. Refilled \in 0..Burst
    <3>1. now \in 0..now
      BY <1>1
    <3>2. QED  BY <1>1, <3>1, RefillCovers
  <2>2. \A i \in DOMAIN events' : events'[i] \in 0..now
    BY <1>1, <1>2 DEF BucketSound
  <2>3. ASSUME NEW t \in 0..now
        PROVE  Cardinality(Since(t)') + tokens' <= Burst + Rps * (now - t)
    <3>1. Cardinality(Since(t)) + Refilled <= Burst + Rps * (now - t)
      BY <1>1, RefillCovers
    <3>2. Cardinality(Since(t)') = Cardinality(Since(t)) + 1 /\ Cardinality(Since(t)) \in Nat
      BY <1>1, SinceGrows, SinceSize
    <3>3. Rps * (now - t) \in Int
      BY <1>1
    <3>4. QED  BY <1>1, <2>1, <3>1, <3>2, <3>3
  <2>4. QED  BY <1>1, <2>1, <2>2, <2>3 DEF BucketSound
<1>9. OverrunSound'
  <2> SUFFICES ASSUME Limited PROVE OverrunSound'
    BY DEF OverrunSound, Limited
  <2>1. ents # <<>>
    BY <1>1 DEF ClientSound, Limited
  <2>2. PICK i \in DOMAIN ents :
           Len(events) + Cardinality(Passed) <= ents[i].limit + Cardinality(Clients) - 1
    BY <1>1, <2>1 DEF OverrunSound
  <2>3. Passed' = Passed \ {g} /\ g \in Passed
    BY <1>4 DEF Passed, Stays
  <2>4. /\ Cardinality(Passed) \in Nat /\ Cardinality(Clients) \in Nat
        /\ Cardinality(Passed') = Cardinality(Passed) - 1
    BY <2>3, PassedSize, FS_RemoveElement
  <2>5. ents[i] \in Entitlement
    BY <1>1 DEF ClientTypes
  <2>6. ents[i].limit \in Nat
    BY <2>5 DEF Entitlement
  <2>7. Len(events') + Cardinality(Passed') <= ents[i].limit + Cardinality(Clients) - 1
    BY <1>2, <2>2, <2>4, <2>6
  <2>8. QED  BY <2>1, <2>7 DEF OverrunSound
<1>10. QED  BY <1>3, <1>5, <1>7, <1>8, <1>9 DEF GateInv

\* The limiter refuses: the bucket is refilled and nothing else moves.
LEMMA RecordRefused ==
    ASSUME GateInv, last' = now, tokens' = Refilled,
           UNCHANGED <<wvars, load, ents, events, cvars, now>>
    PROVE  GateInv'
<1>1. ClientTypes /\ BucketSound /\ now \in Nat /\ Burst \in Nat /\ Rps \in Nat
  BY WorkloadTypes, GateAssumption DEF GateInv, ClientTypes
<1>2. ClientTypes' /\ \A h \in Clients : Stays(h)
  BY <1>1 DEF ClientTypes, cvars, Stays
<1>3. WalletInv' /\ Onward
  BY OnwardAlone
<1>4. \A h \in Clients : ClientSound(h)'
  BY <1>2, <1>3, ClientKept
<1>5. BucketSound'
  <2>1. \A t \in 0..now : Since(t)' = Since(t)
    BY DEF Since
  <2>2. \A t \in 0..now : /\ Refilled \in 0..Burst
                          /\ Cardinality(Since(t)) + Refilled <= Burst + Rps * (now - t)
    BY <1>1, RefillCovers
  <2>3. \A i \in DOMAIN events : events[i] \in 0..now
    BY <1>1 DEF BucketSound
  <2>4. Refilled \in 0..Burst /\ now \in 0..now
    BY <1>1, <2>2
  <2>5. QED  BY <1>1, <2>1, <2>2, <2>3, <2>4 DEF BucketSound
<1>6. OverrunSound'
  BY OverrunKept DEF Passed, cvars
<1>7. QED  BY <1>2, <1>3, <1>4, <1>5, <1>6 DEF GateInv

\* One more entitlement: the older ones are where they were.
LEMMA PutEntitlementStep ==
    ASSUME GateInv, NEW r \in GrantRequests, PutEntitlement(r)
    PROVE  GateInv'
<1>1. ClientTypes /\ BucketSound /\ OverrunSound /\ now \in Nat
  BY WorkloadTypes DEF GateInv, ClientTypes
<1>2. Written(r) \in Entitlement
  BY GateAssumption DEF GrantRequest, Written, DatedByAgent, Entitlement
<1>3. /\ ents' = Append(ents, Written(r))
      /\ UNCHANGED <<wvars, load, events, cvars, tokens, last, now>>
  BY DEF PutEntitlement
<1>4. /\ ents' \in Seq(Entitlement) /\ ents' # <<>> /\ DOMAIN ents' = 1..(Len(ents) + 1)
      /\ DOMAIN ents = 1..Len(ents) /\ Len(ents) \in Nat
      /\ \A i \in DOMAIN ents : ents'[i] = ents[i]
      /\ ents'[Len(ents) + 1] = Written(r)
  BY <1>1, <1>2, <1>3 DEF ClientTypes
<1>5. ClientTypes' /\ \A h \in Clients : Stays(h)
  BY <1>1, <1>3, <1>4 DEF ClientTypes, cvars, Stays
<1>6. WalletInv' /\ Onward
  <2>1. WalletInv' /\ met' = met
    BY <1>3, WalletUnmoved DEF GateInv, wvars
  <2>2. Credited(Payer)' = Credited(Payer) /\ Credited(Payer) \in Nat
    <3>1. Ledger(Payer)' = Ledger(Payer)
      BY <1>3 DEF Ledger, RowsOf, wvars
    <3>2. QED  BY <3>1, CreditedSums, CreditedSumsNext, CreditedIsLedger DEF CreditedSum, GateInv
  <2>3. Len(events) \in Nat
    BY <1>1 DEF ClientTypes
  <2>4. QED  BY <1>3, <1>4, <2>1, <2>2, <2>3 DEF Onward
<1>7. \A h \in Clients : ClientSound(h)'
  BY <1>5, <1>6, ClientKept
<1>8. BucketSound'
  BY <1>1, <1>3, BucketKept
<1>9. OverrunSound'
  <2> SUFFICES ASSUME Limited' PROVE OverrunSound'
    BY DEF OverrunSound
  <2>1. Limited
    BY <1>3, <1>4 DEF Limited
  <2>2. Passed' = Passed /\ events' = events
    BY <1>3 DEF Passed, cvars
  <2>3. /\ Cardinality(Clients) \in Nat /\ Cardinality(Clients) >= 1
        /\ Cardinality(Passed) \in Nat
    BY PassedSize
  <2>4. CASE ents = <<>>
    <3>1. Len(events) = 0
      BY <1>1, <2>1, <2>4 DEF OverrunSound
    <3>2. \A g \in Clients : at[g] \notin {"within", "allowed"}
      BY <2>1, <2>4 DEF GateInv, ClientSound, Limited
    <3>3. Passed = {}
      BY <3>2 DEF Passed
    <3>4. Cardinality(Passed) = 0
      BY <3>3, FS_EmptySet
    <3>5. 1 \in DOMAIN ents' /\ ents'[1] \in Entitlement
      BY <1>4
    <3>6. ents'[1].limit \in Nat
      BY <3>5 DEF Entitlement
    <3>7. Len(events) + Cardinality(Passed) <= ents'[1].limit + Cardinality(Clients) - 1
      BY <2>3, <3>1, <3>4, <3>6
    <3>8. QED  BY <1>4, <2>2, <3>5, <3>7 DEF OverrunSound
  <2>5. CASE ents # <<>>
    <3>1. PICK i \in DOMAIN ents :
             Len(events) + Cardinality(Passed) <= ents[i].limit + Cardinality(Clients) - 1
      BY <1>1, <2>1, <2>5 DEF OverrunSound
    <3>2. i \in DOMAIN ents' /\ ents'[i] = ents[i]
      BY <1>4
    <3>3. QED  BY <1>4, <2>2, <3>1, <3>2 DEF OverrunSound
  <2>6. QED  BY <2>4, <2>5
<1>10. QED  BY <1>5, <1>6, <1>7, <1>8, <1>9 DEF GateInv

\* Time passes.
LEMMA TickStep ==
    ASSUME GateInv, Tick
    PROVE  GateInv'
<1>1. ClientTypes /\ BucketSound /\ now \in Nat /\ load.maxTime \in Nat
  BY WorkloadTypes DEF GateInv, ClientTypes
<1>2. /\ now < load.maxTime /\ now' = now + 1
      /\ UNCHANGED <<wvars, load, ents, events, cvars, tokens, last>>
  BY DEF Tick
<1>3. ClientTypes' /\ \A h \in Clients : Stays(h)
  BY <1>1, <1>2 DEF ClientTypes, cvars, Stays
<1>4. WalletInv' /\ Onward
  BY <1>2, OnwardAlone
<1>5. \A h \in Clients : ClientSound(h)'
  BY <1>3, <1>4, ClientKept
<1>6. BucketSound'
  BY <1>1, <1>2, BucketKept
<1>7. OverrunSound'
  BY <1>2, OverrunKept DEF Passed, cvars
<1>8. QED  BY <1>3, <1>4, <1>5, <1>6, <1>7 DEF GateInv

\* A step of a top-up: credit only grows, nothing of the gate moves.
LEMMA PayStep ==
    ASSUME GateInv, NEW c \in Calls, Pay(c)
    PROVE  GateInv'
<1>1. ClientTypes /\ BucketSound /\ WalletInv /\ now \in Nat /\ Len(events) \in Nat
  BY WorkloadTypes DEF GateInv, ClientTypes
<1>2. TopUpStep(c) /\ UNCHANGED <<load, ents, events, cvars, tokens, last, now>>
  BY DEF Pay
<1>3. WalletInv' /\ WalletGrows
  BY <1>1, <1>2, WalletStep
<1>4. ClientTypes' /\ \A h \in Clients : Stays(h)
  BY <1>1, <1>2 DEF ClientTypes, cvars, Stays
<1>5. Onward
  BY <1>1, <1>2, <1>3, CreditedGrows DEF Onward, WalletGrows
<1>6. \A h \in Clients : ClientSound(h)'
  BY <1>3, <1>4, <1>5, ClientKept
<1>7. BucketSound'
  BY <1>1, <1>2, BucketKept
<1>8. OverrunSound'
  BY <1>2, OverrunKept DEF Passed, cvars
<1>9. QED  BY <1>3, <1>4, <1>6, <1>7, <1>8 DEF GateInv

\* A client meters what it was allowed, if the limiter lets it.
LEMMA RecordStep ==
    ASSUME GateInv, NEW g \in Clients, Record(g)
    PROVE  GateInv'
<1>1. CASE Refilled >= 1 /\ tokens' = Refilled - 1 /\ events' = Append(events, now) /\ Forget(g)
  BY <1>1, RecordTaken DEF Record
<1>2. CASE tokens' = Refilled /\ UNCHANGED <<events, cvars>>
  BY <1>2, RecordRefused DEF Record
<1>3. QED  BY <1>1, <1>2 DEF Record

\* A start without calls under way satisfies the invariant.
LEMMA GateInitial == GateInit => GateInv
<1> SUFFICES ASSUME GateInit PROVE GateInv
  OBVIOUS
<1>1. load \in Workloads /\ load.topUps \subseteq TopUps /\ load.maxTime \in Nat
  BY GateAssumption DEF GateInit
<1>2. ClientTypes
  BY <1>1 DEF GateInit, ClientTypes, Places, NoGrant, Entitlement, Nothing
<1>3. WalletInv
  BY <1>1, WalletInitial DEF GateInit
<1>4. \A g \in Clients : ClientSound(g)
  BY DEF GateInit, ClientSound
<1>5. BucketSound
  <2>1. Burst \in Nat /\ Rps \in Nat /\ DOMAIN events = {}
    BY GateAssumption DEF GateInit
  <2>2. \A t : Since(t) = {}
    BY <2>1 DEF Since
  <2>3. \A t : Cardinality(Since(t)) = 0
    BY <2>2, FS_EmptySet
  <2>4. last = 0 /\ now = 0 /\ tokens = Burst
    BY DEF GateInit
  <2>5. \A t \in 0..0 : Burst <= Burst + Rps * (0 - t)
    BY <2>1
  <2>6. QED  BY <2>1, <2>3, <2>4, <2>5 DEF BucketSound
<1>6. OverrunSound
  BY DEF GateInit, OverrunSound
<1>7. QED  BY <1>2, <1>3, <1>4, <1>5, <1>6 DEF GateInv

\* Every step keeps the invariant.
LEMMA GateStep == GateInv /\ [GateNext]_gvars => GateInv'
<1> SUFFICES ASSUME GateInv, [GateNext]_gvars PROVE GateInv'
  OBVIOUS
<1>1. ASSUME NEW c \in Calls, Pay(c) PROVE GateInv'
  BY <1>1, PayStep
<1>2. ASSUME NEW g \in Clients, Serve(g) PROVE GateInv'
  <2>1. CASE Denied(g) \/ GiveUp(g)
    BY <2>1, ForgetStep DEF Denied, GiveUp
  <2>2. QED
    BY <1>2, <2>1, AskStep, ReadEntitlementStep, ReadUsageStep, ReadBalanceStep, RecordStep
       DEF Serve
<1>3. ASSUME NEW r \in GrantRequests, PutEntitlement(r) PROVE GateInv'
  BY <1>3, PutEntitlementStep
<1>4. CASE Tick
  BY <1>4, TickStep
<1>5. CASE UNCHANGED gvars
  <2>1. UNCHANGED <<wvars, load, ents, events, cvars, tokens, last, now>>
    BY <1>5 DEF gvars
  <2>2. ClientTypes' /\ \A h \in Clients : Stays(h)
    BY <2>1 DEF GateInv, ClientTypes, cvars, Stays
  <2>3. WalletInv' /\ Onward
    BY <2>1, OnwardAlone
  <2>4. \A h \in Clients : ClientSound(h)'
    BY <2>2, <2>3, ClientKept
  <2>5. now \in Nat
    BY WorkloadTypes DEF GateInv, ClientTypes
  <2>6. BucketSound'
    BY <2>1, <2>5, BucketKept DEF GateInv
  <2>7. OverrunSound'
    BY <2>1, OverrunKept DEF Passed, cvars
  <2>8. QED  BY <2>2, <2>3, <2>4, <2>6, <2>7 DEF GateInv
<1>6. QED  BY <1>1, <1>2, <1>3, <1>4, <1>5 DEF GateNext

-----------------------------------------------------------------------------
(* The theorems.                                                           *)

\* The invariant: the books of the wallet, what each call and each client may
\* rely on, the bucket, and the room each entitlement has left.
THEOREM GateInvariant == GateSpec => []GateInv
BY GateInitial, GateStep, PTL DEF GateSpec

\* The invariant gives GateTypeOK.
LEMMA InvImpliesTypes == GateInv => GateTypeOK
<1> SUFFICES ASSUME GateInv PROVE GateTypeOK
  OBVIOUS
<1>1. WalletTypes /\ Booked(wallets, txns) /\ ClientTypes /\ BucketSound /\ Burst \in Nat
  BY GateAssumption DEF GateInv, WalletInv
<1>2. events \in Seq(0..load.maxTime)
  <2>1. load.maxTime \in Nat /\ now \in 0..load.maxTime
    BY <1>1, WorkloadTypes DEF ClientTypes
  <2>2. \A i \in 1..Len(events) : events[i] \in 0..load.maxTime
    BY <1>1, <2>1 DEF ClientTypes, BucketSound
  <2>3. events = [i \in 1..Len(events) |-> events[i]] /\ Len(events) \in Nat
    BY <1>1 DEF ClientTypes
  <2>4. [i \in 1..Len(events) |-> events[i]] \in Seq(0..load.maxTime)
    BY <2>2, <2>3
  <2>5. QED  BY <2>3, <2>4
<1>3. \A w \in wallets : w.id \in Calls /\ w.customer \in Customers /\ w.balance \in Nat
  BY <1>1 DEF Booked, WalletRow
<1>4. \A t \in txns : t.key \in Keys \cup Calls /\ t.wallet \in Calls /\ t.amount \in Nat
  BY <1>1 DEF Booked, TxnRow
<1>5. QED
  BY <1>1, <1>2, <1>3, <1>4 DEF GateTypeOK, WalletTypes, ClientTypes, BucketSound

\* The invariant gives VerdictWasTrue: the reads in hand were true when made.
LEMMA InvImpliesVerdict == GateInv => VerdictWasTrue
<1> SUFFICES ASSUME GateInv, NEW g \in Clients
             PROVE  /\ (at[g] = "allowed" /\ grant[g].kind = "metered" /\ grant[g].counts) =>
                          before[g].used + 1 <= grant[g].limit
                    /\ at[g] = "allowed" => Credited(Payer) >= ask[g].cost
                    /\ (at[g] = "limit") => Used(grant[g]) + 1 > grant[g].limit
                    /\ (at[g] = "balance" /\ met = {}) => before[g].credit < ask[g].cost
  BY DEF VerdictWasTrue
<1>1. QED  BY DEF GateInv, ClientSound

\* The invariant gives OverrunBounded.
LEMMA InvImpliesOverrun == GateInv => OverrunBounded
<1> SUFFICES ASSUME GateInv, ents # <<>>, Limited
             PROVE  \E i \in DOMAIN ents : Remaining(ents[i]) >= 1 - Cardinality(Clients)
  BY DEF OverrunBounded, Limited
<1>1. PICK i \in DOMAIN ents :
         Len(events) + Cardinality(Passed) <= ents[i].limit + Cardinality(Clients) - 1
  BY DEF GateInv, OverrunSound
<1>2. Len(events) \in Nat /\ ents[i] \in Entitlement
  BY DEF GateInv, ClientTypes
<1>3. ents[i].limit \in Nat
  BY <1>2 DEF Entitlement
<1>4. Remaining(ents[i]) = ents[i].limit - Len(events)
  BY DEF Limited, Remaining, Used
<1>5. QED  BY <1>1, <1>2, <1>3, <1>4, PassedSize

\* The invariant gives RateBounded: the tokens spent since any moment.
LEMMA InvImpliesRate == GateInv => RateBounded
<1> SUFFICES ASSUME GateInv, NEW t \in 0..now
             PROVE  Cardinality(Since(t)) <= Burst + Rps * (now - t)
  BY DEF RateBounded, Since
<1>1. /\ Refilled \in 0..Burst
      /\ Cardinality(Since(t)) + Refilled <= Burst + Rps * (now - t)
      /\ Cardinality(Since(t)) \in Nat
  BY RefillCovers, SinceSize DEF GateInv
<1>2. now \in Nat /\ Rps \in Nat /\ Burst \in Nat
  BY WorkloadTypes, GateAssumption DEF GateInv, ClientTypes
<1>3. Rps * (now - t) \in Int
  BY <1>2
<1>4. QED  BY <1>1, <1>2, <1>3

\* The wallet, the entitlements and the clients are well typed in every state.
THEOREM GateTypeCorrect == GateSpec => []GateTypeOK
BY GateInvariant, InvImpliesTypes, PTL

\* However top-ups overlap, repeat, fail half-way or lose their commit, a
\* wallet holds the sum of its ledger rows and no key has two of them.
THEOREM BooksBalance == GateSpec => []BalanceIsLedger
<1>1. GateInv => BalanceIsLedger
  BY InvImpliesBalanceIsLedger DEF GateInv
<1>2. QED  BY <1>1, GateInvariant, PTL

\* A top-up answered with success is in the ledger, in its customer's own
\* wallet unless another customer used its key.
THEOREM SuccessIsStored == GateSpec => []AnswersHold
<1>1. GateInv => AnswersHold
  BY InvImpliesAnswersHold DEF GateInv
<1>2. QED  BY <1>1, GateInvariant, PTL

\* A read of the balance shows all that was credited to a customer none of
\* whose top-ups were in flight together.
THEOREM ReadsShowAllCredit == GateSpec => []WholeBalance
<1>1. GateInv => WholeBalance
  BY InvImpliesWholeBalance DEF GateInv
<1>2. QED  BY <1>1, GateInvariant, PTL

\* A verdict of the gate was true at some moment of its call.
THEOREM VerdictsWereTrue == GateSpec => []VerdictWasTrue
BY GateInvariant, InvImpliesVerdict, PTL

\* Any number of clients overrun an entitlement by all but one at most.
THEOREM OverrunIsBounded == GateSpec => []OverrunBounded
BY GateInvariant, InvImpliesOverrun, PTL

\* The ingest path never takes more than its depth and its refill.
THEOREM RateIsBounded == GateSpec => []RateBounded
BY GateInvariant, InvImpliesRate, PTL

\* No step takes away what was credited to a customer: a rollback, a repeat or
\* a lost commit undoes no top-up that is in.
THEOREM CreditNeverShrinks ==
    GateSpec => [][\A cu \in Customers : Credited(cu) <= Credited(cu)']_gvars
<1>1. ASSUME GateInv, GateInv', [GateNext]_gvars, NEW cu \in Customers
      PROVE  Credited(cu) <= Credited(cu)'
  <2>1. WalletGrows
    <3>1. CASE \E c \in Calls : Pay(c)
      BY <1>1, <3>1, WalletStep DEF Pay, GateInv
    <3>2. CASE UNCHANGED wvars
      BY <1>1, <3>2, WalletUnmoved DEF GateInv
    <3>3. (\E c \in Calls : Pay(c)) \/ UNCHANGED wvars
      BY <1>1 DEF GateNext, Serve, Ask, ReadEntitlement, ReadUsage, ReadBalance, Denied,
                  Record, GiveUp, PutEntitlement, Tick, gvars
    <3>4. QED  BY <3>1, <3>2, <3>3
  <2>2. QED  BY <1>1, <2>1, CreditedGrows DEF GateInv
<1>2. GateInv /\ GateInv' /\ [GateNext]_gvars => \A cu \in Customers : Credited(cu) <= Credited(cu)'
  BY <1>1
<1>3. QED  BY <1>2, GateInvariant, PTL DEF GateSpec
=============================================================================
