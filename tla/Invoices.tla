------------------------------ MODULE Invoices ------------------------------
(***************************************************************************)
(* The bill of a subscription, and what is made from a bill: its hash, its *)
(* ledger, the proof that it still holds, a comparison with another bill,  *)
(* the revenue recognised so far.  Pure functions of what the store holds. *)
(*                                                                         *)
(* A subscription is [start, end, started, plan]; nothing in the code ever *)
(* cancels one.  There is one customer, so a bill does not name its own.   *)
(* A line of a bill is also its trace: what was read and what it costs.    *)
(***************************************************************************)
EXTENDS Rating

NoMeter == "none"     \* the aggregation of a code without a meter
TaxCode == "tax"

Events(p, sub, log) == InWindow(log, p.code, sub.start, sub.end)

\* The bill can be computed: otherwise every handler that asks for it fails.
Computable(sub, prices, meters, log) ==
    /\ sub.end > sub.start
    /\ \A i \in DOMAIN prices :
         LET p == prices[i]
             es == Events(p, sub, log)
         IN /\ p.currency = prices[1].currency
            /\ Priceable(p)
            /\ p.model # "flat" => /\ meters[p.code] # NoMeter
                                   /\ Readable(meters[p.code], es)
                                   /\ Aggregate(meters[p.code], es) >= 0

UnitPrice(p) == CASE p.model = "per_unit" -> p.unit
                  [] p.model = "flat" -> p.flat
                  [] OTHER -> 0

FlatLine(p, sub) ==
    LET f == ProrationFactor(sub.start, sub.end, sub.started)
    IN [code |-> p.code, model |-> p.model, count |-> 0, qty |-> 1, price |-> UnitPrice(p),
        amount |-> RoundDown(Charge(p, 1) * f, Scale, p.currency)]

UsageLine(p, sub, meters, log) ==
    LET es == Events(p, sub, log)
        q  == Aggregate(meters[p.code], es)
    IN [code |-> p.code, model |-> p.model, count |-> Cardinality(es), qty |-> q,
        price |-> UnitPrice(p), amount |-> RoundDown(Charge(p, q), 1, p.currency)]

PricedLine(p, sub, meters, log) ==
    IF p.model = "flat" THEN FlatLine(p, sub) ELSE UsageLine(p, sub, meters, log)

\* Of the lines of one code only their order by model matters to anyone;
\* lines of one model stay in the order of their prices.
Rank(model) == CHOOSE k \in DOMAIN Models : Models[k] = model
Before(lines, i, j) ==
    LET r == Rank(lines[i].model)
        s == Rank(lines[j].model)
    IN r < s \/ (r = s /\ i < j)
Place(lines, i) == 1 + Cardinality({j \in DOMAIN lines : Before(lines, j, i)})
InOrder(lines) ==
    [k \in DOMAIN lines |-> lines[CHOOSE i \in DOMAIN lines : Place(lines, i) = k]]

TaxLine(subtotal, rate, c) ==
    [code |-> TaxCode, model |-> "", count |-> 0, qty |-> rate, price |-> 0,
     amount |-> RoundDown(subtotal * rate, 100, c)]

Total(lines) == FoldLeft(LAMBDA a, l : a + l.amount, 0, lines)

Calculate(sub, prices, meters, log, rate) ==
    LET c == prices[1].currency
        lines == InOrder([i \in DOMAIN prices |-> PricedLine(prices[i], sub, meters, log)])
        all == IF rate > 0 THEN Append(lines, TaxLine(Total(lines), rate, c)) ELSE lines
    IN [currency |-> c, start |-> sub.start, end |-> sub.end, lines |-> all,
        total |-> Total(all)]

\* The hash covers the canonical lines and the total: they stand for it.
Hashed(l) == [code |-> l.code, qty |-> l.qty, price |-> l.price, amount |-> l.amount]
Hash(bill) ==
    [currency |-> bill.currency, start |-> bill.start, end |-> bill.end, total |-> bill.total,
     lines |-> ToBag([i \in DOMAIN bill.lines |-> Hashed(bill.lines[i])])]

Codes(bill) == {l.code : l \in ToSet(bill.lines)}
DistinctCodes(bill) == Cardinality(Codes(bill)) = Len(bill.lines)

-----------------------------------------------------------------------------
(* The reconciliation ledger and its proof.                                *)

\* A deliberate slip of the operator that follows it: nothing else uses it.
RowUncounted(l) == [code |-> l.code, count |-> 0, qty |-> l.qty, amount |-> l.amount]
Row(l) == [code |-> l.code, count |-> l.count, qty |-> l.qty, amount |-> l.amount]
LedgerOf(bill) ==
    [i \in DOMAIN bill.lines |-> [row |-> Row(bill.lines[i]), hash |-> Hash(bill)]]

\* The rows are joined in maps by their code: the last one of a code stays.
LastOf(rows, code) == rows[Max({i \in DOMAIN rows : rows[i].code = code})]

RowsAgree(ledger, live) ==
    LET stored == [i \in DOMAIN ledger |-> ledger[i].row]
        fresh  == [i \in DOMAIN live.lines |-> Row(live.lines[i])]
    IN /\ {r.code : r \in ToSet(stored)} = Codes(live)
       /\ \A code \in Codes(live) : LastOf(stored, code) = LastOf(fresh, code)

Consistent(bill, ledger, live) ==
    /\ ledger # <<>> /\ ledger[1].hash = Hash(live)
    /\ bill.total = live.total
    /\ RowsAgree(ledger, live)

-----------------------------------------------------------------------------
(* Two bills side by side, by code, for a plan change.                     *)

\* Of lines that share a code the last one in the canonical order is shown:
\* any, as far as anyone can tell.
AmountsOf(bill, code) ==
    IF code \in Codes(bill) THEN {l.amount : l \in {k \in ToSet(bill.lines) : k.code = code}}
    ELSE {0}
DeltasOfBoth(current, proposed, code) ==   \* a deliberate slip: new codes left out
    IF code \in Codes(current) THEN {p - c : p \in AmountsOf(proposed, code), c \in AmountsOf(current, code)}
    ELSE {0}
Deltas(current, proposed, code) ==
    {p - c : p \in AmountsOf(proposed, code), c \in AmountsOf(current, code)}
TotalDelta(current, proposed) == proposed.total - current.total

-----------------------------------------------------------------------------
(* Revenue recognised by a moment, straight line over the period.          *)

FractionUnclamped(bill, asOf) ==   \* a deliberate slip: no end to the period
    IF asOf <= bill.start THEN 0 ELSE Fraction(asOf - bill.start, bill.end - bill.start)
RecognizedFraction(bill, asOf) ==
    CASE asOf <= bill.start -> 0
      [] asOf >= bill.end -> Scale
      [] OTHER -> Fraction(asOf - bill.start, bill.end - bill.start)

RecognizedLine(l, bill, asOf) == RoundDown(l.amount * RecognizedFraction(bill, asOf), Scale, bill.currency)
DeferredLine(l, bill, asOf) == RoundDown(l.amount, 1, bill.currency) - RecognizedLine(l, bill, asOf)

TotalRecognized(bill, asOf) ==
    FoldLeft(LAMBDA a, l : a + RecognizedLine(l, bill, asOf), 0, bill.lines)
TotalDeferred(bill, asOf) == RoundDown(bill.total, 1, bill.currency) - TotalRecognized(bill, asOf)
=============================================================================
