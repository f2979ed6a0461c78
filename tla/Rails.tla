------------------------------- MODULE Rails -------------------------------
(***************************************************************************)
(* The payment rails behind the one Processor interface, by what an        *)
(* adapter does that the others do not:                                    *)
(*   perLine    bills the lines, not the total                             *)
(*   currency   sends the currency along                                   *)
(*   sameThing  reads back the thing it created, not one of another kind   *)
(*   fallsBack  reads a second amount when the first one is zero           *)
(* The document a rail keeps is external: [total, due, currency].          *)
(***************************************************************************)
EXTENDS Invoices

Rail(l, c, s, f) == [perLine |-> l, currency |-> c, sameThing |-> s, fallsBack |-> f]

stripe       == Rail(TRUE,  TRUE,  TRUE,  TRUE)
dodo         == Rail(FALSE, TRUE,  TRUE,  TRUE)
paddle       == Rail(FALSE, TRUE,  TRUE,  FALSE)
lemonsqueezy == Rail(FALSE, FALSE, FALSE, FALSE)
polar        == Rail(FALSE, TRUE,  FALSE, FALSE)
creem        == Rail(FALSE, TRUE,  TRUE,  FALSE)
razorpay     == Rail(FALSE, TRUE,  TRUE,  FALSE)
crypto       == Rail(FALSE, TRUE,  TRUE,  TRUE)

\* The rails by name, in the order they are looked for; the fake rail is a test double.
registry == <<"stripe", "dodo", "paddle", "lemonsqueezy", "polar", "creem", "razorpay", "crypto">>
Adapter(name) ==
    CASE name = "stripe" -> stripe   [] name = "dodo" -> dodo
      [] name = "paddle" -> paddle   [] name = "lemonsqueezy" -> lemonsqueezy
      [] name = "polar" -> polar     [] name = "creem" -> creem
      [] name = "razorpay" -> razorpay [] name = "crypto" -> crypto

\* The rail of a deployment with these credentials, some of them broken (set in
\* part): the one it names, or the first it has.  One it names and cannot build,
\* or a broken one that comes first, stops the process ("error").
Select(want, configured, broken) ==
    LET set    == {i \in DOMAIN registry : registry[i] \in configured \cup broken}
        found  == IF want # "" THEN want ELSE registry[Min(set)]
    IN IF want = "" /\ set = {} THEN "none"
       ELSE IF found \in ToSet(registry) \cap (configured \ broken) THEN found
       ELSE "error"

\* The same currency in capitals, as every adapter sends it.
Upper(c) == CASE c = "jpy" -> "JPY" [] c = "usd" -> "USD" [] OTHER -> c

\* What PushInvoice asks the rail to bill, in the ledger currency's minor units.
Pushed(a, bill) ==
    IF a.perLine
    THEN FoldLeft(LAMBDA n, l : n + MinorUnits(l.amount, bill.currency), 0, bill.lines)
    ELSE MinorUnits(RoundDown(bill.total, 1, bill.currency), bill.currency)

\* The document as it is created; a rail that gets no currency has its own.
Document(a, bill) ==
    [total |-> Pushed(a, bill), due |-> Pushed(a, bill),
     currency |-> IF a.currency THEN Upper(bill.currency) ELSE "USD"]

\* A deliberate slip of the operator that follows it: nothing else uses it.
FetchedDue(a, doc) == doc.due
Fetched(a, doc) == IF a.fallsBack /\ doc.total = 0 THEN doc.due ELSE doc.total

\* verifyInvoice: read back what the rail billed, compare minor units.
Verifiable(a) == a.sameThing
Verified(a, doc, bill) == Fetched(a, doc) = MinorUnits(bill.total, bill.currency)
=============================================================================
