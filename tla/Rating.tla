------------------------------- MODULE Rating -------------------------------
(***************************************************************************)
(* Money, meters and prices: the pure functions a bill is built from.      *)
(* An amount is a number of mills, thousandths of the currency's major     *)
(* unit; a quantity is an integer.  A fraction is a number of parts of     *)
(* Scale, rounded half up as DivRound does (the code keeps 12 digits).     *)
(***************************************************************************)
EXTENDS Integers, Sequences, FiniteSets, SequencesExt

Scale == 100000
Unbounded == -1      \* the up_to of a last tier

Aggregations == {"count", "sum", "max", "unique"}
Models == <<"flat", "package", "per_unit", "percentage", "tiered_graduated", "tiered_volume">>

\* What a price and an event are made of.
Tiers == [upTo : Int, unit : Int, flat : Int]
PricesOn(codes) ==
    [code : codes, model : ToSet(Models), currency : STRING, unit : Int, flat : Int,
     tiers : Seq(Tiers), size : Int, percent : Int, minimum : Int, maximum : Int]
EventOK(e) == e.time \in Int /\ (e.kind = "number" => e.value \in Int)

\* The minor unit of a currency; the table knows codes in capitals only.
Unit(c) == CASE c = "JPY" -> 1000 [] c = "BHD" -> 1 [] OTHER -> 10

\* A deliberate slip of the operator that follows it: nothing else uses it.
RoundUp(n, d, c) == ((n + d * Unit(c) - 1) \div (d * Unit(c))) * Unit(c)

\* n/d mills cut to whole minor units, towards zero.
RoundDown(n, d, c) ==
    LET whole(x) == (x \div (d * Unit(c))) * Unit(c)
    IN IF n >= 0 THEN whole(n) ELSE -whole(-n)

MinorUnits(a, c) == RoundDown(a, 1, c) \div Unit(c)

Fraction(part, whole) == (2 * part * Scale + whole) \div (2 * whole)

-----------------------------------------------------------------------------
(* Meters.  An event has a moment and one property: a number, a text or    *)
(* nothing at all.                                                         *)

InWindow(log, code, from, to) ==
    {e \in log : e.code = code /\ from <= e.time /\ e.time < to}

\* A sum or a maximum needs a number in every event, unique needs something.
Readable(agg, es) ==
    /\ agg \in {"sum", "max"} => \A e \in es : e.kind = "number"
    /\ agg = "unique" => \A e \in es : e.kind # "missing"

Values(es) == {e.value : e \in es}
Aggregate(agg, es) ==
    CASE agg = "count"  -> Cardinality(es)
      [] agg = "sum"    -> MapThenSumSet(LAMBDA e : e.value, es)
      [] agg = "max"    -> IF es = {} THEN 0 ELSE Max(Values(es))
      [] agg = "unique" -> Cardinality(Values(es))

-----------------------------------------------------------------------------
(* Prices.                                                                 *)

\* At least one tier, bounds positive and ascending, the last one unbounded.
LadderOK(tiers) ==
    /\ tiers # <<>>
    /\ Last(tiers).upTo = Unbounded
    /\ \A i \in 1..(Len(tiers) - 1) :
          tiers[i].upTo > (IF i = 1 THEN 0 ELSE tiers[i - 1].upTo)

\* A deliberate slip of the operator that follows it: nothing else uses it.
GraduatedFromZero(tiers, q) ==   \* every tier measured from zero
    FoldLeft(LAMBDA acc, t :
        LET n == IF t.upTo = Unbounded THEN acc.left ELSE Min({acc.left, t.upTo})
        IN IF n <= 0 THEN acc
           ELSE [acc EXCEPT !.total = @ + n * t.unit + t.flat, !.left = @ - n],
        [total |-> 0, left |-> q], tiers).total
\* Each tier takes its capacity of what is left, and its flat fee if it takes any.
TierTakes(acc, t) ==
    LET n == IF t.upTo = Unbounded THEN acc.left ELSE Min({acc.left, t.upTo - acc.lower})
    IN IF n <= 0 THEN acc
       ELSE [total |-> acc.total + n * t.unit + t.flat, left |-> acc.left - n, lower |-> t.upTo]
Graduated(tiers, q) ==
    FoldLeft(TierTakes, [total |-> 0, left |-> q, lower |-> 0], tiers).total

\* The whole quantity at the first tier that holds it.
Volume(tiers, q) ==
    LET t == SelectInSeq(tiers, LAMBDA x : x.upTo = Unbounded \/ q <= x.upTo)
    IN q * tiers[t].unit + tiers[t].flat

Package(p, q) == p.unit * ((q + p.size - 1) \div p.size)

\* The quantity is money in major units: q * 1000 mills, percent hundredths.
Percentage(p, q) == q * p.percent * 10

\* The floor, then the cap; zero means there is none.
Bounded(p, a) ==
    LET floored == IF p.minimum # 0 /\ a < p.minimum THEN p.minimum ELSE a
    IN IF p.maximum # 0 /\ floored > p.maximum THEN p.maximum ELSE floored

Priceable(p) ==
    CASE p.model \in {"tiered_graduated", "tiered_volume"} -> LadderOK(p.tiers)
      [] p.model = "package"    -> p.size > 0
      [] p.model = "percentage" -> p.percent >= 0
      [] OTHER -> TRUE

Base(p, q) ==
    CASE p.model = "flat"             -> p.flat
      [] p.model = "per_unit"         -> p.unit * q
      [] p.model = "tiered_graduated" -> Graduated(p.tiers, q)
      [] p.model = "tiered_volume"    -> Volume(p.tiers, q)
      [] p.model = "package"          -> Package(p, q)
      [] p.model = "percentage"       -> Percentage(p, q)

\* Of a price that is Priceable and a quantity that is not negative.
Charge(p, q) == Bounded(p, Base(p, q))

\* The part of the period [start, end) in which the subscription runs.
ProrationFactor(start, end, started) ==
    LET overlap == end - Max({start, started})
    IN CASE overlap <= 0 -> 0
         [] overlap >= end - start -> Scale
         [] OTHER -> Fraction(overlap, end - start)
=============================================================================
