----------------------------- MODULE MCBilling -----------------------------
(***************************************************************************)
(* Finite scenes of Billing: what a deployment sells, to whom, and what    *)
(* its rails may do.  Amounts in mills; the period is [1, 4).              *)
(***************************************************************************)
EXTENDS Billing

Blank == [code |-> "", model |-> "flat", currency |-> "USD", unit |-> 0, flat |-> 0,
          tiers |-> <<>>, size |-> 0, percent |-> 0, minimum |-> 0, maximum |-> 0]
Tier(u, n, f) == [upTo |-> u, unit |-> n, flat |-> f]

Flat(n, c)   == [Blank EXCEPT !.flat = n, !.currency = c]
PerUnit(n)   == [Blank EXCEPT !.code = "calls", !.model = "per_unit", !.unit = n]
Ladder       == <<Tier(3, 25, 100), Tier(8, 12, 0), Tier(Unbounded, 3, 55)>>
GraduatedP   == [Blank EXCEPT !.code = "calls", !.model = "tiered_graduated", !.tiers = Ladder]
VolumeP      == [Blank EXCEPT !.code = "calls", !.model = "tiered_volume", !.tiers = Ladder]
Broken       == [Blank EXCEPT !.code = "calls", !.model = "tiered_volume", !.tiers = <<Tier(3, 1, 0)>>]
PackageP     == [Blank EXCEPT !.code = "calls", !.model = "package", !.unit = 1000, !.size = 3]
PercentP     == [Blank EXCEPT !.code = "calls", !.model = "percentage", !.percent = 7,
                              !.minimum = 120, !.maximum = 600]
OnTax        == [Blank EXCEPT !.code = "tax", !.model = "per_unit", !.unit = 15]

Ev(i, c, t, k, v) == [id |-> i, code |-> c, time |-> t, kind |-> k, value |-> v]
Usage == {Ev(1, "calls", 0, "number", 9), Ev(2, "calls", 1, "number", 1),
          Ev(3, "calls", 2, "number", 3), Ev(4, "calls", 3, "number", 7),
          Ev(5, "calls", 4, "number", 9), Ev(6, "calls", 3, "text", 3)}
Few   == {Ev(1, "calls", 1, "number", 2), Ev(2, "calls", 3, "number", 0),
          Ev(3, "tax", 2, "number", 1)}

Sum == [code |-> "calls", agg |-> "sum"]
AllMeters == {[code |-> "calls", agg |-> a] : a \in Aggregations}
MCCodes == {"", "calls", "tax"}
From(t) == [start |-> 1, end |-> 4, started |-> t]

Scene == [tax |-> 0, writes |-> {Sum}, plans |-> [A |-> <<GraduatedP>>], periods |-> {From(1)},
          pool |-> {}, agent |-> FALSE, proposed |-> "none", rails |-> {},
          edits |-> {}, finalizes |-> FALSE, quick |-> "none", maxSubs |-> 1]
NoRail == [want |-> "", has |-> {}, broken |-> {}]
AnyRail == {[want |-> w, has |-> {n}, broken |-> {"crypto"} \ {n}] : w \in {"", "dodo"}, n \in ToSet(registry)}
             \cup {[want |-> "", has |-> {"polar", "stripe"}, broken |-> {}]}

Tiered == [Scene EXCEPT !.tax = 8, !.pool = Usage,
             !.plans = [A |-> <<GraduatedP, PerUnit(13)>>, B |-> <<VolumeP>>, C |-> <<Broken>>]]
Metered == [Scene EXCEPT !.tax = 21, !.pool = Usage,
             !.writes = AllMeters \cup {[code |-> "tax", agg |-> "sum"]},
             !.plans = [A |-> <<PackageP, PercentP>>]]
Prorated == [Scene EXCEPT !.tax = 9, !.maxSubs = 2, !.agent = TRUE,
             !.periods = {From(0), From(2), From(3), From(5), [start |-> 4, end |-> 1, started |-> 4]},
             !.plans = [A |-> <<Flat(10000, "USD"), Flat(3335, "USD")>>,
                        B |-> <<Flat(10000, "JPY")>>, C |-> <<Flat(1001, "BHD")>>,
                        D |-> <<Flat(1000, "USD"), Flat(1000, "JPY")>>,
                        E |-> <<Flat(-1000, "USD")>>]]
Finalized == [Scene EXCEPT !.tax = 10, !.pool = Few, !.agent = TRUE, !.finalizes = TRUE,
             !.writes = {Sum, [code |-> "calls", agg |-> "count"], [code |-> "tax", agg |-> "sum"]},
             !.periods = {From(1), From(2)}, !.rails = {NoRail},
             !.plans = [A |-> <<Flat(1000, "USD"), PerUnit(125)>>, B |-> <<PerUnit(17), OnTax>>,
                        C |-> <<Flat(990, "USD"), Flat(500, "USD")>>]]
Railed == [Scene EXCEPT !.finalizes = TRUE, !.rails = AnyRail \cup {NoRail}, !.edits = {0, 5, 99, 100},
             !.writes = {}, !.tax = 10, !.plans = [A |-> <<Flat(905, "USD")>>, B |-> <<Flat(5000, "JPY")>>,
                        C |-> <<Flat(0, "USD")>>, D |-> <<Flat(5000, "jpy")>>]]
Simulated == [Scene EXCEPT !.pool = Few, !.proposed = "B", !.agent = TRUE, !.maxSubs = 2,
             !.writes = {Sum, [code |-> "calls", agg |-> "count"]},
             !.plans = [A |-> <<Flat(1000, "USD")>>, B |-> <<Flat(800, "USD"), PerUnit(125)>>]]
Quick == [Scene EXCEPT !.quick = "A", !.pool = Few, !.writes = {[code |-> "calls", agg |-> "max"]},
             !.finalizes = TRUE, !.rails = {NoRail},
             !.plans = [A |-> <<Flat(1500, "USD"), PerUnit(1)>>]]

\* A yearly plan, subscribed to with eighteen days left: 289.97 mills of it.
Yearly == [Scene EXCEPT !.tax = 9, !.periods = {[start |-> 1, end |-> 366, started |-> 348]},
             !.plans = [A |-> <<Flat(5880, "USD")>>]]

MCScenes == {Tiered, Metered, Prorated, Finalized, Railed, Simulated, Quick, Yearly}

\* A plan in yen, its currency written small, on a rail that edits nothing.
SmallYen == {[Railed EXCEPT !.edits = {}, !.tax = 0,
                            !.plans = [A |-> <<Flat(5000, "jpy")>>, B |-> <<Flat(5000, "JPY")>>]]}
=============================================================================
