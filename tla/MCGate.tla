------------------------------- MODULE MCGate -------------------------------
(***************************************************************************)
(* A finite instance of Gate: two top-ups that may carry one key, for one  *)
(* customer or two, and two gated clients of the first customer.           *)
(***************************************************************************)
EXTENDS Gate

CONSTANTS Alice, Bob, K1, USD, EUR

Ask1(cu, k, n, u, a) == [customer |-> cu, key |-> k, amount |-> n, currency |-> u, agent |-> a]

\* A keyed top-up and the same one for another customer, one without a key,
\* one in another currency, one by the agent, one above its cap, a negative one.
MCTopUps == {Ask1(Alice, K1, 1, USD, FALSE), Ask1(Bob, K1, 1, USD, FALSE),
             Ask1(Alice, NoKey, 2, USD, FALSE), Ask1(Alice, NoKey, 1, EUR, FALSE),
             Ask1(Alice, NoKey, 1, USD, TRUE), Ask1(Alice, NoKey, 9, USD, TRUE),
             Ask1(Alice, NoKey, -1, USD, FALSE)}

Feature == [feature |-> TRUE, cost |-> 0]
Both    == [feature |-> TRUE, cost |-> 2]
Spend   == [feature |-> FALSE, cost |-> 2]
MCAsks  == {Feature, Both, Spend}

Grant(k, n, d, m, a) == [kind |-> k, limit |-> n, dated |-> d, meterKnown |-> m, agent |-> a]
MCGrantRequests == {Grant("metered", 1, TRUE, TRUE, FALSE),
                    Grant("metered", 2, FALSE, TRUE, TRUE),
                    Grant("metered", 1, FALSE, TRUE, FALSE)}

Load(t, a, n, e, m) == [topUps |-> t, asks |-> a, maxGrants |-> n, maxEvents |-> e,
                        maxTime |-> m]
\* Prepaid customers with nothing metered; metered ones without a wallet; both.
MCWorkloads == {Load(MCTopUps, {Spend}, 0, 0, 0),
                Load({}, {Feature}, 2, 4, 2),
                Load({Ask1(Alice, NoKey, 2, USD, FALSE)}, {Feature, Both}, 1, 2, 0)}

MCSymmetry == Permutations(Calls) \cup Permutations(Clients)
=============================================================================
