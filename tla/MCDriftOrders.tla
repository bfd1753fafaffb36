--------------------------- MODULE MCDriftOrders ---------------------------
EXTENDS DriftOrders

P(type, dir, base, price, reduce_only, post_only, ioc, trigger, trigger_price, max_ts, uid) ==
  [type |-> type, dir |-> dir, base |-> base, price |-> price, reduce_only |-> reduce_only,
   post_only |-> post_only, ioc |-> ioc, trigger |-> trigger, trigger_price |-> trigger_price,
   auction |-> FALSE, max_ts |-> max_ts, uid |-> uid]

\* A taker, resting orders of both sides, a reduce-only, a trigger and a JIT order.
MCTemplates ==
  {P("Limit", "Long", 2, 12, FALSE, "None", TRUE, "Above", 0, -1, 0),
   P("Market", "Long", 1, 0, FALSE, "None", FALSE, "Above", 0, -1, 0),
   P("Limit", "Short", 2, 9, FALSE, "Try", FALSE, "Above", 0, 1, 1),
   P("TriggerMarket", "Short", 2, 0, TRUE, "None", FALSE, "Below", 10, -1, 1),
   P("Limit", "Short", 1, 10, FALSE, "Must", TRUE, "Above", 0, -1, 0)}

MCOpenings == {p \in MCTemplates : p.ioc /\ p.dir = "Long"}

MCChanges == {[base |-> 1, exclude_previous_fill |-> TRUE, price |-> 0, must_modify |-> FALSE],
              [base |-> -1, exclude_previous_fill |-> FALSE, price |-> 10, must_modify |-> TRUE]}

MCFundingRates == {-3, 3}

Symmetric == Permutations(Users)
=============================================================================
