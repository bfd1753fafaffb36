---------------------------- MODULE MCDriftSpot ----------------------------
EXTENDS DriftSpot

MCAccounts == {"a", "b", "c"}

MCSegments == <<<<85, 5>>, <<90, 10>>, <<95, 15>>, <<99, 20>>, <<100, 50>>>>

MCSettings ==
  [price |-> [i \in {0, 1} |-> i + 1],
   asset |-> [i \in {0, 1} |-> IF i = 0 THEN [Initial |-> 100, Maintenance |-> 100] ELSE [Initial |-> 80, Maintenance |-> 90]],
   liability |-> [i \in {0, 1} |-> IF i = 0 THEN [Initial |-> 100, Maintenance |-> 100] ELSE [Initial |-> 120, Maintenance |-> 110]],
   pnl_weight |-> [Initial |-> 50, Maintenance |-> 100], ratio |-> [Initial |-> 40, Maintenance |-> 20], buffer |-> 5, order_margin |-> 1,
   paused |-> {}, band |-> 10, left |-> {0, 10}, some |-> 10, limit |-> 20, revenue_threshold |-> 5, last_settle |-> 1,
   expiry_fee |-> 2, settlement_duration |-> 0, builder |-> "b", builder_referral |-> FALSE, builder_codes |-> TRUE,
   rounding |-> 3]

D(n) == [bal |-> n * 10, type |-> "Deposit"]
B(n) == [bal |-> n * 10, type |-> "Borrow"]

MCPosition(base, quote, iso, ib, liq) ==
  [base |-> base, quote |-> quote, entry |-> quote, iso |-> iso, ib |-> ib, liq |-> liq]

MCAccount(pool, spot, pos, trading, liq) ==
  [spot |-> spot, cum |-> [m \in 0..3 |-> (IF spot[m].type = "Deposit" THEN spot[m].bal ELSE -spot[m].bal) \div 10], net |-> 0, pool |-> pool, owner |-> "o1",
   trading |-> trading, reduce_only |-> FALSE, bankrupt |-> FALSE, liq |-> liq, bids |-> 0, asks |-> 0, pos |-> pos,
   escrow |-> [fees |-> 0, completed |-> FALSE, referral |-> FALSE, open |-> FALSE]]

MCPerp(status, us, pnl, fee) ==
  [base |-> us["a"].pos.base + us["b"].pos.base, quote |-> us["a"].pos.quote + us["b"].pos.quote, pnl_pool |-> pnl, fee_pool |-> fee,
   status |-> status, paused |-> {}, expiry |-> 2, expiry_price |-> 5, pool |-> 0, tier |-> "A", tfmd |-> 20, liq_fee |-> 2,
   withdrawn |-> 0, exchange_fee |-> 12, social_loss |-> 0, settled_insurance |-> 0, max_insurance |-> 10, since |-> 0,
   max_withdraw |-> 3, net_revenue |-> 10, last_withdraw |-> 0]

MCToken(m, us, perp) ==
  LET all(type) == us["a"].spot[m].bal * (IF us["a"].spot[m].type = type THEN 1 ELSE 0)
                   + us["b"].spot[m].bal * (IF us["b"].spot[m].type = type THEN 1 ELSE 0)
                   + us["c"].spot[m].bal * (IF us["c"].spot[m].type = type THEN 1 ELSE 0)
      pools == IF m = 0 THEN us["a"].pos.ib.bal + us["b"].pos.ib.bal + perp.pnl_pool.bal + perp.fee_pool.bal ELSE 0
      t == [dep |-> all("Deposit") + pools + 1000, bor |-> all("Borrow"), cdi |-> 100, cbi |-> 100, revenue |-> D(100),
            vault |-> 0, last_ts |-> 2, twap_ts |-> 2, dep_twap |-> 0, bor_twap |-> 10, util_twap |-> 20,
            optimal |-> 80, optimal_rate |-> 40, max_rate |-> 100, min_rate |-> 0, factor |-> 0, threshold |-> 20,
            max_deposits |-> IF m = 1 THEN 170 ELSE 0, max_borrows |-> IF m = 1 THEN 15 ELSE 0, pool |-> m \div 2,
            status |-> "Active", paused |-> {}, tier |-> IF m = 3 THEN "Protected" ELSE IF m = 1 THEN "Isolated" ELSE "Collateral",
            index |-> m]
  IN  [t EXCEPT !.vault = deposits(t) - borrows(t), !.dep_twap = deposits(t)]

MCWorld(us, status, pnl, fee, at) ==
  [k |-> [m \in 0..3 |-> MCToken(m, us, MCPerp(status, us, D(pnl), D(fee)))], u |-> us,
   p |-> MCPerp(status, us, D(pnl), D(fee)), px |-> at, now |-> 2]

spots(x0, x1, x2, x3) == [m \in 0..3 |-> CASE m = 0 -> x0 [] m = 1 -> x1 [] m = 2 -> x2 [] m = 3 -> x3]

\* Two accounts of pool 0, one short through an isolated position and with an order, one of pool 1.
MCFirst ==
  MCWorld([x \in MCAccounts |->
             CASE x = "a" -> [MCAccount(0, spots(D(40), D(20), D(0), D(0)), MCPosition(6, -30, FALSE, D(0), FALSE), TRUE, FALSE)
                                EXCEPT !.escrow.fees = 2]
               [] x = "b" -> [MCAccount(0, spots(B(20), D(30), D(0), D(0)), MCPosition(-6, 30, TRUE, D(15), FALSE), FALSE, FALSE)
                                EXCEPT !.asks = -5]
               [] x = "c" -> MCAccount(1, spots(D(0), D(0), B(10), D(20)), MCPosition(0, 0, FALSE, D(0), FALSE), TRUE, FALSE)],
          "Active", 5, 10, 5)

\* Both in liquidation, the cross one and the isolated one.
MCSecond ==
  MCWorld([x \in MCAccounts |->
             CASE x = "a" -> MCAccount(0, spots(B(40), D(20), D(0), D(0)), MCPosition(6, -30, FALSE, D(0), FALSE), TRUE, TRUE)
               [] x = "b" -> MCAccount(0, spots(D(30), D(0), D(0), D(0)), MCPosition(-6, 30, TRUE, D(10), TRUE), TRUE, FALSE)
               [] x = "c" -> MCAccount(1, spots(D(0), D(0), D(0), D(10)), MCPosition(0, 0, FALSE, D(0), FALSE), FALSE, FALSE)],
          "Active", 10, 30, 6)

\* A market that has expired.
MCThird ==
  MCWorld([x \in MCAccounts |->
             CASE x = "a" -> MCAccount(0, spots(B(8), D(0), D(0), D(0)), MCPosition(6, -20, FALSE, D(0), FALSE), TRUE, FALSE)
               [] x = "b" -> MCAccount(0, spots(D(30), D(0), D(0), D(0)), MCPosition(-6, 20, FALSE, D(0), FALSE), TRUE, FALSE)
               [] x = "c" -> MCAccount(1, spots(D(0), D(0), D(20), D(10)), MCPosition(0, 0, FALSE, D(0), FALSE), FALSE, FALSE)],
          "Settlement", 20, 10, 5)

\* A vault that is short by rounding, with markets that only reduce.
MCFourth == [MCThird EXCEPT !.p.status = "ReduceOnly", !.k[1].vault = 99, !.k[0].status = "ReduceOnly"]

MCOpenings == {MCFirst, [MCSecond EXCEPT !.p.tfmd = 3], MCThird, MCFourth}
=============================================================================
