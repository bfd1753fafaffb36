---------------------------- MODULE MCDriftAdmin ----------------------------
EXTENDS DriftAdmin

MCSegments == <<<<85, 5>>, <<90, 10>>, <<95, 15>>, <<99, 20>>, <<100, 50>>>>

MCFeedPrice == [n \in {0, 1, 2} |-> <<20, 21, 40>>[n + 1]]

MCInsuranceMax == [A |-> 30, Speculative |-> 0]

MCTried ==
  [lots |-> {1, 2}, reserves |-> {90, 120, 160}, pegs |-> {0, 3}, depths |-> {40}, amounts |-> {8},
   oracles |-> {Feed(1), Feed(2), Prelaunch(0)}, prices |-> {10, 30}, adjustments |-> {-20, 20}, ratios |-> {0, 2, 4, 6},
   fees |-> {0, 25}, min_rates |-> {20}, spreads |-> {2, 5, 9}, limits |-> {0, 10}, values |-> {0, 1}, assets |-> {8, 10}, liabilities |-> {10, 12},
   rates |-> {5, 20}, users |-> {0, 1}]

MCTier(fee, discount, referrer, rebate, filler) ==
  [fee |-> fee, discount |-> discount, referrer |-> referrer, rebate |-> rebate, filler |-> filler, flat_filler_fee |-> 10]

\* Tiers that pay everyone, not the rebate, and not the filler beside the referrer.
MCFeeTiers == {MCTier(100, 5, 15, 20, 10), MCTier(20, 50, 15, 9, 10), MCTier(100, 0, 80, 15, 20), MCTier(100, 0, 90, 0, 20)}

MCSpotArgs(i, active) ==
  [optimal |-> 50, optimal_rate |-> 10, max_rate |-> 40, factor |-> 10, threshold |-> 0, active |-> active,
   tier |-> "Collateral", iaw |-> IF i = 0 THEN 10 ELSE 8, maw |-> IF i = 0 THEN 10 ELSE 9, ilw |-> IF i = 0 THEN 10 ELSE 12,
   mlw |-> IF i = 0 THEN 10 ELSE 11, imf |-> 0, mint |-> i, liq_fee |-> 1, if_fee |-> 1, step |-> 1, tick |-> 1,
   decimals |-> 6, oracle |-> IF i = 0 THEN QuoteOracle ELSE Feed(0)]

MCPerpArgs(oracle, active) ==
  [b |-> 120, q |-> 120, peg |-> 2, intensity |-> 0, jit_intensity |-> 0, base_spread |-> 2, max_spread |-> 5, step |-> 1,
   tick |-> 1, min_order |-> 1, rev_max |-> 10, quote_max |-> 10, active |-> active, tier |-> "A", init |-> 4, maint |-> 2,
   liq_fee |-> 3, if_fee |-> 1, imf |-> 0, oracle |-> oracle, max_oi |-> 0, scale |-> 1]

MCNewSpots == {MCSpotArgs(i, a) : i \in {0, 1}, a \in BOOLEAN}

MCNewPerps == {MCPerpArgs(Feed(0), TRUE), MCPerpArgs(Prelaunch(1), FALSE), [MCPerpArgs(Feed(0), FALSE) EXCEPT !.maint = 4]}

Nothing ==
  [ex |-> initialize("admin"), perps |-> <<>>, spots |-> <<>>, pre |-> <<>>, cache |-> [on |-> FALSE, has |-> <<>>],
   fulfil |-> {}, single |-> <<>>, now |-> 2,
   user |-> [bal |-> [i \in 0..3 |-> NoBalance], fuel |-> 10, fuel_ts |-> 0, paused |-> 0]]

\* A spot market with deposits, the revenue pool's among them, and borrows.
MCSpot(i, active, user, revenue, borrowed) ==
  LET t == [new_spot(Nothing, MCSpotArgs(i, active), i) EXCEPT
              !.dep = user + revenue, !.bor = borrowed, !.revenue = [bal |-> revenue, type |-> "Deposit"]]
  IN  [t EXCEPT !.vault = deposits(t) - borrows(t)]

MCFresh(oracle, active) == CHOOSE m \in update_concentration_coef(new_perp(Nothing, MCPerpArgs(oracle, active), 20), 1) : TRUE

\* Users are net long twelve of a market that was made active again after it expired.
MCBusy == [MCFresh(Feed(2), TRUE) EXCEPT
  !.b = 108, !.q = 133, !.long = 13, !.short = 1, !.net = 12, !.quote = -30, !.tfmd = 5, !.fees = 8, !.liq_fees = 1,
  !.users = 2, !.users_base = 2, !.quote_settled = 5, !.expiry_ts = 1, !.mm_price = 10, !.mm_seq = 1,
  !.pnl_pool = [bal |-> 30, type |-> "Deposit"], !.fee_pool = [bal |-> 20, type |-> "Deposit"], !.hl_init = 2, !.hl_maint = 1]

\* Everyone has left an expired market.
MCExpired == [MCFresh(Feed(0), TRUE) EXCEPT
  !.status = "ReduceOnly", !.expiry_ts = 1, !.tfmd = 20, !.fees = 8,
  !.pnl_pool = [bal |-> 30, type |-> "Deposit"], !.fee_pool = [bal |-> 20, type |-> "Deposit"]]

MCRunning(perp, opts) ==
  [Nothing EXCEPT
     !.ex.number_of_markets = 1, !.ex.number_of_spot_markets = 2, !.ex.flags = {"MmOracleUpdate", "BuilderCodes"},
     !.ex.settlement_duration = 1,
     !.perps = [i \in {0} |-> perp],
     !.spots = [i \in {0, 1} |-> IF i = 0 THEN [MCSpot(0, TRUE, 100, 70, 0) EXCEPT !.revenue.bal = 20]
                                 ELSE MCSpot(1, TRUE, 0, 60, 30)],
     !.user.bal = [@ EXCEPT ![0] = [bal |-> 100, type |-> "Deposit"], ![1] = [bal |-> 30, type |-> "Borrow"]],
     !.cache = [on |-> TRUE, has |-> [i \in {0} |-> perp.oracle]],
     !.fulfil = opts]

\* Two markets of each kind that nobody has used; the first perp market has its
\* prelaunch oracle.
MCInitialized ==
  [Nothing EXCEPT
     !.ex.number_of_markets = 2, !.ex.number_of_spot_markets = 2,
     !.perps = [i \in {0, 1} |-> IF i = 0 THEN MCFresh(Prelaunch(0), FALSE) ELSE MCFresh(Feed(0), FALSE)],
     !.spots = [i \in {0, 1} |-> MCSpot(i, FALSE, 0, 0, 0)],
     !.pre = [i \in {0} |-> [price |-> 20, max |-> 30]],
     !.fulfil = {[kind |-> "phoenix", market |-> 1, status |-> "Enabled"]}]

MCOpenings ==
  {Nothing, MCRunning(MCBusy, {}), MCInitialized,
   MCRunning(MCExpired, {[kind |-> n, market |-> 1, status |-> "Enabled"] : n \in {"serum", "openbook"}})}
=============================================================================
