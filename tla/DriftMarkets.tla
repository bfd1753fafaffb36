---------------------------- MODULE DriftMarkets ----------------------------
(***************************************************************************)
(* The life of the markets of programs/drift (instructions/admin.rs): how  *)
(* spot and perp markets, their oracles, caches and fulfillment configs    *)
(* are made and closed, how the admin moves a perp market's curve and its  *)
(* money, and how an expired market is settled and delisted.               *)
(*                                                                         *)
(* A handler is an operator from a world to the set of worlds it can leave *)
(* (empty for an error).  A world w has                                    *)
(*   w.ex      the exchange: admin, number_of_markets and                  *)
(*             number_of_spot_markets, settlement_duration, the feature    *)
(*             flags, deposits_paused and opts, its other settings         *)
(*   w.perps   the perp markets by index (the fields of DriftCurve, and    *)
(*             those of new_perp below)                                    *)
(*   w.spots   the spot markets by index (DriftInterest, and new_spot)     *)
(*   w.pre     the prelaunch oracles by market                             *)
(*   w.cache   the amm cache: whether it exists, and the oracle of each of *)
(*             its markets                                                 *)
(*   w.fulfil  the fulfillment configs                                     *)
(*   w.single  the accounts there is one of                                *)
(*   w.user    one user's fuel                                             *)
(*   w.now     the time                                                    *)
(***************************************************************************)
EXTENDS DriftCurve

CONSTANTS
  FeedPrice,          \* the price each feed of an oracle program reports
  MinMarginRatio, MaxMarginRatio, HighLeverageMin,
  FeeToMargin,        \* LIQUIDATION_FEE_TO_MARGIN_PRECISION_RATIO
  Weight,             \* SPOT_WEIGHT_PRECISION
  ImfLimit,           \* SPOT_IMF_PRECISION
  Day                 \* TWENTY_FOUR_HOUR

ASSUME MarketsAssumption == {MinMarginRatio, HighLeverageMin} \subseteq Nat \ {0} /\ HighLeverageMin <= MinMarginRatio

Then(worlds, step(_)) == UNION {step(w) : w \in worlds}

Feed(n) == [kind |-> "Feed", id |-> n]
Prelaunch(i) == [kind |-> "Prelaunch", id |-> i]
QuoteOracle == [kind |-> "Quote", id |-> 0]

\* The price an oracle account gives, if it can be read.
get_oracle_price(w, oracle) ==
  CASE oracle.kind = "Quote"     -> {PricePrecision}
    [] oracle.kind = "Feed"      -> {FeedPrice[oracle.id]}
    [] oracle.kind = "Prelaunch" -> IF oracle.id \in DOMAIN w.pre THEN {w.pre[oracle.id].price} ELSE {}

\* The price where no handler compares the oracle account with the market's: what
\* a feed of the caller's choice says, or any of the prelaunch oracles.
price_of_any_account(w, oracle, said) ==
  CASE oracle.kind = "Quote"     -> {PricePrecision}
    [] oracle.kind = "Feed"      -> {said}
    [] oracle.kind = "Prelaunch" -> {w.pre[j].price : j \in DOMAIN w.pre}

perp_market_valid(w, i) == i \in DOMAIN w.perps /\ w.perps[i].status # "Delisted"

spot_market_valid(w, i) == i \in DOMAIN w.spots /\ w.spots[i].status # "Delisted"

\* w with the perp market i replaced by each of the markets.
with_perp(w, i, markets) == {[w EXCEPT !.perps[i] = m] : m \in markets}

without(f, i) == [j \in DOMAIN f \ {i} |-> f[j]]

extended(f, i, x) == [j \in DOMAIN f \union {i} |-> IF j = i THEN x ELSE f[j]]

\* handle_initialize: the exchange with nothing in it.
initialize(admin) ==
  [admin |-> admin, number_of_markets |-> 0, number_of_spot_markets |-> 0, settlement_duration |-> 0,
   flags |-> {}, lp_flags |-> {}, deposits_paused |-> FALSE, opts |-> <<>>]

(***************************************************************************)
(* What the settings of a market must be.                                  *)
(***************************************************************************)
\* mutant: the high leverage ratios are not compared with the ordinary ones
mut_validate_margin(init, maint, hl_init, hl_maint, liq_fee, max_spread) ==
  /\ {init, maint} \subseteq MinMarginRatio..MaxMarginRatio
  /\ hl_init # 0 \/ hl_maint # 0 => hl_init > hl_maint /\ {hl_init, hl_maint} \subseteq HighLeverageMin..MaxMarginRatio
  /\ init > maint
  /\ maint * FeeToMargin > liq_fee
  /\ init * SpreadPerMargin > max_spread

\* The high leverage ratios are both set or both zero.
validate_margin(init, maint, hl_init, hl_maint, liq_fee, max_spread) ==
  /\ {init, maint} \subseteq MinMarginRatio..MaxMarginRatio
  /\ hl_init # 0 \/ hl_maint # 0 =>
       /\ init > hl_init /\ maint > hl_maint /\ hl_init > hl_maint
       /\ {hl_init, hl_maint} \subseteq HighLeverageMin..MaxMarginRatio
  /\ init > maint
  /\ maint * FeeToMargin > liq_fee
  /\ init * SpreadPerMargin > max_spread

\* The quote market's weights are one.
validate_margin_weights(i, iaw, maw, ilw, mlw, imf) ==
  /\ i = 0 => {iaw, maw, ilw, mlw} = {Weight}
  /\ iaw <= maw /\ maw > 0 /\ maw <= Weight
  /\ ilw >= mlw /\ mlw >= Weight
  /\ imf < ImfLimit

validate_borrow_rate(optimal, optimal_rate, max_rate, min_rate) ==
  optimal <= 100 /\ optimal_rate <= max_rate /\ optimal_rate >= min_rate

(***************************************************************************)
(* Spot markets.                                                           *)
(***************************************************************************)
\* The market after its initialization; a has the arguments.
new_spot(w, a, i) ==
  [dep |-> 0, bor |-> 0, cdi |-> Scale, cbi |-> Scale, revenue |-> NoBalance, vault |-> 0, if_vault |-> 0,
   last_ts |-> w.now, twap_ts |-> w.now, dep_twap |-> 0, bor_twap |-> 0, util_twap |-> 0,
   optimal |-> a.optimal, optimal_rate |-> a.optimal_rate, max_rate |-> a.max_rate, min_rate |-> 0,
   factor |-> a.factor, user_factor |-> a.factor \div 2, threshold |-> a.threshold,
   max_deposits |-> 0, borrow_share |-> 0, max_borrows |-> 0, pool |-> 0,
   status |-> IF a.active THEN "Active" ELSE "Initialized", paused |-> {}, tier |-> a.tier, index |-> i,
   iaw |-> a.iaw, maw |-> a.maw, ilw |-> a.ilw, mlw |-> a.mlw, imf |-> a.imf, mint |-> a.mint,
   liq_fee |-> a.liq_fee, if_fee |-> a.if_fee, expiry_ts |-> 0, oracle |-> a.oracle,
   step |-> a.step, tick |-> a.tick, min_order |-> a.step, orders_enabled |-> i # 0, opts |-> <<>>]

\* The first market is the quote's: it has no oracle and six decimals.
spot_oracle_fits(w, a, i) ==
  IF i = 0 THEN a.oracle = QuoteOracle /\ a.decimals = 6
  ELSE a.decimals >= 5 /\ get_oracle_price(w, a.oracle) # {}

initialize_spot_market(w, s, a) ==
  LET i == w.ex.number_of_spot_markets
  IN  IF /\ validate_borrow_rate(a.optimal, a.optimal_rate, a.max_rate, 0)
         /\ spot_oracle_fits(w, a, i)
         /\ validate_margin_weights(i, a.iaw, a.maw, a.ilw, a.mlw, a.imf)
         /\ a.active => s = w.ex.admin
        THEN {[w EXCEPT !.ex.number_of_spot_markets = i + 1, !.spots = extended(@, i, new_spot(w, a, i))]}
        ELSE {}

\* mutant: a market may go with what it holds
mut_delete_initialized_spot_market(w, i) ==
  LET k == w.spots[i]
  IN  IF i \in DOMAIN w.spots /\ i = w.ex.number_of_spot_markets - 1 /\ k.status = "Initialized"
        THEN {[w EXCEPT !.ex.number_of_spot_markets = @ - 1, !.spots = without(@, i)]}
        ELSE {}

\* Only the last market, before anyone used it.
delete_initialized_spot_market(w, i) ==
  LET k == w.spots[i]
  IN  IF /\ i \in DOMAIN w.spots /\ i = w.ex.number_of_spot_markets - 1
         /\ k.status = "Initialized" /\ k.dep = 0 /\ k.bor = 0 /\ k.vault = 0 /\ k.if_vault = 0
        THEN {[w EXCEPT !.ex.number_of_spot_markets = @ - 1, !.spots = without(@, i)]}
        ELSE {}

update_spot_market_pool_id(w, i, pool) ==
  IF spot_market_valid(w, i) /\ w.spots[i].status = "Initialized" THEN {[w EXCEPT !.spots[i].pool = pool]} ELSE {}

\* Both oracles are read; their prices may differ by less than a tenth.
oracle_change_allowed(w, old, new, skip) ==
  \E p \in get_oracle_price(w, new), q \in get_oracle_price(w, old) :
    skip \/ (p > 0 /\ abs(quotient((p - q) * 100, q)) < 10)

update_spot_market_oracle(w, i, oracle, skip) ==
  IF spot_market_valid(w, i) /\ oracle_change_allowed(w, w.spots[i].oracle, oracle, skip)
    THEN {[w EXCEPT !.spots[i].oracle = oracle]} ELSE {}

update_spot_market_expiry(w, i, ts) ==
  IF spot_market_valid(w, i) /\ w.now < ts
    THEN {[w EXCEPT !.spots[i].status = "ReduceOnly", !.spots[i].expiry_ts = ts]} ELSE {}

(***************************************************************************)
(* Fulfillment configs: where a spot market's orders may be filled besides *)
(* the exchange's own makers.  lot and tick are the other market's.        *)
(***************************************************************************)
\* The market's step is a multiple of the other's; for serum its tick as well.
lots_fit(k, lot, tick) == k.step >= lot /\ k.step % lot = 0 /\ (tick # 0 => k.tick >= tick /\ k.tick % tick = 0)

with_config(w, kind, i) == {[w EXCEPT !.fulfil = @ \union {[kind |-> kind, market |-> i, status |-> "Enabled"]}]}

no_config(w, kind, i) == \A c \in w.fulfil : ~(c.kind = kind /\ c.market = i)

initialize_serum_fulfillment_config(w, i, lot, tick) ==
  IF i # 0 /\ i \in DOMAIN w.spots /\ lots_fit(w.spots[i], lot, tick) /\ no_config(w, "serum", i)
    THEN with_config(w, "serum", i) ELSE {}

initialize_openbook_v2_fulfillment_config(w, i, lot, fee) ==
  IF i # 0 /\ i \in DOMAIN w.spots /\ fee = 0 /\ lots_fit(w.spots[i], lot, 0) /\ no_config(w, "openbook", i)
    THEN with_config(w, "openbook", i) ELSE {}

initialize_phoenix_fulfillment_config(w, i, lot) ==
  IF i # 0 /\ i \in DOMAIN w.spots /\ lots_fit(w.spots[i], lot, 0) /\ no_config(w, "phoenix", i)
    THEN with_config(w, "phoenix", i) ELSE {}

config_status(w, c, status) == {[w EXCEPT !.fulfil = (@ \ {c}) \union {[c EXCEPT !.status = status]}]}

update_serum_fulfillment_config_status(w, c, status) ==
  IF c.kind = "serum" THEN config_status(w, c, status) ELSE {}

update_openbook_v2_fulfillment_config_status(w, c, status) ==
  IF c.kind = "openbook" THEN config_status(w, c, status) ELSE {}

update_phoenix_fulfillment_config_status(w, c, status) ==
  IF c.kind = "phoenix" THEN config_status(w, c, status) ELSE {}

delete_serum_fulfillment_config(w, c) == IF c.kind = "serum" THEN {[w EXCEPT !.fulfil = @ \ {c}]} ELSE {}

delete_openbook_v2_fulfillment_config(w, c) == IF c.kind = "openbook" THEN {[w EXCEPT !.fulfil = @ \ {c}]} ELSE {}

(***************************************************************************)
(* Perp markets.                                                           *)
(***************************************************************************)
\* The market before its concentration is set.
new_perp(w, a, price) ==
  LET bounds == calculate_bid_ask_bounds(MaxConc, a.b)
  IN  [b |-> a.b, q |-> a.q, k |-> a.b, peg |-> a.peg, coef |-> MaxConc, min |-> bounds.min, max |-> bounds.max,
       term |-> a.q, net |-> 0, long |-> 0, short |-> 0, quote |-> 0,
       tfmd |-> 0, fees |-> 0, liq_fees |-> 0, withdrawn |-> 0,
       base_spread |-> a.base_spread, max_spread |-> a.max_spread, long_spread |-> 0, short_spread |-> 0,
       intensity |-> a.intensity, adj |-> 0, step |-> a.step, tick |-> a.tick, min_order |-> a.min_order,
       rev_max |-> a.rev_max, rev_since |-> 0, quote_max |-> a.quote_max, quote_settled |-> 0, imbalance |-> 0,
       status |-> IF a.active THEN "Active" ELSE "Initialized", type |-> "Perpetual", tier |-> a.tier,
       init |-> a.init, maint |-> a.maint, hl_init |-> 0, hl_maint |-> 0,
       liq_fee |-> a.liq_fee, if_fee |-> a.if_fee, imf |-> a.imf, paused |-> {}, lp_paused |-> {}, config |-> 0,
       users |-> 0, users_base |-> 0, expiry_ts |-> 0, expiry_price |-> 0, oracle |-> a.oracle,
       price |-> price, twap |-> price, mark_twap |-> calculate_price(a.q, a.b, a.peg),
       mm_price |-> 0, mm_seq |-> 0, mm_slot |-> 0, max_oi |-> a.max_oi,
       pnl_pool |-> NoBalance, fee_pool |-> NoBalance, opts |-> <<>>]

\* A balanced curve whose peg is the price.
initial_curve_fits(a) ==
  /\ a.b = a.q
  /\ a.intensity <= 200 /\ a.jit_intensity <= 200
  /\ a.peg = calculate_price(a.q, a.b, a.peg) \div PricePrecision

\* Any oracle program but the quote's.
initial_oracle_prices(w, a) == IF a.oracle.kind = "Quote" THEN {} ELSE get_oracle_price(w, a.oracle)

\* The accounts ask for the index; an active market is the admin's to make.
perp_market_allowed(w, s, a, i) ==
  /\ validate_margin(a.init, a.maint, 0, 0, a.liq_fee, a.max_spread)
  /\ i = w.ex.number_of_markets
  /\ a.active => s = w.ex.admin

initialize_perp_market(w, s, a, i) ==
  LET made == UNION {update_concentration_coef(new_perp(w, a, p), a.scale) : p \in initial_oracle_prices(w, a)}
  IN  IF initial_curve_fits(a) /\ perp_market_allowed(w, s, a, i)
        THEN {[w EXCEPT !.ex.number_of_markets = i + 1, !.perps = extended(@, i, m)] :
                m \in {m \in made : validate_perp_market(m)}}
        ELSE {}

initialize_prediction_market(w, i) ==
  IF perp_market_valid(w, i) /\ w.perps[i].status = "Initialized"
    THEN {[w EXCEPT !.perps[i].type = "Prediction", !.perps[i].paused = @ \union {"UpdateFunding"}]} ELSE {}

\* mutant: a market in the middle may go
mut_delete_initialized_perp_market(w, i) ==
  IF i \in DOMAIN w.perps /\ w.perps[i].status = "Initialized" /\ w.perps[i].users = 0
    THEN {[w EXCEPT !.ex.number_of_markets = @ - 1, !.perps = without(@, i)]} ELSE {}

\* The cache keeps its entry, and the market's prelaunch oracle stays.
delete_initialized_perp_market(w, i) ==
  IF /\ i \in DOMAIN w.perps /\ i = w.ex.number_of_markets - 1
     /\ w.perps[i].status = "Initialized" /\ w.perps[i].users = 0
    THEN {[w EXCEPT !.ex.number_of_markets = @ - 1, !.perps = without(@, i)]} ELSE {}

update_perp_market_expiry(w, i, ts) ==
  IF perp_market_valid(w, i) /\ w.now < ts
    THEN {[w EXCEPT !.perps[i].status = "ReduceOnly", !.perps[i].expiry_ts = ts]} ELSE {}

initialize_amm_cache(w) == IF w.cache.on THEN {} ELSE {[w EXCEPT !.cache = [on |-> TRUE, has |-> <<>>]]}

\* A new entry has no oracle yet.
add_market_to_amm_cache(w, i) ==
  IF w.cache.on /\ i \in DOMAIN w.perps /\ i \notin DOMAIN w.cache.has
    THEN {[w EXCEPT !.cache.has = extended(@, i, QuoteOracle)]} ELSE {}

delete_amm_cache(w) == IF w.cache.on THEN {[w EXCEPT !.cache = [on |-> FALSE, has |-> <<>>]]} ELSE {}

(***************************************************************************)
(* Oracles.                                                                *)
(***************************************************************************)
prelaunch_valid(o) == o.price # 0 /\ o.max # 0 /\ o.price <= o.max

\* price and max are sets: empty when the parameter is left out.
given(parameter, old) == IF parameter = {} THEN old ELSE CHOOSE x \in parameter : TRUE

initialize_prelaunch_oracle(w, i, price, max) ==
  LET o == [price |-> given(price, 0), max |-> given(max, 0)]
  IN  IF i \notin DOMAIN w.pre /\ prelaunch_valid(o) THEN {[w EXCEPT !.pre = extended(@, i, o)]} ELSE {}

\* A new price is also the market's mark average.
update_prelaunch_oracle_params(w, i, price, max) ==
  LET o == [price |-> given(price, w.pre[i].price), max |-> given(max, w.pre[i].max)]
  IN  IF i \in DOMAIN w.pre /\ i \in DOMAIN w.perps /\ prelaunch_valid(o)
        THEN {[w EXCEPT !.pre[i] = o, !.perps[i].mark_twap = given(price, @)]} ELSE {}

\* mutant: the market's use of the oracle is not checked
mut_delete_prelaunch_oracle(w, i) ==
  IF i \in DOMAIN w.pre /\ i \in DOMAIN w.perps THEN {[w EXCEPT !.pre = without(@, i)]} ELSE {}

delete_prelaunch_oracle(w, i) ==
  IF i \in DOMAIN w.pre /\ i \in DOMAIN w.perps /\ w.perps[i].oracle # Prelaunch(i)
    THEN {[w EXCEPT !.pre = without(@, i)]} ELSE {}

update_perp_market_oracle(w, i, oracle, skip) ==
  LET cached == IF i \in DOMAIN w.cache.has THEN [w EXCEPT !.cache.has[i] = oracle] ELSE w
  IN  IF w.cache.on /\ perp_market_valid(w, i) /\ oracle_change_allowed(w, w.perps[i].oracle, oracle, skip)
        THEN {[cached EXCEPT !.perps[i].oracle = oracle]} ELSE {}

\* The average follows the oracle's own, unless that takes it across the mark's
\* average or farther from it.
update_amm_oracle_twap(w, i) ==
  LET m == w.perps[i]
      before == m.mark_twap - m.twap
      moved(p) == LET after == m.mark_twap - p
                  IN  IF (after > 0 /\ before < 0) \/ (after < 0 /\ before > 0) THEN m.mark_twap
                      ELSE IF abs(after) <= abs(before) THEN p ELSE m.twap
  IN  IF perp_market_valid(w, i) THEN {[w EXCEPT !.perps[i].twap = moved(p)] : p \in get_oracle_price(w, m.oracle)}
      ELSE {}

reset_amm_oracle_twap(w, i) ==
  IF perp_market_valid(w, i) THEN {[w EXCEPT !.perps[i].twap = w.perps[i].mark_twap]} ELSE {}

\* mutant: the sequence number stays
mut_zero_mm_oracle_fields(w, i) ==
  IF i \in DOMAIN w.perps THEN {[w EXCEPT !.perps[i].mm_price = 0, !.perps[i].mm_slot = 0]} ELSE {}

zero_mm_oracle_fields(w, i) ==
  IF i \in DOMAIN w.perps
    THEN {[w EXCEPT !.perps[i].mm_price = 0, !.perps[i].mm_seq = 0, !.perps[i].mm_slot = 0]} ELSE {}

\* The market maker's own price: an update that is not newer changes nothing.
update_mm_oracle_native(w, i, price, seq) ==
  IF "MmOracleUpdate" \notin w.ex.flags \/ i \notin DOMAIN w.perps \/ price = 0 \/ seq <= w.perps[i].mm_seq THEN {}
  ELSE {[w EXCEPT !.perps[i].mm_price = price, !.perps[i].mm_seq = seq, !.perps[i].mm_slot = w.now]}

update_amm_spread_adjustment_native(w, i, v) == IF i \in DOMAIN w.perps THEN {[w EXCEPT !.perps[i].adj = v]} ELSE {}

(***************************************************************************)
(* The curve.                                                              *)
(***************************************************************************)
move_amm_price(w, i, base, quote, k) ==
  IF perp_market_valid(w, i)
    THEN with_perp(w, i, {m \in move_price(w.perps[i], base, quote, k) : validate_perp_market(m)}) ELSE {}

handle_recenter_perp_market_amm(w, i, peg, k) ==
  IF perp_market_valid(w, i)
    THEN with_perp(w, i, {m \in recenter_perp_market_amm(w.perps[i], peg, k) : validate_perp_market(m)}) ELSE {}

\* The peg becomes the price of the account given, which need not be the market's
\* oracle; k is scaled to give the depth asked for.
recenter_perp_market_amm_crank(w, i, depth, said) ==
  LET m == w.perps[i]
      open == calculate_market_open_bids_asks(m)
      scaled(peg) == (m.k * given(depth, 0)) \div (((open.bids + abs(open.asks)) \div 2) * peg)
      recentred(p) ==
        LET peg == p \div PricePrecision
        IN  IF depth # {} /\ open.bids + abs(open.asks) < 2 THEN {}
            ELSE recenter_perp_market_amm(m, peg, IF depth = {} THEN m.k ELSE scaled(peg))
  IN  IF perp_market_valid(w, i)
        THEN with_perp(w, i, {n \in UNION {recentred(p) : p \in price_of_any_account(w, m.oracle, said)} :
                                 validate_perp_market(n)})
        ELSE {}

\* The oracle as the curve's updates see it.
oracle_of(w, i) == {[price |-> p, conf |-> 0, valid |-> TRUE] : p \in get_oracle_price(w, w.perps[i].oracle)}

repeg_amm_curve(w, i, peg) ==
  IF perp_market_valid(w, i) THEN with_perp(w, i, UNION {repeg(w.perps[i], peg, o) : o \in oracle_of(w, i)}) ELSE {}

\* What update_k may spend: it counts the withdrawn fees against the market and
\* leaves the liquidation fees out, unlike fee_reserved_for_protocol.
max_k_cost(m) == m.tfmd - get_total_fee_lower_bound(m) - m.withdrawn

\* mutant: the cost is not bounded
mut_k_cost_fits(m, k, cost) == IF k > m.k THEN cost >= 0 ELSE cost <= 0

k_cost_fits(m, k, cost) ==
  /\ IF k > m.k THEN cost >= 0 ELSE cost <= 0
  /\ cost > 0 => cost <= max_k_cost(m)

handle_update_k(w, i, k) ==
  LET m == w.perps[i]
      fits(n) == /\ k > m.k => n.k < MaxK
                 /\ abs(reserve_price(m) - reserve_price(n)) <= MaxKPriceChange
      moved == {[a.m EXCEPT !.tfmd = m.tfmd - a.cost] :
                  a \in {a \in UNION {adjust_k_cost(m, r) : r \in get_update_k_result(m, k)} :
                           k_cost_fits(m, k, a.cost) /\ fits(a.m)}}
  IN  IF perp_market_valid(w, i) THEN with_perp(w, i, moved) ELSE {}

\* What the pools hold beyond what the users are owed.
calculate_perp_market_amm_summary_stats(m, k, price, exclude) ==
  token_amount(m.pnl_pool, k) + token_amount(m.fee_pool, k) - calculate_net_user_pnl(m, price)
    - (IF exclude THEN m.liq_fees ELSE 0)

update_perp_market_amm_summary_stats(w, i, update, exclude) ==
  LET m == w.perps[i]
      after(p) == IF update THEN [m EXCEPT !.tfmd = calculate_perp_market_amm_summary_stats(m, w.spots[0], p, exclude)]
                  ELSE m
  IN  IF perp_market_valid(w, i) /\ 0 \in DOMAIN w.spots
        THEN with_perp(w, i, {n \in {after(p) : p \in get_oracle_price(w, m.oracle)} : validate_perp_market(n)})
        ELSE {}

(***************************************************************************)
(* Money.                                                                  *)
(***************************************************************************)
\* Handlers on money load the quote token's market.
quote_with_interest(w) ==
  IF 0 \notin DOMAIN w.spots THEN {} ELSE
  {[w EXCEPT !.spots[0] = k] : k \in update_spot_market_cumulative_interest(w.spots[0], w.now)}

\* A change of one of the pools of a perp market, in the quote token.
pool_moved(w, i, pool, amount, dir) ==
  IF 0 \notin DOMAIN w.spots THEN {} ELSE
  {[w EXCEPT !.spots[0] = r.k, !.perps[i][pool] = r.b] :
     r \in update_spot_balances(amount, dir, w.spots[0], w.perps[i][pool], FALSE)}

deposit_into_perp_market_fee_pool(w, i, amount) ==
  IF perp_market_valid(w, i)
    THEN {[v EXCEPT !.perps[i].tfmd = @ + amount, !.spots[0] = receive(@, amount)] :
            v \in Then(quote_with_interest(w), LAMBDA v : pool_moved(v, i, "fee_pool", amount, "Deposit"))}
    ELSE {}

\* mutant: the vault is not asked
mut_update_perp_market_pnl_pool(w, i, amount) ==
  IF perp_market_valid(w, i) THEN pool_moved(w, i, "pnl_pool", amount, "Deposit") ELSE {}

\* Tokens of the vault that nobody has a claim on become the pool's.
update_perp_market_pnl_pool(w, i, amount) ==
  IF perp_market_valid(w, i)
    THEN {v \in pool_moved(w, i, "pnl_pool", amount, "Deposit") : validate_spot_market_vault_amount(v.spots[0])}
    ELSE {}

\* The interest at which all the deposits are worth amount more.
interest_for(k, amount) == ((deposits(k) + amount) * Scale) \div k.dep

\* A gift to all the depositors.
deposit_into_spot_market_vault(w, i, amount) ==
  LET k == w.spots[i]
      gifted == receive([k EXCEPT !.cdi = interest_for(k, amount)], amount)
  IN  IF /\ ~w.ex.deposits_paused /\ spot_market_valid(w, i) /\ "Deposit" \notin k.paused
         /\ amount > 0 /\ k.dep > 0 /\ gifted.cdi > k.cdi
         /\ validate_spot_market_vault_amount(gifted) /\ validate_max_token_deposits_and_borrows(gifted, FALSE)
        THEN {[w EXCEPT !.spots[i] = gifted]} ELSE {}

\* A reward: the admin's tokens go to the user's balance, and not into its
\* record of deposits.
admin_deposit(w, i, amount) ==
  LET k == w.spots[i]
      reduce_only == k.status = "ReduceOnly"
      given_to(j) == IF reduce_only /\ w.user.bal[i].type = "Borrow" THEN atMost(token_amount(w.user.bal[i], j), amount)
                     ELSE amount
      after(j) == {[k |-> receive(r.k, given_to(j)), b |-> r.b] :
                     r \in update_spot_balances(given_to(j), "Deposit", j, w.user.bal[i], FALSE)}
      fits(r) == /\ token_amount(r.b, r.k) = 0 => r.b.bal = 0
                 /\ r.b.type = "Deposit" /\ r.b.bal > 0 => r.k.status = "Active"
                 /\ validate_spot_market_vault_amount(r.k)
                 /\ validate_max_token_deposits_and_borrows(r.k, FALSE)
  IN  IF /\ ~w.ex.deposits_paused /\ i \in DOMAIN w.spots /\ amount > 0
         /\ k.pool = 0 /\ k.status # "Initialized" /\ get_oracle_price(w, k.oracle) # {}
        THEN {[w EXCEPT !.spots[i] = r.k, !.user.bal[i] = r.b] :
                r \in {r \in UNION {after(j) : j \in update_spot_market_cumulative_interest(k, w.now)} : fits(r)}}
        ELSE {}

(***************************************************************************)
(* The end of a perp market.                                               *)
(***************************************************************************)
\* The budget raises k, by a scale that it pays for: calculate_budgeted_k_scale is
\* any k the budget pays for, here at most one above the old one.
raised(m, budget) ==
  IF budget <= 0 THEN {m}
  ELSE UNION {UNION {{[n EXCEPT !.tfmd = p.tfmd] : n \in {a.m}, p \in apply_cost_to_market(m, a.cost, TRUE)} :
                       a \in {a \in adjust_k_cost(m, r) : a.cost <= budget}} :
                r \in UNION {get_update_k_result(m, k) : k \in m.k..atMost(m.k + 1, MaxK)}}

\* The price a settled market pays: a prelaunch market's last price, or the average.
target_expiry_price(m) == IF m.oracle.kind = "Prelaunch" THEN m.price ELSE m.twap

\* The fees beyond the reserved ones move to the pnl pool.
fees_to_pnl_pool(w, i) ==
  LET m == w.perps[i]
      budget == calculate_fee_pool(m)
      available == atLeast(0, token_amount(m.fee_pool, w.spots[0]) - fee_reserved_for_protocol(m))
      amount == atMost(budget, available)
  IN  IF 0 \notin DOMAIN w.spots THEN {} ELSE
      Then(pool_moved(w, i, "fee_pool", amount, "Borrow"), LAMBDA v : pool_moved(v, i, "pnl_pool", amount, "Deposit"))

\* mutant: a market settles before it expires
mut_settle_expired_market(w, i) ==
  LET priced(m, k) == [m EXCEPT !.status = "Settlement",
        !.expiry_price = calculate_expiry_price(m, target_expiry_price(m),
                           token_amount(m.pnl_pool, k) + token_amount(m.fee_pool, k))]
      settled(v) == with_perp(v, i, {priced(m, v.spots[0]) : m \in raised(v.perps[i], calculate_fee_pool(w.perps[i]))})
  IN  IF i \in DOMAIN w.perps /\ target_expiry_price(w.perps[i]) > 0 THEN Then(fees_to_pnl_pool(w, i), settled) ELSE {}

\* The status is not asked for: a market already settled, even a delisted one, may
\* be settled again, at another price.
settle_expired_market(w, i) ==
  LET priced(m, k) == [m EXCEPT !.status = "Settlement",
        !.expiry_price = calculate_expiry_price(m, target_expiry_price(m),
                           token_amount(m.pnl_pool, k) + token_amount(m.fee_pool, k))]
      settled(v) == with_perp(v, i, {priced(m, v.spots[0]) : m \in raised(v.perps[i], calculate_fee_pool(w.perps[i]))})
  IN  IF /\ i \in DOMAIN w.perps /\ w.perps[i].expiry_ts # 0 /\ w.perps[i].expiry_ts <= w.now
         /\ target_expiry_price(w.perps[i]) > 0
        THEN Then(fees_to_pnl_pool(w, i), settled) ELSE {}

handle_settle_expired_market(w, i) ==
  IF i \notin DOMAIN w.perps THEN {}
  ELSE Then(UNION {with_perp(w, i, update_amm(w.perps[i], o)) : o \in oracle_of(w, i)},
            LAMBDA v : settle_expired_market(v, i))

\* A day and the settlement's duration must pass; a duration of one passes at once.
escrow_period(duration) == IF duration > 1 THEN Day + duration - 1 ELSE duration

\* mutant: users may still be owed something
mut_may_close(w, m) ==
  m.status = "Settlement" /\ w.ex.settlement_duration # 0 /\ w.now > m.expiry_ts + escrow_period(w.ex.settlement_duration)

may_close(w, m) ==
  /\ m.status = "Settlement"
  /\ m.long = 0 /\ m.short = 0 /\ m.users_base = 0 /\ m.quote = 0
  /\ w.ex.settlement_duration # 0
  /\ w.now > m.expiry_ts + escrow_period(w.ex.settlement_duration)

settle_expired_market_pools_to_revenue_pool(w, i) ==
  LET amounts(v) == [fee |-> token_amount(v.perps[i].fee_pool, v.spots[0]),
                     pnl |-> token_amount(v.perps[i].pnl_pool, v.spots[0])]
      emptied(v) ==
        Then(pool_moved(v, i, "fee_pool", amounts(v).fee, "Borrow"),
             LAMBDA u : pool_moved(u, i, "pnl_pool", amounts(v).pnl, "Borrow"))
      paid(v) == Then(emptied(v), LAMBDA u :
                   {[u EXCEPT !.spots[0] = k, !.perps[i].status = "Delisted"] :
                      k \in update_revenue_pool_balances(amounts(v).fee + amounts(v).pnl, "Deposit", u.spots[0])})
  IN  IF perp_market_valid(w, i) /\ may_close(w, w.perps[i])
        THEN {u \in Then(quote_with_interest(w), paid) : token_amount(u.spots[0].revenue, u.spots[0]) <= deposits(u.spots[0])}
        ELSE {}
=============================================================================
