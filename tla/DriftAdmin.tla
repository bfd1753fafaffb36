----------------------------- MODULE DriftAdmin -----------------------------
(***************************************************************************)
(* The administration of programs/drift (instructions/admin.rs): every     *)
(* handler of DriftMarkets and the setters of this module, by the admin or *)
(* by the hot wallet, which may sign some of them.                         *)
(*                                                                         *)
(* A setting nothing else in the model depends on is kept in the field     *)
(* opts of its exchange or market, by the name of its setting.             *)
(***************************************************************************)
EXTENDS DriftMarkets

CONSTANTS
  Hot,              \* admin_hot_wallet
  Admins,           \* who may become the admin
  Openings,         \* the worlds to start from
  NewSpots,         \* the arguments of initialize_spot_market
  NewPerps,         \* the arguments of initialize_perp_market
  FeeTiers,         \* the fee tiers an admin sets
  Tried,            \* the record of values given to the setters
  InsuranceMax,     \* the insurance limit of each contract tier
  RevenueThreshold, \* FEE_POOL_TO_REVENUE_POOL_THRESHOLD
  FeePrecision,     \* LIQUIDATION_FEE_PRECISION
  MaxNow,
  MaxOps            \* a setter of opts counts for two

VARIABLES world, ops, by

vars == <<world, ops, by>>

Statuses == {"Initialized", "Active", "ReduceOnly", "Settlement", "Delisted"}

(***************************************************************************)
(* Who may sign: the account constraints of the instructions.              *)
(***************************************************************************)
OnlyAdmin(w) == {w.ex.admin}
HotOrAdmin(w) == {w.ex.admin, Hot}

InitializeSpotMarket(w) == HotOrAdmin(w)
DeleteInitializedSpotMarket(w) == OnlyAdmin(w)
InitializeSerumFulfillmentConfig(w) == OnlyAdmin(w)
UpdateSerumFulfillmentConfig(w) == HotOrAdmin(w)
DeleteSerumFulfillmentConfig(w) == HotOrAdmin(w)
InitializePhoenixFulfillmentConfig(w) == OnlyAdmin(w)
UpdatePhoenixFulfillmentConfig(w) == OnlyAdmin(w)
InitializeOpenbookV2FulfillmentConfig(w) == OnlyAdmin(w)
UpdateOpenbookV2FulfillmentConfig(w) == HotOrAdmin(w)
DeleteOpenbookV2FulfillmentConfig(w) == HotOrAdmin(w)
UpdateSerumVault(w) == OnlyAdmin(w)
InitializePerpMarket(w) == HotOrAdmin(w)
InitializeAmmCache(w) == HotOrAdmin(w)
AddMarketToAmmCache(w) == HotOrAdmin(w)
DeleteAmmCache(w) == HotOrAdmin(w)
DeleteInitializedPerpMarket(w) == OnlyAdmin(w)
AdminUpdatePerpMarket(w) == OnlyAdmin(w)
HotAdminUpdatePerpMarket(w) == HotOrAdmin(w)
AdminUpdatePerpMarketAmmSummaryStats(w) == HotOrAdmin(w)
SettleExpiredMarketPoolsToRevenuePool(w) == OnlyAdmin(w)
UpdatePerpMarketPnlPool(w) == OnlyAdmin(w)
DepositIntoMarketFeePool(w) == OnlyAdmin(w)
DepositIntoSpotMarketVault(w) == HotOrAdmin(w)
RepegCurve(w) == OnlyAdmin(w)
AdminUpdateState(w) == OnlyAdmin(w)
HotAdminUpdateState(w) == HotOrAdmin(w)
AdminUpdateK(w) == OnlyAdmin(w)
AdminUpdateSpotMarket(w) == OnlyAdmin(w)
AdminUpdateSpotMarketFuel(w) == HotOrAdmin(w)
AdminUpdateSpotMarketOracle(w) == OnlyAdmin(w)
AdminUpdatePerpMarketOracle(w) == OnlyAdmin(w)
AdminDisableBidAskTwapUpdate(w) == HotOrAdmin(w)
InitUserFuel(w) == HotOrAdmin(w)
InitializeProtocolIfSharesTransferConfig(w) == OnlyAdmin(w)
UpdateProtocolIfSharesTransferConfig(w) == OnlyAdmin(w)
InitializePrelaunchOracle(w) == OnlyAdmin(w)
UpdatePrelaunchOracleParams(w) == HotOrAdmin(w)
DeletePrelaunchOracle(w) == OnlyAdmin(w)
InitPythLazerOracle(w) == HotOrAdmin(w)
InitializeHighLeverageModeConfig(w) == OnlyAdmin(w)
UpdateHighLeverageModeConfig(w) == OnlyAdmin(w)
InitializeProtectedMakerModeConfig(w) == OnlyAdmin(w)
UpdateProtectedMakerModeConfig(w) == OnlyAdmin(w)
AdminDeposit(w) == HotOrAdmin(w)
InitializeIfRebalanceConfig(w) == OnlyAdmin(w)
UpdateIfRebalanceConfig(w) == OnlyAdmin(w)

(***************************************************************************)
(* The margins and fees of a perp market: each setter checks its values    *)
(* against the others.                                                     *)
(***************************************************************************)
update_perp_market_margin_ratio(w, i, init, maint) ==
  LET m == w.perps[i]
  IN  IF perp_market_valid(w, i) /\ validate_margin(init, maint, m.hl_init, m.hl_maint, m.liq_fee, m.max_spread)
        THEN {[w EXCEPT !.perps[i].init = init, !.perps[i].maint = maint]} ELSE {}

update_perp_market_high_leverage_margin_ratio(w, i, init, maint) ==
  LET m == w.perps[i]
  IN  IF perp_market_valid(w, i) /\ validate_margin(m.init, m.maint, init, maint, m.liq_fee, m.max_spread)
        THEN {[w EXCEPT !.perps[i].hl_init = init, !.perps[i].hl_maint = maint]} ELSE {}

update_perp_liquidation_fee(w, i, fee, if_fee) ==
  LET m == w.perps[i]
  IN  IF /\ perp_market_valid(w, i) /\ fee + if_fee < FeePrecision
         /\ validate_margin(m.init, m.maint, m.hl_init, m.hl_maint, fee, m.max_spread)
        THEN {[w EXCEPT !.perps[i].liq_fee = fee, !.perps[i].if_fee = if_fee]} ELSE {}

\* Not compared with the maximum.
update_perp_market_base_spread(w, i, spread) ==
  IF perp_market_valid(w, i)
    THEN {[w EXCEPT !.perps[i].base_spread = spread, !.perps[i].long_spread = spread \div 2,
                    !.perps[i].short_spread = spread \div 2]} ELSE {}

update_perp_market_max_spread(w, i, spread) ==
  IF perp_market_valid(w, i) /\ spread >= w.perps[i].base_spread /\ spread <= w.perps[i].init * SpreadPerMargin
    THEN {[w EXCEPT !.perps[i].max_spread = spread]} ELSE {}

\* The tier bounds what the insurance may pay for the market.
update_perp_market_max_imbalances(w, i, imbalance, rev_max, quote_max) ==
  LET m == [w.perps[i] EXCEPT !.imbalance = imbalance, !.rev_max = rev_max, !.quote_max = quote_max]
      limit == InsuranceMax[m.tier]
  IN  IF /\ perp_market_valid(w, i)
         /\ rev_max <= atLeast(limit, RevenueThreshold) /\ imbalance <= limit + 1 /\ quote_max <= limit
         /\ m.quote_settled <= quote_max
         /\ validate_perp_market(m)
        THEN with_perp(w, i, {m}) ELSE {}

\* The limits of the old tier stay.
update_perp_market_contract_tier(w, i, tier) ==
  IF perp_market_valid(w, i) THEN {[w EXCEPT !.perps[i].tier = tier]} ELSE {}

\* Settlement and Delisted are not for the admin to give, but may be taken away.
update_perp_market_status(w, i, status) ==
  IF perp_market_valid(w, i) /\ status \notin {"Settlement", "Delisted"}
    THEN {[w EXCEPT !.perps[i].status = status]} ELSE {}

\* mutant: a prediction market is not looked at
mut_update_perp_market_paused_operations(w, s, i, paused) ==
  IF perp_market_valid(w, i) /\ (s # w.ex.admin => paused \in {{"UpdateFunding"}, {"SettleRevPool"}})
    THEN {[w EXCEPT !.perps[i].paused = paused]} ELSE {}

\* The value replaces the old one: what else was paused runs again.
update_perp_market_paused_operations(w, s, i, paused) ==
  IF /\ perp_market_valid(w, i)
     /\ s # w.ex.admin => paused \in {{"UpdateFunding"}, {"SettleRevPool"}}
     /\ w.perps[i].type = "Prediction" => "UpdateFunding" \in paused
    THEN {[w EXCEPT !.perps[i].paused = paused]} ELSE {}

\* DisableFormulaicKUpdate is the only flag.
update_perp_market_config(w, s, i, config) ==
  IF perp_market_valid(w, i) /\ config \in {0, 1} /\ (s # w.ex.admin => config = 0)
    THEN {[w EXCEPT !.perps[i].config = config]} ELSE {}

update_perp_market_imf_factor(w, i, imf) ==
  IF perp_market_valid(w, i) /\ imf <= ImfLimit THEN {[w EXCEPT !.perps[i].imf = imf]} ELSE {}

update_perp_market_unrealized_asset_weight(w, i, init, maint) ==
  IF perp_market_valid(w, i) /\ init <= maint /\ maint <= Weight
    THEN {[w EXCEPT !.perps[i].opts = extended(@, "unrealized_weights", <<init, maint>>)]} ELSE {}

update_perp_market_concentration_coef(w, i, scale) ==
  IF perp_market_valid(w, i) /\ scale > 0
    THEN with_perp(w, i, update_concentration_coef(w.perps[i], scale)) ELSE {}

update_perp_market_curve_update_intensity(w, i, v) ==
  IF perp_market_valid(w, i) /\ v <= 200 THEN {[w EXCEPT !.perps[i].intensity = v]} ELSE {}

update_perp_market_amm_spread_adjustment(w, i, adj) ==
  IF perp_market_valid(w, i) THEN {[w EXCEPT !.perps[i].adj = adj]} ELSE {}

update_perp_market_step_size_and_tick_size(w, i, step, tick) ==
  IF perp_market_valid(w, i) THEN {[w EXCEPT !.perps[i].step = step, !.perps[i].tick = tick]} ELSE {}

update_perp_market_max_open_interest(w, i, oi) ==
  IF perp_market_valid(w, i) /\ oi % w.perps[i].step = 0 THEN {[w EXCEPT !.perps[i].max_oi = oi]} ELSE {}

\* users and with_base are sets: empty when the parameter is left out.
update_perp_market_number_of_users(w, i, users, with_base) ==
  LET m == [w.perps[i] EXCEPT !.users = given(users, @), !.users_base = given(with_base, @)]
  IN  IF i \in DOMAIN w.perps /\ m.users >= m.users_base THEN with_perp(w, i, {m}) ELSE {}

(***************************************************************************)
(* Spot markets.                                                           *)
(***************************************************************************)
update_spot_market_margin_weights(w, i, iaw, maw, ilw, mlw, imf) ==
  IF spot_market_valid(w, i) /\ validate_margin_weights(i, iaw, maw, ilw, mlw, imf)
    THEN {[w EXCEPT !.spots[i].iaw = iaw, !.spots[i].maw = maw, !.spots[i].ilw = ilw, !.spots[i].mlw = mlw,
                    !.spots[i].imf = imf]} ELSE {}

\* A token that counts as collateral has one of two tiers.
update_spot_market_asset_tier(w, i, tier) ==
  IF spot_market_valid(w, i) /\ (w.spots[i].iaw > 0 => tier \in {"Collateral", "Protected"})
    THEN {[w EXCEPT !.spots[i].tier = tier]} ELSE {}

update_spot_market_liquidation_fee(w, i, fee, if_fee) ==
  IF spot_market_valid(w, i) /\ fee + if_fee < FeePrecision /\ if_fee <= FeePrecision \div 10
    THEN {[w EXCEPT !.spots[i].liq_fee = fee, !.spots[i].if_fee = if_fee]} ELSE {}

update_spot_market_if_factor(w, i, user, total) ==
  IF spot_market_valid(w, i) /\ user <= total /\ total <= 100
    THEN {[w EXCEPT !.spots[i].user_factor = user, !.spots[i].factor = total]} ELSE {}

\* mutant: the least rate in force is not looked at
mut_update_spot_market_borrow_rate(w, i, optimal, rate, max, min) ==
  IF spot_market_valid(w, i) /\ validate_borrow_rate(optimal, rate, max, given(min, 0))
    THEN {[w EXCEPT !.spots[i].optimal = optimal, !.spots[i].optimal_rate = rate, !.spots[i].max_rate = max,
                    !.spots[i].min_rate = given(min, @)]} ELSE {}

\* The minimum is left as it was when min is empty.
update_spot_market_borrow_rate(w, i, optimal, rate, max, min) ==
  IF spot_market_valid(w, i) /\ validate_borrow_rate(optimal, rate, max, given(min, w.spots[i].min_rate))
    THEN {[w EXCEPT !.spots[i].optimal = optimal, !.spots[i].optimal_rate = rate, !.spots[i].max_rate = max,
                    !.spots[i].min_rate = given(min, @)]} ELSE {}

\* Any status, Delisted too, whatever the market holds.
update_spot_market_status(w, i, status) ==
  IF spot_market_valid(w, i) THEN {[w EXCEPT !.spots[i].status = status]} ELSE {}

update_spot_market_paused_operations(w, i, paused) ==
  IF spot_market_valid(w, i) THEN {[w EXCEPT !.spots[i].paused = paused]} ELSE {}

\* Not compared with the deposits; the most borrows are a share of it.
update_spot_market_max_token_deposits(w, i, max) ==
  IF spot_market_valid(w, i)
    THEN {[w EXCEPT !.spots[i].max_deposits = max, !.spots[i].max_borrows = (max * w.spots[i].borrow_share) \div 100]}
    ELSE {}

\* A share, in percent, of the most deposits.
update_spot_market_max_token_borrows(w, i, share) ==
  LET max == (w.spots[i].max_deposits * share) \div 100
  IN  IF spot_market_valid(w, i) /\ borrows(w.spots[i]) <= max
        THEN {[w EXCEPT !.spots[i].max_borrows = max, !.spots[i].borrow_share = share]} ELSE {}

update_withdraw_guard_threshold(w, i, v) ==
  IF spot_market_valid(w, i) THEN {[w EXCEPT !.spots[i].threshold = v]} ELSE {}

update_spot_market_step_size_and_tick_size(w, i, step, tick) ==
  IF spot_market_valid(w, i) /\ (i = 0 \/ (step > 0 /\ tick > 0))
    THEN {[w EXCEPT !.spots[i].step = step, !.spots[i].tick = tick]} ELSE {}

update_spot_market_min_order_size(w, i, size) ==
  IF spot_market_valid(w, i) /\ (i = 0 \/ size > 0) THEN {[w EXCEPT !.spots[i].min_order = size]} ELSE {}

update_spot_market_orders_enabled(w, i, v) ==
  IF spot_market_valid(w, i) THEN {[w EXCEPT !.spots[i].orders_enabled = v = 1]} ELSE {}

(***************************************************************************)
(* Settings of opts.                                                       *)
(***************************************************************************)
perp_opt(w, i, name, v) == IF perp_market_valid(w, i) THEN {[w EXCEPT !.perps[i].opts = extended(@, name, v)]} ELSE {}

spot_opt(w, i, name, v) == IF spot_market_valid(w, i) THEN {[w EXCEPT !.spots[i].opts = extended(@, name, v)]} ELSE {}

ex_opt(w, name, v) == {[w EXCEPT !.ex.opts = extended(@, name, v)]}

\* These setters do not look at the market's status.
any_perp_opt(w, i, name, v) ==
  IF i \in DOMAIN w.perps THEN {[w EXCEPT !.perps[i].opts = extended(@, name, v)]} ELSE {}

update_perp_market_funding_period(w, i, v) == perp_opt(w, i, "funding_period", v)
update_perp_market_name(w, i, v) == perp_opt(w, i, "name", v)
update_perp_lp_pool_id(w, i, v) == perp_opt(w, i, "lp_pool_id", v)
update_perp_market_reference_price_offset_deadband_pct(w, i, v) == IF v <= 100 THEN perp_opt(w, i, "deadband", v) ELSE {}
update_amm_jit_intensity(w, i, v) == IF v <= 200 THEN perp_opt(w, i, "jit_intensity", v) ELSE {}
update_perp_market_min_order_size(w, i, v) == IF perp_market_valid(w, i) THEN {[w EXCEPT !.perps[i].min_order = v]} ELSE {}
update_perp_market_max_slippage_ratio(w, i, v) == perp_opt(w, i, "max_slippage_ratio", v)
update_perp_market_max_fill_reserve_fraction(w, i, v) == perp_opt(w, i, "max_fill_reserve_fraction", v)
update_perp_market_fee_adjustment(w, i, v) == IF abs(v) <= 100 THEN perp_opt(w, i, "fee_adjustment", v) ELSE {}
update_perp_market_fuel(w, i, v) == any_perp_opt(w, i, "fuel", v)
update_perp_market_protected_maker_params(w, i, v) == any_perp_opt(w, i, "protected_maker", v)
update_perp_market_lp_pool_paused_operations(w, i, v) == any_perp_opt(w, i, "lp_paused", v)
update_perp_market_oracle_low_risk_slot_delay_override(w, i, v) == perp_opt(w, i, "low_risk_delay", v)
update_perp_market_oracle_slot_delay_override(w, i, v) == perp_opt(w, i, "slot_delay", v)

update_spot_market_name(w, i, v) == spot_opt(w, i, "name", v)
update_insurance_fund_unstaking_period(w, i, v) == spot_opt(w, i, "unstaking_period", v)
update_spot_market_revenue_settle_period(w, i, v) == spot_opt(w, i, "revenue_settle_period", v)
update_spot_market_scale_initial_asset_weight_start(w, i, v) == spot_opt(w, i, "scale_start", v)
update_spot_market_if_paused_operations(w, i, v) == spot_opt(w, i, "if_paused", v)
update_spot_market_fee_adjustment(w, i, v) == IF abs(v) <= 100 THEN spot_opt(w, i, "fee_adjustment", v) ELSE {}
update_spot_market_fuel(w, i, v) ==
  IF i \in DOMAIN w.spots THEN {[w EXCEPT !.spots[i].opts = extended(@, "fuel", v)]} ELSE {}

update_initial_pct_to_liquidate(w, v) == ex_opt(w, "initial_pct_to_liquidate", v)
update_liquidation_duration(w, v) == ex_opt(w, "liquidation_duration", v)
update_liquidation_margin_buffer_ratio(w, v) == ex_opt(w, "margin_buffer_ratio", v)
update_oracle_guard_rails(w, v) == ex_opt(w, "oracle_guard_rails", v)
update_state_settlement_duration(w, v) == {[w EXCEPT !.ex.settlement_duration = v]}
update_state_max_number_of_sub_accounts(w, v) == ex_opt(w, "max_sub_accounts", v)
update_state_max_initialize_user_fee(w, v) == ex_opt(w, "max_user_fee", v)
update_whitelist_mint(w, v) == ex_opt(w, "whitelist_mint", v)
update_discount_mint(w, v) == ex_opt(w, "discount_mint", v)
update_exchange_status(w, v) == {[w EXCEPT !.ex.deposits_paused = v = 1]}
update_perp_auction_duration(w, v) == ex_opt(w, "perp_auction", v)
update_spot_auction_duration(w, v) == ex_opt(w, "spot_auction", v)
update_serum_vault(w, v) == ex_opt(w, "srm_vault", v)
update_admin(w, admin) == {[w EXCEPT !.ex.admin = admin]}

admin_update_user_stats_paused_operations(w, v) == {[w EXCEPT !.user.paused = v]}

\* A bonus may be negative, and stops at zero; the fuel's clocks start again.
init_user_fuel(w, bonus) == {[w EXCEPT !.user.fuel = atLeast(0, @ + bonus), !.user.fuel_ts = w.now]}

\* The account alone: prices come from update_pyth_lazer_oracle.
initialize_pyth_lazer_oracle(w, v) == ex_opt(w, "lazer_feed", v)

(***************************************************************************)
(* Fees and flags of the exchange.                                         *)
(***************************************************************************)
\* mutant: the filler is forgotten
mut_validate_fee_tier(t) ==
  LET taker == (t.fee * (100 - t.discount)) \div 100
  IN  /\ t.fee <= 300 /\ t.rebate <= 30 /\ t.discount <= 100 /\ t.referrer <= 100
      /\ taker - (taker * t.referrer) \div 100 >= t.rebate

\* What is left of the taker's fee after the referee's discount, the referrer's
\* reward and the filler's pays the maker's rebate.
validate_fee_tier(t) ==
  LET taker == (t.fee * (100 - t.discount)) \div 100
      shares == (taker * (t.referrer + t.filler)) \div 100
  IN  /\ t.fee <= 300 /\ t.rebate <= 30 /\ t.discount <= 100 /\ t.referrer <= 100
      /\ shares <= taker
      /\ taker - shares <= t.fee
      /\ taker - shares >= t.rebate

validate_fee_structure(t) == validate_fee_tier(t) /\ t.filler <= 20 /\ t.flat_filler_fee < 5000

update_perp_fee_structure(w, t) == IF validate_fee_structure(t) THEN ex_opt(w, "perp_fees", t) ELSE {}

update_spot_fee_structure(w, t) == IF validate_fee_structure(t) THEN ex_opt(w, "spot_fees", t) ELSE {}

\* mutant: the hot wallet turns a feature on
mut_feature(w, s, field, flag, enable) ==
  {[w EXCEPT !.ex[field] = IF enable THEN @ \union {flag} ELSE @ \ {flag}]}

\* The hot wallet may only turn a feature off.
feature(w, s, field, flag, enable) ==
  IF enable /\ s # w.ex.admin THEN {}
  ELSE {[w EXCEPT !.ex[field] = IF enable THEN @ \union {flag} ELSE @ \ {flag}]}

update_feature_bit_flags_mm_oracle(w, s, on) == feature(w, s, "flags", "MmOracleUpdate", on)
update_feature_bit_flags_median_trigger_price(w, s, on) == feature(w, s, "flags", "MedianTriggerPrice", on)
update_feature_bit_flags_builder_codes(w, s, on) == feature(w, s, "flags", "BuilderCodes", on)
update_feature_bit_flags_builder_referral(w, s, on) == feature(w, s, "flags", "BuilderReferral", on)
update_feature_bit_flags_settle_lp_pool(w, s, on) == feature(w, s, "lp_flags", "SettleLpPool", on)
update_feature_bit_flags_swap_lp_pool(w, s, on) == feature(w, s, "lp_flags", "SwapLpPool", on)
update_feature_bit_flags_mint_redeem_lp_pool(w, s, on) == feature(w, s, "lp_flags", "MintRedeemLpPool", on)

(***************************************************************************)
(* Accounts there is one of.                                               *)
(***************************************************************************)
create(w, name, x) == IF name \in DOMAIN w.single THEN {} ELSE {[w EXCEPT !.single = extended(@, name, x)]}

replace(w, name, x) == IF name \in DOMAIN w.single THEN {[w EXCEPT !.single[name] = x]} ELSE {}

users_fit(c) == c.users <= c.max

initialize_high_leverage_mode_config(w, max) == create(w, "high_leverage", [users |-> 0, max |-> max])

update_high_leverage_mode_config(w, max, users) ==
  LET c == [users |-> given(users, w.single["high_leverage"].users), max |-> max]
  IN  IF "high_leverage" \in DOMAIN w.single /\ users_fit(c) THEN replace(w, "high_leverage", c) ELSE {}

initialize_protected_maker_mode_config(w, max) == create(w, "protected_maker", [users |-> 0, max |-> max])

update_protected_maker_mode_config(w, max, users) ==
  LET c == [users |-> given(users, w.single["protected_maker"].users), max |-> max]
  IN  IF "protected_maker" \in DOMAIN w.single /\ users_fit(c) THEN replace(w, "protected_maker", c) ELSE {}

rebalance_valid(c) == c.total >= c.used /\ c.epoch_max <= c.total

initialize_if_rebalance_config(w, total, epoch_max) ==
  LET c == [total |-> total, used |-> 0, epoch_max |-> epoch_max]
  IN  IF rebalance_valid(c) THEN create(w, "if_rebalance", c) ELSE {}

update_if_rebalance_config(w, total, epoch_max) ==
  LET c == [w.single["if_rebalance"] EXCEPT !.total = total, !.epoch_max = epoch_max]
  IN  IF "if_rebalance" \in DOMAIN w.single /\ rebalance_valid(c) THEN replace(w, "if_rebalance", c) ELSE {}

initialize_protocol_if_shares_transfer_config(w) == create(w, "if_transfer", [next_epoch |-> w.now + Day, max |-> 0])

update_protocol_if_shares_transfer_config(w, max) ==
  IF "if_transfer" \in DOMAIN w.single THEN {[w EXCEPT !.single["if_transfer"].max = given(max, @)]} ELSE {}

(***************************************************************************)
(* The state machine.                                                      *)
(***************************************************************************)
Init == world \in Openings /\ ops = 0 /\ by = "nobody"

\* s signs a handler that leaves one of the worlds.
Does(s, signers, cost, worlds) ==
  /\ s \in signers
  /\ ops + cost <= MaxOps
  /\ \E w \in worlds : w # world /\ world' = w
  /\ ops' = ops + cost
  /\ by' = s

Signers == Admins \union {Hot}
Perps == DOMAIN world.perps
Spots == DOMAIN world.spots
Optional(values) == {{}} \union {{v} : v \in values}

MakeMarkets(s) ==
  \/ \E a \in NewSpots : Does(s, InitializeSpotMarket(world), 1, initialize_spot_market(world, s, a))
  \/ \E a \in NewPerps, i \in 0..2 : Does(s, InitializePerpMarket(world), 1, initialize_perp_market(world, s, a, i))
  \/ \E i \in Spots : Does(s, DeleteInitializedSpotMarket(world), 1, delete_initialized_spot_market(world, i))
  \/ \E i \in Perps : Does(s, DeleteInitializedPerpMarket(world), 1, delete_initialized_perp_market(world, i))
  \/ \E i \in Perps : Does(s, AdminUpdatePerpMarket(world), 1, initialize_prediction_market(world, i))
  \/ Does(s, InitializeAmmCache(world), 1, initialize_amm_cache(world))
  \/ \E i \in Perps : Does(s, AddMarketToAmmCache(world), 1, add_market_to_amm_cache(world, i))
  \/ Does(s, DeleteAmmCache(world), 1, delete_amm_cache(world))

Fulfillment(s) ==
  \/ \E i \in Spots, lot, tick \in Tried.lots :
       Does(s, InitializeSerumFulfillmentConfig(world), 2, initialize_serum_fulfillment_config(world, i, lot, tick))
  \/ \E i \in Spots, lot \in Tried.lots, fee \in {0, 1} :
       Does(s, InitializeOpenbookV2FulfillmentConfig(world), 2,
            initialize_openbook_v2_fulfillment_config(world, i, lot, fee))
  \/ \E i \in Spots, lot \in Tried.lots :
       Does(s, InitializePhoenixFulfillmentConfig(world), 2, initialize_phoenix_fulfillment_config(world, i, lot))
  \/ \E c \in world.fulfil, status \in {"Enabled", "Disabled"} :
       \/ Does(s, UpdateSerumFulfillmentConfig(world), 2, update_serum_fulfillment_config_status(world, c, status))
       \/ Does(s, UpdateOpenbookV2FulfillmentConfig(world), 2,
               update_openbook_v2_fulfillment_config_status(world, c, status))
       \/ Does(s, UpdatePhoenixFulfillmentConfig(world), 2, update_phoenix_fulfillment_config_status(world, c, status))
  \/ \E c \in world.fulfil :
       \/ Does(s, DeleteSerumFulfillmentConfig(world), 2, delete_serum_fulfillment_config(world, c))
       \/ Does(s, DeleteOpenbookV2FulfillmentConfig(world), 2, delete_openbook_v2_fulfillment_config(world, c))

MoveCurve(s) == \E i \in Perps :
  \/ \E b, q, k \in Tried.reserves : Does(s, AdminUpdatePerpMarket(world), 1, move_amm_price(world, i, b, q, k))
  \/ \E peg \in Tried.pegs, k \in Tried.reserves :
       Does(s, AdminUpdatePerpMarket(world), 1, handle_recenter_perp_market_amm(world, i, peg, k))
  \/ \E depth \in Optional(Tried.depths), said \in Tried.prices \union {FeedPrice[n] : n \in DOMAIN FeedPrice} :
       Does(s, AdminUpdatePerpMarketAmmSummaryStats(world), 1, recenter_perp_market_amm_crank(world, i, depth, said))
  \/ \E peg \in Tried.pegs : Does(s, RepegCurve(world), 1, repeg_amm_curve(world, i, peg))
  \/ \E k \in Tried.reserves : Does(s, AdminUpdateK(world), 1, handle_update_k(world, i, k))
  \/ \E scale \in {0, 1, 2} : Does(s, AdminUpdatePerpMarket(world), 1, update_perp_market_concentration_coef(world, i, scale))
  \/ \E update, exclude \in BOOLEAN :
       Does(s, AdminUpdatePerpMarketAmmSummaryStats(world), 1,
            update_perp_market_amm_summary_stats(world, i, update, exclude))

MoveMoney(s) ==
  \/ \E i \in Perps, amount \in Tried.amounts :
       \/ Does(s, DepositIntoMarketFeePool(world), 1, deposit_into_perp_market_fee_pool(world, i, amount))
       \/ Does(s, UpdatePerpMarketPnlPool(world), 1, update_perp_market_pnl_pool(world, i, amount))
  \/ \E i \in Spots, amount \in Tried.amounts :
       \/ Does(s, DepositIntoSpotMarketVault(world), 1, deposit_into_spot_market_vault(world, i, amount))
       \/ Does(s, AdminDeposit(world), 1, admin_deposit(world, i, amount))

Expire(s) ==
  \/ \E i \in Perps, ts \in 0..MaxNow + 1 : Does(s, AdminUpdatePerpMarket(world), 1, update_perp_market_expiry(world, i, ts))
  \/ \E i \in Spots, ts \in 0..MaxNow + 1 : Does(s, AdminUpdateSpotMarket(world), 1, update_spot_market_expiry(world, i, ts))
  \/ \E i \in Perps :
       \/ Does(s, AdminUpdatePerpMarket(world), 1, handle_settle_expired_market(world, i))
       \/ Does(s, SettleExpiredMarketPoolsToRevenuePool(world), 1, settle_expired_market_pools_to_revenue_pool(world, i))
  \/ \E v \in {0, 1, 2} : Does(s, AdminUpdateState(world), 1, update_state_settlement_duration(world, v))

SetOracles(s) ==
  \/ \E i \in Spots, o \in Tried.oracles, skip \in BOOLEAN :
       Does(s, AdminUpdateSpotMarketOracle(world), 1, update_spot_market_oracle(world, i, o, skip))
  \/ \E i \in Perps, o \in Tried.oracles, skip \in BOOLEAN :
       Does(s, AdminUpdatePerpMarketOracle(world), 1, update_perp_market_oracle(world, i, o, skip))
  \/ \E i \in {0, 1}, price, max \in Optional(Tried.prices) :
       \/ Does(s, InitializePrelaunchOracle(world), 1, initialize_prelaunch_oracle(world, i, price, max))
       \/ Does(s, UpdatePrelaunchOracleParams(world), 1, update_prelaunch_oracle_params(world, i, price, max))
  \/ \E i \in {0, 1} : Does(s, DeletePrelaunchOracle(world), 1, delete_prelaunch_oracle(world, i))
  \/ \E i \in Perps :
       \/ Does(s, RepegCurve(world), 1, update_amm_oracle_twap(world, i))
       \/ Does(s, RepegCurve(world), 1, reset_amm_oracle_twap(world, i))
       \/ Does(s, HotAdminUpdatePerpMarket(world), 1, zero_mm_oracle_fields(world, i))

\* Two wallets of their own, by native instructions.
Cranks == \E i \in Perps :
  \/ \E price \in {0} \union Tried.prices, seq \in 1..2 :
       Does("mm_oracle_crank", {"mm_oracle_crank"}, 1, update_mm_oracle_native(world, i, price, seq))
  \/ \E v \in Tried.adjustments :
       Does("spread_wallet", {"spread_wallet"}, 1, update_amm_spread_adjustment_native(world, i, v))

SetMargins(s) == \E i \in Perps :
  \/ \E init, maint \in Tried.ratios :
       \/ Does(s, AdminUpdatePerpMarket(world), 1, update_perp_market_margin_ratio(world, i, init, maint))
       \/ Does(s, AdminUpdatePerpMarket(world), 1, update_perp_market_high_leverage_margin_ratio(world, i, init, maint))
  \/ \E fee, if_fee \in Tried.fees : Does(s, AdminUpdatePerpMarket(world), 1, update_perp_liquidation_fee(world, i, fee, if_fee))
  \/ \E spread \in Tried.spreads :
       \/ Does(s, AdminUpdatePerpMarket(world), 1, update_perp_market_base_spread(world, i, spread))
       \/ Does(s, HotAdminUpdatePerpMarket(world), 1, update_perp_market_max_spread(world, i, spread))
  \/ \E limit \in Tried.limits, tier \in DOMAIN InsuranceMax :
       \/ Does(s, AdminUpdatePerpMarket(world), 1, update_perp_market_max_imbalances(world, i, limit, limit, limit))
       \/ Does(s, AdminUpdatePerpMarket(world), 1, update_perp_market_contract_tier(world, i, tier))
  \/ \E status \in Statuses : Does(s, AdminUpdatePerpMarket(world), 1, update_perp_market_status(world, i, status))
  \/ \E paused \in SUBSET {"UpdateFunding", "SettleRevPool", "Fill"} :
       Does(s, HotAdminUpdatePerpMarket(world), 1, update_perp_market_paused_operations(world, s, i, paused))
  \/ \E config \in 0..2 : Does(s, HotAdminUpdatePerpMarket(world), 1, update_perp_market_config(world, s, i, config))
  \/ \E users, with_base \in Optional({0, 1}) :
       Does(s, AdminUpdatePerpMarket(world), 1, update_perp_market_number_of_users(world, i, users, with_base))

\* What a perp market's handlers set without a look at anything else.
SetPerps(s) == \E i \in Perps, v \in Tried.values :
  \/ Does(s, AdminUpdatePerpMarket(world), 2,
       UNION {update_perp_market_imf_factor(world, i, v), update_perp_market_unrealized_asset_weight(world, i, v, Weight),
              update_perp_market_step_size_and_tick_size(world, i, v + 1, v + 1),
              update_perp_market_max_open_interest(world, i, v), update_perp_market_funding_period(world, i, v),
              update_perp_market_name(world, i, v), update_perp_lp_pool_id(world, i, v),
              update_perp_market_min_order_size(world, i, v), update_perp_market_max_slippage_ratio(world, i, v),
              update_perp_market_max_fill_reserve_fraction(world, i, v), update_perp_market_fee_adjustment(world, i, v),
              update_perp_market_protected_maker_params(world, i, v),
              update_perp_market_lp_pool_paused_operations(world, i, v)})
  \/ Does(s, HotAdminUpdatePerpMarket(world), 2,
       UNION {update_perp_market_curve_update_intensity(world, i, v),
              update_perp_market_reference_price_offset_deadband_pct(world, i, v), update_amm_jit_intensity(world, i, v),
              update_perp_market_fuel(world, i, v), update_perp_market_oracle_low_risk_slot_delay_override(world, i, v),
              update_perp_market_amm_spread_adjustment(world, i, v),
              update_perp_market_oracle_slot_delay_override(world, i, v)})

SetSpots(s) == \E i \in Spots :
  \/ \E iaw, maw \in Tried.assets, ilw, mlw \in Tried.liabilities, imf \in {0, ImfLimit} :
       Does(s, AdminUpdateSpotMarket(world), 1, update_spot_market_margin_weights(world, i, iaw, maw, ilw, mlw, imf))
  \/ \E tier \in {"Collateral", "Protected", "Isolated"} :
       Does(s, AdminUpdateSpotMarket(world), 1, update_spot_market_asset_tier(world, i, tier))
  \/ \E a, b \in Tried.fees :
       \/ Does(s, AdminUpdateSpotMarket(world), 1, update_spot_market_liquidation_fee(world, i, a, b))
       \/ Does(s, AdminUpdateSpotMarket(world), 1, update_spot_market_if_factor(world, i, a, b))
  \/ \E rate, max \in Tried.rates, min \in Optional(Tried.min_rates) :
       Does(s, AdminUpdateSpotMarket(world), 1, update_spot_market_borrow_rate(world, i, 50, rate, max, min))
  \/ \E status \in Statuses : Does(s, AdminUpdateSpotMarket(world), 1, update_spot_market_status(world, i, status))
  \/ \E max \in Tried.amounts : Does(s, AdminUpdateSpotMarket(world), 1, update_spot_market_max_token_deposits(world, i, max))
  \/ \E share \in {0, 50} : Does(s, AdminUpdateSpotMarket(world), 1, update_spot_market_max_token_borrows(world, i, share))
  \/ \E pool \in {0, 1} : Does(s, AdminUpdateSpotMarket(world), 1, update_spot_market_pool_id(world, i, pool))
  \/ \E v \in Tried.values :
       \/ Does(s, AdminUpdateSpotMarket(world), 2,
            UNION {update_withdraw_guard_threshold(world, i, v), update_spot_market_step_size_and_tick_size(world, i, v, v),
                   update_spot_market_min_order_size(world, i, v), update_spot_market_orders_enabled(world, i, v),
                   update_spot_market_paused_operations(world, i, {"Deposit"}), update_spot_market_name(world, i, v),
                   update_insurance_fund_unstaking_period(world, i, v),
                   update_spot_market_revenue_settle_period(world, i, v),
                   update_spot_market_scale_initial_asset_weight_start(world, i, v),
                   update_spot_market_if_paused_operations(world, i, v), update_spot_market_fee_adjustment(world, i, v)})
       \/ Does(s, AdminUpdateSpotMarketFuel(world), 2, update_spot_market_fuel(world, i, v))

SetExchange(s) ==
  \/ \E v \in Tried.values : Does(s, AdminUpdateState(world), 2,
       UNION {update_initial_pct_to_liquidate(world, v), update_liquidation_duration(world, v),
              update_liquidation_margin_buffer_ratio(world, v), update_oracle_guard_rails(world, v),
              update_state_max_number_of_sub_accounts(world, v), update_state_max_initialize_user_fee(world, v),
              update_whitelist_mint(world, v), update_discount_mint(world, v), update_exchange_status(world, v),
              update_perp_auction_duration(world, v), update_spot_auction_duration(world, v)})
  \/ \E v \in Tried.values : Does(s, UpdateSerumVault(world), 2, update_serum_vault(world, v))
  \/ \E v \in Tried.values : Does(s, AdminDisableBidAskTwapUpdate(world), 2, admin_update_user_stats_paused_operations(world, v))
  \/ \E v \in Tried.values : Does(s, InitPythLazerOracle(world), 2, initialize_pyth_lazer_oracle(world, v))
  \/ \E v \in Tried.adjustments : Does(s, InitUserFuel(world), 2, init_user_fuel(world, v))
  \/ \E a \in Admins : Does(s, AdminUpdateState(world), 1, update_admin(world, a))
  \/ \E t \in FeeTiers :
       \/ Does(s, AdminUpdateState(world), 2, update_perp_fee_structure(world, t))
       \/ Does(s, AdminUpdateState(world), 2, update_spot_fee_structure(world, t))
  \/ \E on \in BOOLEAN : Does(s, HotAdminUpdateState(world), 1,
       UNION {update_feature_bit_flags_mm_oracle(world, s, on), update_feature_bit_flags_median_trigger_price(world, s, on),
              update_feature_bit_flags_builder_codes(world, s, on), update_feature_bit_flags_builder_referral(world, s, on),
              update_feature_bit_flags_settle_lp_pool(world, s, on), update_feature_bit_flags_swap_lp_pool(world, s, on),
              update_feature_bit_flags_mint_redeem_lp_pool(world, s, on)})

SetConfigs(s) == \E max \in Tried.users :
  \/ Does(s, InitializeHighLeverageModeConfig(world), 1, initialize_high_leverage_mode_config(world, max))
  \/ Does(s, InitializeProtectedMakerModeConfig(world), 1, initialize_protected_maker_mode_config(world, max))
  \/ \E users \in Optional(Tried.users) :
       \/ Does(s, UpdateHighLeverageModeConfig(world), 1, update_high_leverage_mode_config(world, max, users))
       \/ Does(s, UpdateProtectedMakerModeConfig(world), 1, update_protected_maker_mode_config(world, max, users))
       \/ Does(s, UpdateProtocolIfSharesTransferConfig(world), 1, update_protocol_if_shares_transfer_config(world, users))
  \/ \E epoch_max \in Tried.users :
       \/ Does(s, InitializeIfRebalanceConfig(world), 1, initialize_if_rebalance_config(world, max, epoch_max))
       \/ Does(s, UpdateIfRebalanceConfig(world), 1, update_if_rebalance_config(world, max, epoch_max))
  \/ Does(s, InitializeProtocolIfSharesTransferConfig(world), 1, initialize_protocol_if_shares_transfer_config(world))

Tick == world.now < MaxNow /\ world' = [world EXCEPT !.now = @ + 1] /\ UNCHANGED <<ops, by>>

Next ==
  \/ \E s \in Signers :
       \/ MakeMarkets(s) \/ Fulfillment(s) \/ MoveCurve(s) \/ MoveMoney(s) \/ Expire(s) \/ SetOracles(s)
       \/ SetMargins(s) \/ SetPerps(s) \/ SetSpots(s) \/ SetExchange(s) \/ SetConfigs(s)
  \/ Cranks
  \/ Tick

Spec == Init /\ [][Next]_vars

(***************************************************************************)
(* Properties.                                                             *)
(***************************************************************************)
\* The exchange, its markets and their balances have their types.
TypeOK ==
  /\ ops \in 0..MaxOps /\ world.now \in 0..MaxNow
  /\ world.ex.admin \in Admins
  /\ \A i \in DOMAIN world.perps :
       /\ world.perps[i].status \in Statuses /\ world.perps[i].type \in {"Perpetual", "Prediction"}
       /\ {world.perps[i].b, world.perps[i].q, world.perps[i].k, world.perps[i].peg} \subseteq Nat \ {0}
  /\ \A i \in DOMAIN world.spots :
       /\ world.spots[i].status \in Statuses
       /\ {world.spots[i].dep, world.spots[i].bor, world.spots[i].vault, world.spots[i].if_vault} \subseteq Nat
  /\ \A i \in DOMAIN world.pre : world.pre[i].price \in Nat

\* Whatever setter ran last, a perp market's initial margin is above its
\* maintenance margin, both are above those of high leverage mode, the maintenance
\* margin pays the liquidation fee, the spread stays within the initial margin;
\* and no spot token counts for more as an asset or less as a liability initially
\* than for maintenance (validation/margin.rs, called by four handlers).
RiskKept(w) ==
  /\ \A i \in DOMAIN w.perps : LET m == w.perps[i] IN
       /\ m.init > m.maint
       /\ m.hl_init # 0 => m.init > m.hl_init /\ m.maint > m.hl_maint /\ m.hl_init > m.hl_maint /\ m.hl_maint # 0
       /\ m.maint * FeeToMargin > m.liq_fee
       /\ m.max_spread <= m.init * SpreadPerMargin
  /\ \A i \in DOMAIN w.spots : LET k == w.spots[i] IN
       k.iaw <= k.maw /\ k.maw <= Weight /\ k.ilw >= k.mlw /\ k.mlw >= Weight

\* Settings that different handlers write agree: the borrow rates are ordered, the
\* insurance never promised a perp market less than it paid, the stakers' share is
\* part of the fund's, and no mode has more users than it may (admin.rs).
SettingsAgree(w) ==
  /\ \A i \in DOMAIN w.spots : LET k == w.spots[i] IN
       k.min_rate <= k.optimal_rate /\ k.optimal_rate <= k.max_rate /\ k.user_factor <= k.factor
  /\ \A i \in DOMAIN w.perps : w.perps[i].quote_settled <= w.perps[i].quote_max
  /\ \A n \in DOMAIN w.single \ {"if_transfer", "if_rebalance"} : w.single[n].users <= w.single[n].max
  /\ "if_rebalance" \in DOMAIN w.single => w.single["if_rebalance"].used <= w.single["if_rebalance"].total

\* Every market the exchange counts exists and no other: the counts are the
\* next free index (get_then_update_id, delete_initialized_perp_market).
MarketsCounted(w) ==
  /\ DOMAIN w.perps = 0..w.ex.number_of_markets - 1
  /\ DOMAIN w.spots = 0..w.ex.number_of_spot_markets - 1

balance_sum(w, i) ==
  LET pools == IF i = 0 THEN FoldFunctionOnSet(LAMBDA m, acc : m.pnl_pool.bal + m.fee_pool.bal + acc, 0, w.perps, DOMAIN w.perps)
               ELSE 0
  IN  w.spots[i].revenue.bal + pools

\* The deposits of each token cover the balances of the pools, of the revenue pool
\* and of the users, and the vault pays for them less the borrows: no handler of the
\* admin mints a claim (handle_update_perp_market_pnl_pool, admin_deposit).  They may
\* be more than those balances: a market made Initialized again and deleted leaves
\* its pools' tokens to nobody (handle_delete_initialized_perp_market).
ClaimsBacked ==
  \A i \in DOMAIN world.spots : LET k == world.spots[i] IN
    /\ k.dep >= balance_sum(world, i) + (IF world.user.bal[i].type = "Deposit" THEN world.user.bal[i].bal ELSE 0)
    /\ k.bor = IF world.user.bal[i].type = "Borrow" THEN world.user.bal[i].bal ELSE 0
    /\ k.vault >= deposits(k) - borrows(k)

total_vaults(w) == FoldFunctionOnSet(LAMBDA k, acc : k.vault + k.if_vault + acc, 0, w.spots, DOMAIN w.spots)

\* A delisted perp market owes and owns nothing: its pools are empty and no base
\* or quote is left (handle_settle_expired_market_pools_to_revenue_pool).
DelistedEmpty ==
  \A i \in DOMAIN world.perps : LET m == world.perps[i] IN
    m.status = "Delisted" => m.pnl_pool.bal = 0 /\ m.fee_pool.bal = 0 /\ m.long = 0 /\ m.short = 0 /\ m.quote = 0

\* A market settles only once it expired (controller/repeg.rs settle_expired_market).
SettledAfterExpiry ==
  \A i \in DOMAIN world.perps : LET m == world.perps[i] IN
    m.status \in {"Settlement", "Delisted"} => m.expiry_ts # 0 /\ m.expiry_ts <= world.now

\* A prediction market never pays funding (initialize_prediction_market,
\* update_perp_market_paused_operations).
PredictionsUnfunded(w) ==
  \A i \in DOMAIN w.perps : w.perps[i].type = "Prediction" => "UpdateFunding" \in w.perps[i].paused

\* A market maker's price is there exactly if its sequence number is: zeroing lets
\* the next update in (zero_mm_oracle_fields, update_mm_oracle_native).
MmOracleWhole(w) == \A i \in DOMAIN w.perps : (w.perps[i].mm_price = 0) = (w.perps[i].mm_seq = 0)

\* A market that prices itself by its own prelaunch oracle can read it.
OracleInUse(w) == \A i \in DOMAIN w.perps : w.perps[i].oracle = Prelaunch(i) => i \in DOMAIN w.pre

\* The stored terminal reserve and the bounds are those of the reserves, whichever
\* handler moved the curve (controller/amm.rs, math/cp_curve.rs).
CurveConsistent ==
  \A i \in DOMAIN world.perps : LET m == world.perps[i] IN
    \A t \in calculate_terminal_reserves(m) :
      /\ t.q = m.term
      /\ [min |-> m.min, max |-> m.max] = calculate_bid_ask_bounds(m.coef, t.b)

\* The taker's fee pays the referrer, the filler and the maker in every fee
\* structure set, up to the rounding of two divisions (validation/fee_structure.rs).
FeesCovered(w) ==
  \A n \in {"perp_fees", "spot_fees"} \intersect DOMAIN w.ex.opts :
    LET t == w.ex.opts[n]
        taker == t.fee * (100 - t.discount)
    IN  100 * 100 * t.rebate + taker * (t.referrer + t.filler) <= 100 * taker + 2 * 100 * 100

SettingsHold(w) ==
  /\ RiskKept(w) /\ SettingsAgree(w) /\ FeesCovered(w)
  /\ PredictionsUnfunded(w) /\ MmOracleWhole(w) /\ OracleInUse(w)

\* Settings that several handlers write never contradict each other.
SettingsSound == SettingsHold(world)

\* Every market exists whole: counted, priced by its own curve, covered by the
\* vaults, and settled and emptied before it is closed.
MarketsSound ==
  /\ TypeOK /\ MarketsCounted(world) /\ ClaimsBacked
  /\ SettledAfterExpiry /\ DelistedEmpty /\ CurveConsistent

\* No handler pays tokens out of a vault: what is in all of them never falls, and a
\* market goes only with its vaults empty.
VaultsGrow == [][total_vaults(world') >= total_vaults(world)]_vars

\* The hot wallet makes no market active, turns no feature on, changes no status, no
\* margin and no admin, and moves nothing between pools (admin.rs checks on state.admin).
HotOnlyStops ==
  [][by' = Hot /\ world' # world /\ world'.now = world.now =>
       /\ world'.ex.admin = world.ex.admin
       /\ world'.ex.flags \subseteq world.ex.flags /\ world'.ex.lp_flags \subseteq world.ex.lp_flags
       /\ \A i \in DOMAIN world'.perps : LET n == world'.perps[i] IN
            IF i \notin DOMAIN world.perps THEN n.status = "Initialized"
            ELSE /\ n.status = world.perps[i].status /\ n.config <= world.perps[i].config
                 /\ n.init = world.perps[i].init /\ n.maint = world.perps[i].maint
                 /\ n.pnl_pool = world.perps[i].pnl_pool /\ n.fee_pool = world.perps[i].fee_pool
       /\ \A i \in DOMAIN world'.spots :
            world'.spots[i].status = IF i \in DOMAIN world.spots THEN world.spots[i].status ELSE "Initialized"]_vars

\* A change of k or of the peg never spends the half of the exchange fees that is
\* kept for the protocol, unless the market is being settled (math/repeg.rs,
\* handle_update_k).
CurveSpendsFees ==
  [][\A i \in DOMAIN world.perps \intersect DOMAIN world'.perps :
       LET m == world.perps[i] n == world'.perps[i] IN
       /\ (m.k # n.k \/ m.peg # n.peg) /\ n.tfmd < m.tfmd /\ n.status # "Settlement"
       => n.tfmd >= get_total_fee_lower_bound(m) - m.withdrawn]_vars

\* Neither the vaults nor the protocol's share of the fees pay for an admin's call.
NothingSpent == VaultsGrow /\ CurveSpendsFees

\* What no call may do, whoever makes it and in whatever order: spend what is not the
\* admin's and, with the hot wallet, start anything (admin.rs).
CallsBounded == NothingSpent /\ HotOnlyStops

(***************************************************************************)
(* What is assumed of the worlds to start from and of the arguments.       *)
(***************************************************************************)
WorldFields == {"ex", "perps", "spots", "pre", "cache", "fulfil", "single", "user", "now"}
PerpSettings == {"init", "maint", "hl_init", "hl_maint", "liq_fee", "max_spread", "quote_settled", "quote_max", "type",
                 "paused", "mm_price", "mm_seq", "oracle"}
SpotSettings == {"iaw", "maw", "ilw", "mlw", "min_rate", "optimal_rate", "max_rate", "user_factor", "factor"}

\* An exchange with every field that a rule on settings looks at.
Whole(w) ==
  /\ DOMAIN w = WorldFields
  /\ {"number_of_markets", "number_of_spot_markets", "opts"} \subseteq DOMAIN w.ex
  /\ {w.ex.number_of_markets, w.ex.number_of_spot_markets} \subseteq Nat
  /\ \A i \in DOMAIN w.perps : PerpSettings \subseteq DOMAIN w.perps[i] /\ w.perps[i].max_spread \in Nat
  /\ \A i \in DOMAIN w.spots : SpotSettings \subseteq DOMAIN w.spots[i]
  /\ "if_rebalance" \in DOMAIN w.single => {"used", "total"} \subseteq DOMAIN w.single["if_rebalance"]

ASSUME OpeningsAssumption == \A w \in Openings : Whole(w) /\ MarketsCounted(w) /\ SettingsHold(w)

\* Unsigned integers of the instructions' arguments.
ASSUME ArgumentsAssumption ==
  /\ \A a \in NewSpots : {a.optimal_rate, a.factor} \subseteq Nat
  /\ \A a \in NewPerps : {a.max_spread, a.quote_max} \subseteq Nat
  /\ \A t \in FeeTiers : {t.fee, t.discount, t.referrer, t.rebate, t.filler} \subseteq Nat
  /\ Tried.spreads \union Tried.rates \union Tried.min_rates \union Tried.users \subseteq Nat
=============================================================================
