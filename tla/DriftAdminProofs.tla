--------------------------- MODULE DriftAdminProofs ---------------------------
(***************************************************************************)
(* Proofs about DriftAdmin: the settings that several handlers write never *)
(* contradict each other, whatever the admin and the hot wallet call and   *)
(* in whatever order.                                                      *)
(*                                                                         *)
(* The invariant Kept is the rules of SettingsHold with the count of the   *)
(* markets and the presence of the fields the rules look at, stated of one *)
(* market at a time.  A handler is sound when all the worlds it can leave  *)
(* keep it; a handler that touches no field of a rule leaves a market that *)
(* is the same (SamePerp, SameSpot), through every call it makes.          *)
(***************************************************************************)
EXTENDS DriftAdmin, TLAPS

\* What the rules say of one perp market and of one spot market.
PerpKept(m) ==
  /\ PerpSettings \subseteq DOMAIN m
  /\ m.max_spread \in Nat
  /\ m.init > m.maint
  /\ m.hl_init # 0 => m.init > m.hl_init /\ m.maint > m.hl_maint /\ m.hl_init > m.hl_maint /\ m.hl_maint # 0
  /\ m.maint * FeeToMargin > m.liq_fee
  /\ m.max_spread <= m.init * SpreadPerMargin
  /\ m.quote_settled <= m.quote_max
  /\ m.type = "Prediction" => "UpdateFunding" \in m.paused
  /\ (m.mm_price = 0) = (m.mm_seq = 0)

SpotKept(k) ==
  /\ SpotSettings \subseteq DOMAIN k
  /\ k.iaw <= k.maw /\ k.maw <= Weight /\ k.ilw >= k.mlw /\ k.mlw >= Weight
  /\ k.min_rate <= k.optimal_rate /\ k.optimal_rate <= k.max_rate /\ k.user_factor <= k.factor

ExKept(ex) ==
  /\ {"number_of_markets", "number_of_spot_markets", "opts"} \subseteq DOMAIN ex
  /\ {ex.number_of_markets, ex.number_of_spot_markets} \subseteq Nat
  /\ \A n \in {"perp_fees", "spot_fees"} \intersect DOMAIN ex.opts :
       LET t == ex.opts[n]
           taker == t.fee * (100 - t.discount)
       IN  100 * 100 * t.rebate + taker * (t.referrer + t.filler) <= 100 * taker + 2 * 100 * 100

SingleKept(single) ==
  /\ "if_rebalance" \in DOMAIN single =>
       /\ {"used", "total"} \subseteq DOMAIN single["if_rebalance"]
       /\ single["if_rebalance"].used <= single["if_rebalance"].total
  /\ \A n \in DOMAIN single \ {"if_transfer", "if_rebalance"} : single[n].users <= single[n].max

\* The inductive invariant of the settings, by the parts of the world.
Kept(w) ==
  /\ DOMAIN w = WorldFields
  /\ \A i \in DOMAIN w.perps : PerpKept(w.perps[i])
  /\ \A i \in DOMAIN w.spots : SpotKept(w.spots[i])
  /\ ExKept(w.ex)
  /\ SingleKept(w.single)
  /\ MarketsCounted(w)
  /\ OracleInUse(w)

\* The inductive invariant is the rules on settings and markets, no more.
LEMMA KeptIsRules ==
  ASSUME NEW w
  PROVE  Kept(w) <=> Whole(w) /\ MarketsCounted(w) /\ SettingsHold(w)
<1> DEFINE Rules == Whole(w) /\ MarketsCounted(w) /\ SettingsHold(w)
<1>1. ASSUME Kept(w) PROVE Whole(w) /\ MarketsCounted(w)
  BY <1>1 DEF Kept, Whole, PerpKept, SpotKept, ExKept, SingleKept
<1>2. ASSUME Kept(w) PROVE RiskKept(w) /\ PredictionsUnfunded(w) /\ MmOracleWhole(w) /\ OracleInUse(w)
  BY <1>2 DEF Kept, RiskKept, PredictionsUnfunded, MmOracleWhole, PerpKept, SpotKept
<1>3. ASSUME Kept(w) PROVE SettingsAgree(w) /\ FeesCovered(w)
  BY <1>3 DEF Kept, SettingsAgree, FeesCovered, PerpKept, SpotKept, ExKept, SingleKept
<1>4. ASSUME Rules PROVE \A i \in DOMAIN w.perps : PerpKept(w.perps[i])
  BY <1>4 DEF Whole, SettingsHold, RiskKept, SettingsAgree, PredictionsUnfunded, MmOracleWhole, PerpKept
<1>5. ASSUME Rules PROVE \A i \in DOMAIN w.spots : SpotKept(w.spots[i])
  BY <1>5 DEF Whole, SettingsHold, RiskKept, SettingsAgree, SpotKept
<1>6. ASSUME Rules PROVE ExKept(w.ex)
  BY <1>6 DEF Whole, SettingsHold, FeesCovered, ExKept
<1>7. ASSUME Rules PROVE SingleKept(w.single)
  BY <1>7 DEF Whole, SettingsHold, SettingsAgree, SingleKept
<1>8. ASSUME Rules PROVE Kept(w)
  BY <1>4, <1>5, <1>6, <1>7, <1>8 DEF Kept, Whole, SettingsHold
<1> QED BY <1>1, <1>2, <1>3, <1>8 DEF SettingsHold

(***************************************************************************)
(* Parts of the world that change.                                         *)
(***************************************************************************)
SamePerp(m, n) == DOMAIN n = DOMAIN m /\ \A f \in PerpSettings : n[f] = m[f]
SameSpot(k, j) == DOMAIN j = DOMAIN k /\ \A f \in SpotSettings : j[f] = k[f]

LEMMA SamePerpKept ==
  ASSUME NEW m, NEW n, PerpKept(m), SamePerp(m, n)
  PROVE  PerpKept(n) /\ n.oracle = m.oracle
<1>1. /\ n.init = m.init /\ n.maint = m.maint /\ n.hl_init = m.hl_init /\ n.hl_maint = m.hl_maint /\ n.liq_fee = m.liq_fee
      /\ n.max_spread = m.max_spread /\ n.quote_settled = m.quote_settled /\ n.quote_max = m.quote_max
      /\ n.type = m.type /\ n.paused = m.paused /\ n.mm_price = m.mm_price /\ n.mm_seq = m.mm_seq /\ n.oracle = m.oracle
  BY DEF SamePerp, PerpSettings
<1>2. PerpSettings \subseteq DOMAIN n
  BY DEF SamePerp, PerpKept
<1> QED BY <1>1, <1>2 DEF PerpKept

LEMMA SameSpotKept ==
  ASSUME NEW k, NEW j, SpotKept(k), SameSpot(k, j)
  PROVE  SpotKept(j)
<1>1. /\ j.iaw = k.iaw /\ j.maw = k.maw /\ j.ilw = k.ilw /\ j.mlw = k.mlw
      /\ j.min_rate = k.min_rate /\ j.optimal_rate = k.optimal_rate /\ j.max_rate = k.max_rate
      /\ j.user_factor = k.user_factor /\ j.factor = k.factor
  BY DEF SameSpot, SpotSettings
<1>2. SpotSettings \subseteq DOMAIN j
  BY DEF SameSpot, SpotKept
<1> QED BY <1>1, <1>2 DEF SpotKept

LEMMA PerpSet ==
  ASSUME NEW w, Kept(w), NEW i \in DOMAIN w.perps, NEW m, PerpKept(m), m.oracle = w.perps[i].oracle
  PROVE  Kept([w EXCEPT !.perps[i] = m])
<1> DEFINE v == [w EXCEPT !.perps[i] = m]
<1>1. /\ DOMAIN v = WorldFields /\ DOMAIN v.perps = DOMAIN w.perps
      /\ v.spots = w.spots /\ v.ex = w.ex /\ v.single = w.single /\ v.pre = w.pre
      /\ \A j \in DOMAIN w.perps : v.perps[j] = IF j = i THEN m ELSE w.perps[j]
  BY DEF Kept, WorldFields
<1> HIDE DEF v
<1>2. \A j \in DOMAIN v.perps : PerpKept(v.perps[j])
  BY <1>1 DEF Kept
<1>3. MarketsCounted(v)
  BY <1>1 DEF Kept, MarketsCounted
<1>4. OracleInUse(v)
  BY <1>1 DEF Kept, OracleInUse
<1>5. Kept(v)
  BY <1>1, <1>2, <1>3, <1>4 DEF Kept
<1> QED BY <1>5 DEF v

LEMMA SpotSet ==
  ASSUME NEW w, Kept(w), NEW i \in DOMAIN w.spots, NEW k, SpotKept(k)
  PROVE  Kept([w EXCEPT !.spots[i] = k])
<1> DEFINE v == [w EXCEPT !.spots[i] = k]
<1>1. /\ DOMAIN v = WorldFields /\ DOMAIN v.spots = DOMAIN w.spots
      /\ v.perps = w.perps /\ v.ex = w.ex /\ v.single = w.single /\ v.pre = w.pre
      /\ \A j \in DOMAIN w.spots : v.spots[j] = IF j = i THEN k ELSE w.spots[j]
  BY DEF Kept, WorldFields
<1> HIDE DEF v
<1>2. \A j \in DOMAIN v.spots : SpotKept(v.spots[j])
  BY <1>1 DEF Kept
<1>3. MarketsCounted(v)
  BY <1>1 DEF Kept, MarketsCounted
<1>4. OracleInUse(v)
  BY <1>1 DEF Kept, OracleInUse
<1>5. Kept(v)
  BY <1>1, <1>2, <1>3, <1>4 DEF Kept
<1> QED BY <1>5 DEF v

LEMMA PerpFieldSet ==
  ASSUME NEW w, Kept(w), NEW i \in DOMAIN w.perps, NEW f, f \notin PerpSettings, NEW x
  PROVE  Kept([w EXCEPT !.perps[i][f] = x])
<1> DEFINE m == [w.perps[i] EXCEPT ![f] = x]
<1>1. SamePerp(w.perps[i], m)
  BY DEF SamePerp, Kept, PerpKept
<1>2. PerpKept(w.perps[i])
  BY DEF Kept
<1>3. PerpKept(m) /\ m.oracle = w.perps[i].oracle
  BY <1>1, <1>2, SamePerpKept
<1>4. [w EXCEPT !.perps[i][f] = x] = [w EXCEPT !.perps[i] = m]
  OBVIOUS
<1> HIDE DEF m
<1> QED BY <1>3, <1>4, PerpSet

LEMMA SpotFieldSet ==
  ASSUME NEW w, Kept(w), NEW i \in DOMAIN w.spots, NEW f, f \notin SpotSettings, NEW x
  PROVE  Kept([w EXCEPT !.spots[i][f] = x])
<1> DEFINE k == [w.spots[i] EXCEPT ![f] = x]
<1>1. SameSpot(w.spots[i], k)
  BY DEF SameSpot, Kept, SpotKept
<1>2. SpotKept(k)
  BY <1>1, SameSpotKept DEF Kept
<1>3. [w EXCEPT !.spots[i][f] = x] = [w EXCEPT !.spots[i] = k]
  OBVIOUS
<1> HIDE DEF k
<1> QED BY <1>2, <1>3, SpotSet

LEMMA PerpPut ==
  ASSUME NEW w, Kept(w), NEW i \in DOMAIN w.perps, NEW m, SamePerp(w.perps[i], m)
  PROVE  Kept([w EXCEPT !.perps[i] = m])
<1>1. PerpKept(m) /\ m.oracle = w.perps[i].oracle
  BY SamePerpKept DEF Kept
<1> QED BY <1>1, PerpSet

LEMMA SpotPut ==
  ASSUME NEW w, Kept(w), NEW i \in DOMAIN w.spots, NEW k, SameSpot(w.spots[i], k)
  PROVE  Kept([w EXCEPT !.spots[i] = k])
<1>1. SpotKept(k)
  BY SameSpotKept DEF Kept
<1> QED BY <1>1, SpotSet

\* A part of the world that no rule is about.
LEMMA PartSet ==
  ASSUME NEW w, Kept(w), NEW f \in {"cache", "fulfil", "user", "now"}, NEW x
  PROVE  Kept([w EXCEPT ![f] = x])
<1> DEFINE v == [w EXCEPT ![f] = x]
<1>1. /\ DOMAIN v = WorldFields /\ v.perps = w.perps /\ v.spots = w.spots
      /\ v.ex = w.ex /\ v.single = w.single /\ v.pre = w.pre
  BY DEF Kept, WorldFields
<1> HIDE DEF v
<1>2. MarketsCounted(v) /\ OracleInUse(v)
  BY <1>1 DEF Kept, MarketsCounted, OracleInUse
<1>3. Kept(v)
  BY <1>1, <1>2 DEF Kept
<1> QED BY <1>3 DEF v

\* The exchange, its counts kept.
LEMMA ExSet ==
  ASSUME NEW w, Kept(w), NEW ex, ExKept(ex),
         ex.number_of_markets = w.ex.number_of_markets, ex.number_of_spot_markets = w.ex.number_of_spot_markets
  PROVE  Kept([w EXCEPT !.ex = ex])
<1> DEFINE v == [w EXCEPT !.ex = ex]
<1>1. /\ DOMAIN v = WorldFields /\ v.perps = w.perps /\ v.spots = w.spots
      /\ v.ex = ex /\ v.single = w.single /\ v.pre = w.pre
  BY DEF Kept, WorldFields
<1> HIDE DEF v
<1>2. MarketsCounted(v) /\ OracleInUse(v)
  BY <1>1 DEF Kept, MarketsCounted, OracleInUse
<1>3. Kept(v)
  BY <1>1, <1>2 DEF Kept
<1> QED BY <1>3 DEF v

LEMMA SingleSet ==
  ASSUME NEW w, Kept(w), NEW single, SingleKept(single)
  PROVE  Kept([w EXCEPT !.single = single])
<1> DEFINE v == [w EXCEPT !.single = single]
<1>1. /\ DOMAIN v = WorldFields /\ v.perps = w.perps /\ v.spots = w.spots
      /\ v.ex = w.ex /\ v.single = single /\ v.pre = w.pre
  BY DEF Kept, WorldFields
<1> HIDE DEF v
<1>2. MarketsCounted(v) /\ OracleInUse(v)
  BY <1>1 DEF Kept, MarketsCounted, OracleInUse
<1>3. Kept(v)
  BY <1>1, <1>2 DEF Kept
<1> QED BY <1>3 DEF v

(***************************************************************************)
(* Sets of worlds, as the handlers return them.                            *)
(***************************************************************************)
Sound(worlds) == \A v \in worlds : Kept(v)

LEMMA WithPerp ==
  ASSUME NEW w, Kept(w), NEW i \in DOMAIN w.perps, NEW markets, \A m \in markets : SamePerp(w.perps[i], m)
  PROVE  Sound(with_perp(w, i, markets))
  BY PerpPut DEF Sound, with_perp

LEMMA SoundUnion ==
  ASSUME NEW handlers, \A worlds \in handlers : Sound(worlds)
  PROVE  Sound(UNION handlers)
  BY DEF Sound

LEMMA DoesKept ==
  ASSUME NEW s, NEW signers, NEW cost, NEW worlds, Does(s, signers, cost, worlds), Sound(worlds)
  PROVE  Kept(world')
  BY DEF Does, Sound

(***************************************************************************)
(* Settings of a perp market that no rule is about.                        *)
(***************************************************************************)
LEMMA PerpOpt ==
  ASSUME NEW w, Kept(w), NEW i, NEW name, NEW v
  PROVE  Sound(perp_opt(w, i, name, v)) /\ Sound(any_perp_opt(w, i, name, v))
  BY PerpFieldSet DEF Sound, perp_opt, any_perp_opt, perp_market_valid, PerpSettings

LEMMA SpotOpt ==
  ASSUME NEW w, Kept(w), NEW i, NEW name, NEW v
  PROVE  Sound(spot_opt(w, i, name, v)) /\ Sound(update_spot_market_fuel(w, i, v))
<1> DEFINE free(f) == f \notin SpotSettings
<1>a. i \in DOMAIN w.spots => \A f, x : free(f) => Kept([w EXCEPT !.spots[i][f] = x])
  BY SpotFieldSet
<1>b. spot_market_valid(w, i) => i \in DOMAIN w.spots
  BY DEF spot_market_valid
<1>1. Sound(spot_opt(w, i, name, v))
  BY <1>a, <1>b DEF Sound, SpotSettings, spot_opt
<1>2. Sound(update_spot_market_fuel(w, i, v))
  BY <1>a, <1>b DEF Sound, SpotSettings, update_spot_market_fuel
<1> QED BY <1>1, <1>2

LEMMA PerpOpts ==
  ASSUME NEW w, Kept(w), NEW i, NEW v
  PROVE  /\ Sound(update_perp_market_funding_period(w, i, v)) /\ Sound(update_perp_market_name(w, i, v))
         /\ Sound(update_perp_lp_pool_id(w, i, v)) /\ Sound(update_perp_market_reference_price_offset_deadband_pct(w, i, v))
         /\ Sound(update_amm_jit_intensity(w, i, v)) /\ Sound(update_perp_market_max_slippage_ratio(w, i, v))
         /\ Sound(update_perp_market_max_fill_reserve_fraction(w, i, v)) /\ Sound(update_perp_market_fee_adjustment(w, i, v))
         /\ Sound(update_perp_market_fuel(w, i, v)) /\ Sound(update_perp_market_protected_maker_params(w, i, v))
         /\ Sound(update_perp_market_lp_pool_paused_operations(w, i, v))
         /\ Sound(update_perp_market_oracle_low_risk_slot_delay_override(w, i, v))
         /\ Sound(update_perp_market_oracle_slot_delay_override(w, i, v))
<1>1. Sound({})
  BY DEF Sound
<1> QED BY <1>1, PerpOpt DEF update_perp_market_funding_period, update_perp_market_name, update_perp_lp_pool_id,
           update_perp_market_reference_price_offset_deadband_pct, update_amm_jit_intensity,
           update_perp_market_max_slippage_ratio, update_perp_market_max_fill_reserve_fraction,
           update_perp_market_fee_adjustment, update_perp_market_fuel, update_perp_market_protected_maker_params,
           update_perp_market_lp_pool_paused_operations, update_perp_market_oracle_low_risk_slot_delay_override,
           update_perp_market_oracle_slot_delay_override

LEMMA SpotOpts ==
  ASSUME NEW w, Kept(w), NEW i, NEW v
  PROVE  /\ Sound(update_spot_market_name(w, i, v)) /\ Sound(update_insurance_fund_unstaking_period(w, i, v))
         /\ Sound(update_spot_market_revenue_settle_period(w, i, v))
         /\ Sound(update_spot_market_scale_initial_asset_weight_start(w, i, v))
         /\ Sound(update_spot_market_if_paused_operations(w, i, v)) /\ Sound(update_spot_market_fee_adjustment(w, i, v))
<1>1. Sound({})
  BY DEF Sound
<1> QED BY <1>1, SpotOpt DEF update_spot_market_name, update_insurance_fund_unstaking_period,
           update_spot_market_revenue_settle_period, update_spot_market_scale_initial_asset_weight_start,
           update_spot_market_if_paused_operations, update_spot_market_fee_adjustment

\* Setters of one field.
LEMMA PerpField ==
  ASSUME NEW w, Kept(w), NEW i, NEW s, NEW v
  PROVE  /\ Sound(update_perp_market_imf_factor(w, i, v)) /\ Sound(update_perp_market_contract_tier(w, i, v))
         /\ Sound(update_perp_market_status(w, i, v)) /\ Sound(update_perp_market_config(w, s, i, v))
         /\ Sound(update_perp_market_curve_update_intensity(w, i, v)) /\ Sound(update_perp_market_amm_spread_adjustment(w, i, v))
         /\ Sound(update_perp_market_max_open_interest(w, i, v)) /\ Sound(update_perp_market_min_order_size(w, i, v))
         /\ Sound(update_amm_spread_adjustment_native(w, i, v)) /\ Sound(reset_amm_oracle_twap(w, i))
         /\ Sound(update_perp_market_unrealized_asset_weight(w, i, v, s))
<1> DEFINE free(f) == f \notin PerpSettings
<1>a. i \in DOMAIN w.perps => \A f, x : free(f) => Kept([w EXCEPT !.perps[i][f] = x])
  BY PerpFieldSet
<1>b. perp_market_valid(w, i) => i \in DOMAIN w.perps
  BY DEF perp_market_valid
<1>1. Sound(update_perp_market_imf_factor(w, i, v))
  BY <1>a, <1>b DEF Sound, PerpSettings, update_perp_market_imf_factor
<1>2. Sound(update_perp_market_contract_tier(w, i, v))
  BY <1>a, <1>b DEF Sound, PerpSettings, update_perp_market_contract_tier
<1>3. Sound(update_perp_market_status(w, i, v))
  BY <1>a, <1>b DEF Sound, PerpSettings, update_perp_market_status
<1>4. Sound(update_perp_market_config(w, s, i, v))
  BY <1>a, <1>b DEF Sound, PerpSettings, update_perp_market_config
<1>5. Sound(update_perp_market_curve_update_intensity(w, i, v))
  BY <1>a, <1>b DEF Sound, PerpSettings, update_perp_market_curve_update_intensity
<1>6. Sound(update_perp_market_amm_spread_adjustment(w, i, v))
  BY <1>a, <1>b DEF Sound, PerpSettings, update_perp_market_amm_spread_adjustment
<1>7. Sound(update_perp_market_max_open_interest(w, i, v))
  <2>1. i \in DOMAIN w.perps => Kept([w EXCEPT !.perps[i].max_oi = v])
    BY <1>a DEF PerpSettings
  <2> QED BY <2>1, <1>b DEF Sound, update_perp_market_max_open_interest
<1>8. Sound(update_perp_market_min_order_size(w, i, v))
  <2>1. i \in DOMAIN w.perps => Kept([w EXCEPT !.perps[i].min_order = v])
    BY <1>a DEF PerpSettings
  <2> QED BY <2>1, <1>b DEF Sound, update_perp_market_min_order_size
<1>9. Sound(update_amm_spread_adjustment_native(w, i, v))
  <2>1. i \in DOMAIN w.perps => Kept([w EXCEPT !.perps[i].adj = v])
    BY <1>a DEF PerpSettings
  <2> QED BY <2>1, <1>b DEF Sound, update_amm_spread_adjustment_native
<1>10. Sound(reset_amm_oracle_twap(w, i))
  BY <1>a, <1>b DEF Sound, PerpSettings, reset_amm_oracle_twap
<1>11. Sound(update_perp_market_unrealized_asset_weight(w, i, v, s))
  BY <1>a, <1>b DEF Sound, PerpSettings, update_perp_market_unrealized_asset_weight
<1> QED BY <1>1, <1>2, <1>3, <1>4, <1>5, <1>6, <1>7, <1>8, <1>9, <1>10, <1>11

LEMMA SpotField ==
  ASSUME NEW w, Kept(w), NEW i, NEW v
  PROVE  /\ Sound(update_spot_market_asset_tier(w, i, v)) /\ Sound(update_spot_market_status(w, i, v))
         /\ Sound(update_spot_market_paused_operations(w, i, v)) /\ Sound(update_withdraw_guard_threshold(w, i, v))
         /\ Sound(update_spot_market_min_order_size(w, i, v)) /\ Sound(update_spot_market_orders_enabled(w, i, v))
         /\ Sound(update_spot_market_pool_id(w, i, v))
<1> DEFINE free(f) == f \notin SpotSettings
<1>a. i \in DOMAIN w.spots => \A f, x : free(f) => Kept([w EXCEPT !.spots[i][f] = x])
  BY SpotFieldSet
<1>b. spot_market_valid(w, i) => i \in DOMAIN w.spots
  BY DEF spot_market_valid
<1>1. Sound(update_spot_market_asset_tier(w, i, v))
  BY <1>a, <1>b DEF Sound, SpotSettings, update_spot_market_asset_tier
<1>2. Sound(update_spot_market_status(w, i, v))
  <2>1. i \in DOMAIN w.spots => Kept([w EXCEPT !.spots[i].status = v])
    BY <1>a DEF SpotSettings
  <2> QED BY <2>1, <1>b DEF Sound, update_spot_market_status
<1>3. Sound(update_spot_market_paused_operations(w, i, v))
  BY <1>a, <1>b DEF Sound, SpotSettings, update_spot_market_paused_operations
<1>4. Sound(update_withdraw_guard_threshold(w, i, v))
  BY <1>a, <1>b DEF Sound, SpotSettings, update_withdraw_guard_threshold
<1>5. Sound(update_spot_market_min_order_size(w, i, v))
  BY <1>a, <1>b DEF Sound, SpotSettings, update_spot_market_min_order_size
<1>6. Sound(update_spot_market_orders_enabled(w, i, v))
  <2>1. i \in DOMAIN w.spots => Kept([w EXCEPT !.spots[i].orders_enabled = v = 1])
    BY <1>a DEF SpotSettings
  <2> QED BY <2>1, <1>b DEF Sound, update_spot_market_orders_enabled
<1>7. Sound(update_spot_market_pool_id(w, i, v))
  BY <1>a, <1>b DEF Sound, SpotSettings, update_spot_market_pool_id
<1> QED BY <1>1, <1>2, <1>3, <1>4, <1>5, <1>6, <1>7

(***************************************************************************)
(* Setters of several fields that no rule is about.                        *)
(***************************************************************************)
LEMMA PerpBaseSpread ==
  ASSUME NEW w, Kept(w), NEW i, NEW spread
  PROVE  Sound(update_perp_market_base_spread(w, i, spread))
<1> DEFINE m == [w.perps[i] EXCEPT !.base_spread = spread, !.long_spread = spread \div 2, !.short_spread = spread \div 2]
<1>1. i \in DOMAIN w.perps => SamePerp(w.perps[i], m)
  BY DEF SamePerp, Kept, PerpKept, PerpSettings
<1>2. [w EXCEPT !.perps[i].base_spread = spread, !.perps[i].long_spread = spread \div 2,
              !.perps[i].short_spread = spread \div 2]
      = [w EXCEPT !.perps[i] = m]
  OBVIOUS
<1> HIDE DEF m
<1>3. i \in DOMAIN w.perps => Kept([w EXCEPT !.perps[i] = m])
  BY <1>1, PerpPut
<1> QED BY <1>2, <1>3 DEF Sound, update_perp_market_base_spread, perp_market_valid

LEMMA PerpStepSize ==
  ASSUME NEW w, Kept(w), NEW i, NEW step, NEW tick
  PROVE  Sound(update_perp_market_step_size_and_tick_size(w, i, step, tick))
<1> DEFINE m == [w.perps[i] EXCEPT !.step = step, !.tick = tick]
<1>1. i \in DOMAIN w.perps => SamePerp(w.perps[i], m)
  BY DEF SamePerp, Kept, PerpKept, PerpSettings
<1>2. [w EXCEPT !.perps[i].step = step, !.perps[i].tick = tick]
      = [w EXCEPT !.perps[i] = m]
  OBVIOUS
<1> HIDE DEF m
<1>3. i \in DOMAIN w.perps => Kept([w EXCEPT !.perps[i] = m])
  BY <1>1, PerpPut
<1> QED BY <1>2, <1>3 DEF Sound, update_perp_market_step_size_and_tick_size, perp_market_valid

LEMMA PerpExpiry ==
  ASSUME NEW w, Kept(w), NEW i, NEW ts
  PROVE  Sound(update_perp_market_expiry(w, i, ts))
<1> DEFINE m == [w.perps[i] EXCEPT !.status = "ReduceOnly", !.expiry_ts = ts]
<1>1. i \in DOMAIN w.perps => SamePerp(w.perps[i], m)
  BY DEF SamePerp, Kept, PerpKept, PerpSettings
<1>2. [w EXCEPT !.perps[i].status = "ReduceOnly", !.perps[i].expiry_ts = ts]
      = [w EXCEPT !.perps[i] = m]
  OBVIOUS
<1> HIDE DEF m
<1>3. i \in DOMAIN w.perps => Kept([w EXCEPT !.perps[i] = m])
  BY <1>1, PerpPut
<1> QED BY <1>2, <1>3 DEF Sound, update_perp_market_expiry, perp_market_valid

LEMMA SpotExpiry ==
  ASSUME NEW w, Kept(w), NEW i, NEW ts
  PROVE  Sound(update_spot_market_expiry(w, i, ts))
<1> DEFINE k == [w.spots[i] EXCEPT !.status = "ReduceOnly", !.expiry_ts = ts]
<1>1. i \in DOMAIN w.spots => SameSpot(w.spots[i], k)
  BY DEF SameSpot, Kept, SpotKept, SpotSettings
<1>2. [w EXCEPT !.spots[i].status = "ReduceOnly", !.spots[i].expiry_ts = ts]
      = [w EXCEPT !.spots[i] = k]
  OBVIOUS
<1> HIDE DEF k
<1>3. i \in DOMAIN w.spots => Kept([w EXCEPT !.spots[i] = k])
  BY <1>1, SpotPut
<1> QED BY <1>2, <1>3 DEF Sound, update_spot_market_expiry, spot_market_valid

LEMMA SpotStepSize ==
  ASSUME NEW w, Kept(w), NEW i, NEW step, NEW tick
  PROVE  Sound(update_spot_market_step_size_and_tick_size(w, i, step, tick))
<1> DEFINE k == [w.spots[i] EXCEPT !.step = step, !.tick = tick]
<1>1. i \in DOMAIN w.spots => SameSpot(w.spots[i], k)
  BY DEF SameSpot, Kept, SpotKept, SpotSettings
<1>2. [w EXCEPT !.spots[i].step = step, !.spots[i].tick = tick]
      = [w EXCEPT !.spots[i] = k]
  OBVIOUS
<1> HIDE DEF k
<1>3. i \in DOMAIN w.spots => Kept([w EXCEPT !.spots[i] = k])
  BY <1>1, SpotPut
<1> QED BY <1>2, <1>3 DEF Sound, update_spot_market_step_size_and_tick_size, spot_market_valid

LEMMA SpotLiquidationFee ==
  ASSUME NEW w, Kept(w), NEW i, NEW fee, NEW if_fee
  PROVE  Sound(update_spot_market_liquidation_fee(w, i, fee, if_fee))
<1> DEFINE k == [w.spots[i] EXCEPT !.liq_fee = fee, !.if_fee = if_fee]
<1>1. i \in DOMAIN w.spots => SameSpot(w.spots[i], k)
  BY DEF SameSpot, Kept, SpotKept, SpotSettings
<1>2. [w EXCEPT !.spots[i].liq_fee = fee, !.spots[i].if_fee = if_fee]
      = [w EXCEPT !.spots[i] = k]
  OBVIOUS
<1> HIDE DEF k
<1>3. i \in DOMAIN w.spots => Kept([w EXCEPT !.spots[i] = k])
  BY <1>1, SpotPut
<1> QED BY <1>2, <1>3 DEF Sound, update_spot_market_liquidation_fee, spot_market_valid

LEMMA SpotMaxDeposits ==
  ASSUME NEW w, Kept(w), NEW i, NEW max
  PROVE  Sound(update_spot_market_max_token_deposits(w, i, max))
<1> DEFINE x == (max * w.spots[i].borrow_share) \div 100
           k == [w.spots[i] EXCEPT !.max_deposits = max, !.max_borrows = x]
<1>1. i \in DOMAIN w.spots => SameSpot(w.spots[i], k)
  BY DEF SameSpot, Kept, SpotKept, SpotSettings
<1> HIDE DEF x
<1>2. [w EXCEPT !.spots[i].max_deposits = max, !.spots[i].max_borrows = x]
      = [w EXCEPT !.spots[i] = k]
  BY DEF k
<1> HIDE DEF k
<1>3. i \in DOMAIN w.spots => Kept([w EXCEPT !.spots[i] = k])
  BY <1>1, SpotPut
<1> QED BY <1>2, <1>3 DEF Sound, x, update_spot_market_max_token_deposits, spot_market_valid

LEMMA SpotMaxBorrows ==
  ASSUME NEW w, Kept(w), NEW i, NEW share
  PROVE  Sound(update_spot_market_max_token_borrows(w, i, share))
<1> DEFINE x == (w.spots[i].max_deposits * share) \div 100
           k == [w.spots[i] EXCEPT !.max_borrows = x, !.borrow_share = share]
<1>1. i \in DOMAIN w.spots => SameSpot(w.spots[i], k)
  BY DEF SameSpot, Kept, SpotKept, SpotSettings
<1> HIDE DEF x
<1>2. [w EXCEPT !.spots[i].max_borrows = x, !.spots[i].borrow_share = share]
      = [w EXCEPT !.spots[i] = k]
  BY DEF k
<1> HIDE DEF k
<1>3. i \in DOMAIN w.spots => Kept([w EXCEPT !.spots[i] = k])
  BY <1>1, SpotPut
<1> QED BY <1>2, <1>3 DEF Sound, x, update_spot_market_max_token_borrows, spot_market_valid

LEMMA SpotOracle ==
  ASSUME NEW w, Kept(w), NEW i, NEW oracle, NEW skip
  PROVE  Sound(update_spot_market_oracle(w, i, oracle, skip))
<1> DEFINE k == [w.spots[i] EXCEPT !.oracle = oracle]
<1>1. i \in DOMAIN w.spots => SameSpot(w.spots[i], k)
  BY DEF SameSpot, Kept, SpotKept, SpotSettings
<1>2. [w EXCEPT !.spots[i].oracle = oracle]
      = [w EXCEPT !.spots[i] = k]
  OBVIOUS
<1> HIDE DEF k
<1>3. i \in DOMAIN w.spots => Kept([w EXCEPT !.spots[i] = k])
  BY <1>1, SpotPut
<1> QED BY <1>2, <1>3 DEF Sound, update_spot_market_oracle, spot_market_valid

LEMMA PerpUsers ==
  ASSUME NEW w, Kept(w), NEW i, NEW users, NEW with_base
  PROVE  Sound(update_perp_market_number_of_users(w, i, users, with_base))
<1> DEFINE m == [w.perps[i] EXCEPT !.users = given(users, @), !.users_base = given(with_base, @)]
<1>1. i \in DOMAIN w.perps => SamePerp(w.perps[i], m)
  BY DEF SamePerp, Kept, PerpKept, PerpSettings
<1>2. update_perp_market_number_of_users(w, i, users, with_base) \in {with_perp(w, i, {m}), {}}
      /\ (i \notin DOMAIN w.perps => update_perp_market_number_of_users(w, i, users, with_base) = {})
  BY DEF update_perp_market_number_of_users
<1> HIDE DEF m
<1>3. i \in DOMAIN w.perps => Sound(with_perp(w, i, {m}))
  BY <1>1, WithPerp
<1> QED BY <1>2, <1>3 DEF Sound

(***************************************************************************)
(* Setters that a rule is about.                                           *)
(***************************************************************************)
LEMMA PerpMarginRatio ==
  ASSUME NEW w, Kept(w), NEW i, NEW init, NEW maint
  PROVE  Sound(update_perp_market_margin_ratio(w, i, init, maint))
<1> DEFINE m == [w.perps[i] EXCEPT !.init = init, !.maint = maint]
<1> SUFFICES ASSUME i \in DOMAIN w.perps,
                    validate_margin(init, maint, w.perps[i].hl_init, w.perps[i].hl_maint, w.perps[i].liq_fee, w.perps[i].max_spread)
             PROVE  Kept([w EXCEPT !.perps[i].init = init, !.perps[i].maint = maint])
  BY DEF Sound, update_perp_market_margin_ratio, perp_market_valid
<1>1. PerpKept(w.perps[i])
  BY DEF Kept
<1>2. DOMAIN m = DOMAIN w.perps[i] /\ \A f \in PerpSettings \ {"init", "maint"} : m[f] = w.perps[i][f]
  BY <1>1 DEF PerpKept
<1>3. m.init = init /\ m.maint = maint
  BY <1>1 DEF PerpKept, PerpSettings
<1>4. [w EXCEPT !.perps[i].init = init, !.perps[i].maint = maint]
      = [w EXCEPT !.perps[i] = m]
  OBVIOUS
<1> HIDE DEF m
<1>5. PerpKept(m) /\ m.oracle = w.perps[i].oracle
  BY <1>1, <1>2, <1>3, MarketsAssumption, CurveAssumption DEF PerpKept, PerpSettings, validate_margin
<1>6. Kept([w EXCEPT !.perps[i] = m])
  BY <1>5, PerpSet
<1> QED BY <1>4, <1>6

LEMMA PerpHighLeverage ==
  ASSUME NEW w, Kept(w), NEW i, NEW init, NEW maint
  PROVE  Sound(update_perp_market_high_leverage_margin_ratio(w, i, init, maint))
<1> DEFINE m == [w.perps[i] EXCEPT !.hl_init = init, !.hl_maint = maint]
<1> SUFFICES ASSUME i \in DOMAIN w.perps,
                    validate_margin(w.perps[i].init, w.perps[i].maint, init, maint, w.perps[i].liq_fee, w.perps[i].max_spread)
             PROVE  Kept([w EXCEPT !.perps[i].hl_init = init, !.perps[i].hl_maint = maint])
  BY DEF Sound, update_perp_market_high_leverage_margin_ratio, perp_market_valid
<1>1. PerpKept(w.perps[i])
  BY DEF Kept
<1>2. DOMAIN m = DOMAIN w.perps[i] /\ \A f \in PerpSettings \ {"hl_init", "hl_maint"} : m[f] = w.perps[i][f]
  BY <1>1 DEF PerpKept
<1>3. m.hl_init = init /\ m.hl_maint = maint
  BY <1>1 DEF PerpKept, PerpSettings
<1>4. [w EXCEPT !.perps[i].hl_init = init, !.perps[i].hl_maint = maint]
      = [w EXCEPT !.perps[i] = m]
  OBVIOUS
<1> HIDE DEF m
<1>5. PerpKept(m) /\ m.oracle = w.perps[i].oracle
  BY <1>1, <1>2, <1>3, MarketsAssumption, CurveAssumption DEF PerpKept, PerpSettings, validate_margin
<1>6. Kept([w EXCEPT !.perps[i] = m])
  BY <1>5, PerpSet
<1> QED BY <1>4, <1>6

LEMMA PerpLiquidationFee ==
  ASSUME NEW w, Kept(w), NEW i, NEW fee, NEW if_fee
  PROVE  Sound(update_perp_liquidation_fee(w, i, fee, if_fee))
<1> DEFINE m == [w.perps[i] EXCEPT !.liq_fee = fee, !.if_fee = if_fee]
<1> SUFFICES ASSUME i \in DOMAIN w.perps,
                    validate_margin(w.perps[i].init, w.perps[i].maint, w.perps[i].hl_init, w.perps[i].hl_maint, fee, w.perps[i].max_spread)
             PROVE  Kept([w EXCEPT !.perps[i].liq_fee = fee, !.perps[i].if_fee = if_fee])
  BY DEF Sound, update_perp_liquidation_fee, perp_market_valid
<1>1. PerpKept(w.perps[i])
  BY DEF Kept
<1>2. DOMAIN m = DOMAIN w.perps[i] /\ \A f \in PerpSettings \ {"liq_fee", "if_fee"} : m[f] = w.perps[i][f]
  BY <1>1 DEF PerpKept
<1>3. m.liq_fee = fee
  BY <1>1 DEF PerpKept, PerpSettings
<1>4. [w EXCEPT !.perps[i].liq_fee = fee, !.perps[i].if_fee = if_fee]
      = [w EXCEPT !.perps[i] = m]
  OBVIOUS
<1> HIDE DEF m
<1>5. PerpKept(m) /\ m.oracle = w.perps[i].oracle
  BY <1>1, <1>2, <1>3, MarketsAssumption, CurveAssumption DEF PerpKept, PerpSettings, validate_margin
<1>6. Kept([w EXCEPT !.perps[i] = m])
  BY <1>5, PerpSet
<1> QED BY <1>4, <1>6

LEMMA PerpMaxSpread ==
  ASSUME NEW w, Kept(w), NEW i, NEW spread, spread \in Nat
  PROVE  Sound(update_perp_market_max_spread(w, i, spread))
<1> DEFINE m == [w.perps[i] EXCEPT !.max_spread = spread]
<1> SUFFICES ASSUME i \in DOMAIN w.perps, spread <= w.perps[i].init * SpreadPerMargin
             PROVE  Kept([w EXCEPT !.perps[i].max_spread = spread])
  BY DEF Sound, update_perp_market_max_spread, perp_market_valid
<1>1. PerpKept(w.perps[i])
  BY DEF Kept
<1>2. DOMAIN m = DOMAIN w.perps[i] /\ \A f \in PerpSettings \ {"max_spread"} : m[f] = w.perps[i][f]
  BY <1>1 DEF PerpKept
<1>3. m.max_spread = spread
  BY <1>1 DEF PerpKept, PerpSettings
<1>4. [w EXCEPT !.perps[i].max_spread = spread]
      = [w EXCEPT !.perps[i] = m]
  OBVIOUS
<1> HIDE DEF m
<1>5. PerpKept(m) /\ m.oracle = w.perps[i].oracle
  BY <1>1, <1>2, <1>3 DEF PerpKept, PerpSettings
<1>6. Kept([w EXCEPT !.perps[i] = m])
  BY <1>5, PerpSet
<1> QED BY <1>4, <1>6

LEMMA PerpPaused ==
  ASSUME NEW w, Kept(w), NEW i, NEW s, NEW paused
  PROVE  Sound(update_perp_market_paused_operations(w, s, i, paused))
<1> DEFINE m == [w.perps[i] EXCEPT !.paused = paused]
<1> SUFFICES ASSUME i \in DOMAIN w.perps, w.perps[i].type = "Prediction" => "UpdateFunding" \in paused
             PROVE  Kept([w EXCEPT !.perps[i].paused = paused])
  BY DEF Sound, update_perp_market_paused_operations, perp_market_valid
<1>1. PerpKept(w.perps[i])
  BY DEF Kept
<1>2. DOMAIN m = DOMAIN w.perps[i] /\ \A f \in PerpSettings \ {"paused"} : m[f] = w.perps[i][f]
  BY <1>1 DEF PerpKept
<1>3. m.paused = paused
  BY <1>1 DEF PerpKept, PerpSettings
<1>4. [w EXCEPT !.perps[i].paused = paused]
      = [w EXCEPT !.perps[i] = m]
  OBVIOUS
<1> HIDE DEF m
<1>5. PerpKept(m) /\ m.oracle = w.perps[i].oracle
  BY <1>1, <1>2, <1>3 DEF PerpKept, PerpSettings
<1>6. Kept([w EXCEPT !.perps[i] = m])
  BY <1>5, PerpSet
<1> QED BY <1>4, <1>6

LEMMA PerpZeroMm ==
  ASSUME NEW w, Kept(w), NEW i
  PROVE  Sound(zero_mm_oracle_fields(w, i))
<1> DEFINE m == [w.perps[i] EXCEPT !.mm_price = 0, !.mm_seq = 0, !.mm_slot = 0]
<1> SUFFICES ASSUME i \in DOMAIN w.perps
             PROVE  Kept([w EXCEPT !.perps[i].mm_price = 0, !.perps[i].mm_seq = 0, !.perps[i].mm_slot = 0])
  BY DEF Sound, zero_mm_oracle_fields
<1>1. PerpKept(w.perps[i])
  BY DEF Kept
<1>2. DOMAIN m = DOMAIN w.perps[i] /\ \A f \in PerpSettings \ {"mm_price", "mm_seq", "mm_slot"} : m[f] = w.perps[i][f]
  BY <1>1 DEF PerpKept
<1>3. m.mm_price = 0 /\ m.mm_seq = 0
  BY <1>1 DEF PerpKept, PerpSettings
<1>4. [w EXCEPT !.perps[i].mm_price = 0, !.perps[i].mm_seq = 0, !.perps[i].mm_slot = 0]
      = [w EXCEPT !.perps[i] = m]
  OBVIOUS
<1> HIDE DEF m
<1>5. PerpKept(m) /\ m.oracle = w.perps[i].oracle
  BY <1>1, <1>2, <1>3 DEF PerpKept, PerpSettings
<1>6. Kept([w EXCEPT !.perps[i] = m])
  BY <1>5, PerpSet
<1> QED BY <1>4, <1>6

LEMMA PerpPrediction ==
  ASSUME NEW w, Kept(w), NEW i
  PROVE  Sound(initialize_prediction_market(w, i))
<1> DEFINE m == [w.perps[i] EXCEPT !.type = "Prediction", !.paused = w.perps[i].paused \union {"UpdateFunding"}]
<1> SUFFICES ASSUME i \in DOMAIN w.perps
             PROVE  Kept([w EXCEPT !.perps[i].type = "Prediction", !.perps[i].paused = w.perps[i].paused \union {"UpdateFunding"}])
  BY DEF Sound, initialize_prediction_market, perp_market_valid
<1>1. PerpKept(w.perps[i])
  BY DEF Kept
<1>2. DOMAIN m = DOMAIN w.perps[i] /\ \A f \in PerpSettings \ {"type", "paused"} : m[f] = w.perps[i][f]
  BY <1>1 DEF PerpKept
<1>3. m.type = "Prediction" /\ m.paused = w.perps[i].paused \union {"UpdateFunding"}
  BY <1>1 DEF PerpKept, PerpSettings
<1>4. [w EXCEPT !.perps[i].type = "Prediction", !.perps[i].paused = w.perps[i].paused \union {"UpdateFunding"}]
      = [w EXCEPT !.perps[i] = m]
  OBVIOUS
<1> HIDE DEF m
<1>5. PerpKept(m) /\ m.oracle = w.perps[i].oracle
  BY <1>1, <1>2, <1>3 DEF PerpKept, PerpSettings
<1>6. Kept([w EXCEPT !.perps[i] = m])
  BY <1>5, PerpSet
<1> QED BY <1>4, <1>6

LEMMA PerpMmOracle ==
  ASSUME NEW w, Kept(w), NEW i, NEW price, NEW seq, seq \in Nat \ {0}
  PROVE  Sound(update_mm_oracle_native(w, i, price, seq))
<1> DEFINE m == [w.perps[i] EXCEPT !.mm_price = price, !.mm_seq = seq, !.mm_slot = w.now]
<1> SUFFICES ASSUME i \in DOMAIN w.perps, price # 0
             PROVE  Kept([w EXCEPT !.perps[i].mm_price = price, !.perps[i].mm_seq = seq, !.perps[i].mm_slot = w.now])
  BY DEF Sound, update_mm_oracle_native
<1>1. PerpKept(w.perps[i])
  BY DEF Kept
<1>2. DOMAIN m = DOMAIN w.perps[i] /\ \A f \in PerpSettings \ {"mm_price", "mm_seq", "mm_slot"} : m[f] = w.perps[i][f]
  BY <1>1 DEF PerpKept
<1>3. m.mm_price = price /\ m.mm_seq = seq
  BY <1>1 DEF PerpKept, PerpSettings
<1>4. [w EXCEPT !.perps[i].mm_price = price, !.perps[i].mm_seq = seq, !.perps[i].mm_slot = w.now]
      = [w EXCEPT !.perps[i] = m]
  OBVIOUS
<1> HIDE DEF m
<1>5. PerpKept(m) /\ m.oracle = w.perps[i].oracle
  BY <1>1, <1>2, <1>3 DEF PerpKept, PerpSettings
<1>6. Kept([w EXCEPT !.perps[i] = m])
  BY <1>5, PerpSet
<1> QED BY <1>4, <1>6

LEMMA SpotMarginWeights ==
  ASSUME NEW w, Kept(w), NEW i, NEW iaw, NEW maw, NEW ilw, NEW mlw, NEW imf
  PROVE  Sound(update_spot_market_margin_weights(w, i, iaw, maw, ilw, mlw, imf))
<1> DEFINE k == [w.spots[i] EXCEPT !.iaw = iaw, !.maw = maw, !.ilw = ilw, !.mlw = mlw, !.imf = imf]
<1> SUFFICES ASSUME i \in DOMAIN w.spots, validate_margin_weights(i, iaw, maw, ilw, mlw, imf)
             PROVE  Kept([w EXCEPT !.spots[i].iaw = iaw, !.spots[i].maw = maw, !.spots[i].ilw = ilw,
                             !.spots[i].mlw = mlw, !.spots[i].imf = imf])
  BY DEF Sound, update_spot_market_margin_weights, spot_market_valid
<1>1. SpotKept(w.spots[i])
  BY DEF Kept
<1>2. DOMAIN k = DOMAIN w.spots[i] /\ \A f \in SpotSettings \ {"iaw", "maw", "ilw", "mlw", "imf"} : k[f] = w.spots[i][f]
  BY <1>1 DEF SpotKept
<1>3. k.iaw = iaw /\ k.maw = maw /\ k.ilw = ilw /\ k.mlw = mlw
  BY <1>1 DEF SpotKept, SpotSettings
<1>4. [w EXCEPT !.spots[i].iaw = iaw, !.spots[i].maw = maw, !.spots[i].ilw = ilw,
                             !.spots[i].mlw = mlw, !.spots[i].imf = imf]
      = [w EXCEPT !.spots[i] = k]
  <2> DEFINE l == [w.spots[i] EXCEPT !.iaw = iaw, !.maw = maw]
             u == [w EXCEPT !.spots[i] = l]
  <2>1. [w EXCEPT !.spots[i].iaw = iaw, !.spots[i].maw = maw] = u
    OBVIOUS
  <2>2. [u EXCEPT !.spots[i].ilw = ilw, !.spots[i].mlw = mlw, !.spots[i].imf = imf]
        = [w EXCEPT !.spots[i] = [l EXCEPT !.ilw = ilw, !.mlw = mlw, !.imf = imf]]
    <3> HIDE DEF l
    <3> QED OBVIOUS
  <2>3. k = [l EXCEPT !.ilw = ilw, !.mlw = mlw, !.imf = imf]
    OBVIOUS
  <2>4. [w EXCEPT !.spots[i].iaw = iaw, !.spots[i].maw = maw, !.spots[i].ilw = ilw, !.spots[i].mlw = mlw,
                  !.spots[i].imf = imf]
        = [[w EXCEPT !.spots[i].iaw = iaw, !.spots[i].maw = maw] EXCEPT
             !.spots[i].ilw = ilw, !.spots[i].mlw = mlw, !.spots[i].imf = imf]
    OBVIOUS
  <2> HIDE DEF k, l, u
  <2> QED BY <2>1, <2>2, <2>3, <2>4
<1> HIDE DEF k
<1>5. SpotKept(k)
  BY <1>1, <1>2, <1>3 DEF SpotKept, SpotSettings, validate_margin_weights
<1>6. Kept([w EXCEPT !.spots[i] = k])
  BY <1>5, SpotSet
<1> QED BY <1>4, <1>6

LEMMA SpotIfFactor ==
  ASSUME NEW w, Kept(w), NEW i, NEW user, NEW total
  PROVE  Sound(update_spot_market_if_factor(w, i, user, total))
<1> DEFINE k == [w.spots[i] EXCEPT !.user_factor = user, !.factor = total]
<1> SUFFICES ASSUME i \in DOMAIN w.spots, user <= total
             PROVE  Kept([w EXCEPT !.spots[i].user_factor = user, !.spots[i].factor = total])
  BY DEF Sound, update_spot_market_if_factor, spot_market_valid
<1>1. SpotKept(w.spots[i])
  BY DEF Kept
<1>2. DOMAIN k = DOMAIN w.spots[i] /\ \A f \in SpotSettings \ {"user_factor", "factor"} : k[f] = w.spots[i][f]
  BY <1>1 DEF SpotKept
<1>3. k.user_factor = user /\ k.factor = total
  BY <1>1 DEF SpotKept, SpotSettings
<1>4. [w EXCEPT !.spots[i].user_factor = user, !.spots[i].factor = total]
      = [w EXCEPT !.spots[i] = k]
  OBVIOUS
<1> HIDE DEF k
<1>5. SpotKept(k)
  BY <1>1, <1>2, <1>3 DEF SpotKept, SpotSettings
<1>6. Kept([w EXCEPT !.spots[i] = k])
  BY <1>5, SpotSet
<1> QED BY <1>4, <1>6

LEMMA SpotBorrowRate ==
  ASSUME NEW w, Kept(w), NEW i, NEW optimal, NEW rate \in Nat, NEW max \in Nat, NEW min
  PROVE  Sound(update_spot_market_borrow_rate(w, i, optimal, rate, max, min))
<1> DEFINE least == given(min, w.spots[i].min_rate)
           l == [w.spots[i] EXCEPT !.optimal = optimal, !.optimal_rate = rate]
           k == [l EXCEPT !.max_rate = max, !.min_rate = least]
           u == [w EXCEPT !.spots[i] = l]
<1> SUFFICES ASSUME i \in DOMAIN w.spots, validate_borrow_rate(optimal, rate, max, least)
             PROVE  Kept([w EXCEPT !.spots[i].optimal = optimal, !.spots[i].optimal_rate = rate,
                                   !.spots[i].max_rate = max, !.spots[i].min_rate = least])
  BY DEF Sound, update_spot_market_borrow_rate, spot_market_valid
<1> HIDE DEF least
<1>1. SpotKept(w.spots[i])
  BY DEF Kept
<1>2. /\ DOMAIN k = DOMAIN w.spots[i]
      /\ \A f \in SpotSettings \ {"optimal", "optimal_rate", "max_rate", "min_rate"} : k[f] = w.spots[i][f]
  BY <1>1 DEF SpotKept
<1>3. k.optimal_rate = rate /\ k.max_rate = max /\ k.min_rate = least
  BY <1>1 DEF SpotKept, SpotSettings
<1>4. [w EXCEPT !.spots[i].optimal = optimal, !.spots[i].optimal_rate = rate, !.spots[i].max_rate = max,
                !.spots[i].min_rate = least]
      = [w EXCEPT !.spots[i] = k]
  <2>1. [w EXCEPT !.spots[i].optimal = optimal, !.spots[i].optimal_rate = rate] = u
    OBVIOUS
  <2>2. [u EXCEPT !.spots[i].max_rate = max, !.spots[i].min_rate = least] = [w EXCEPT !.spots[i] = k]
    <3> HIDE DEF l
    <3> QED OBVIOUS
  <2>3. [w EXCEPT !.spots[i].optimal = optimal, !.spots[i].optimal_rate = rate, !.spots[i].max_rate = max,
                  !.spots[i].min_rate = least]
        = [[w EXCEPT !.spots[i].optimal = optimal, !.spots[i].optimal_rate = rate] EXCEPT
             !.spots[i].max_rate = max, !.spots[i].min_rate = least]
    OBVIOUS
  <2> HIDE DEF k, u
  <2> QED BY <2>1, <2>2, <2>3
<1> HIDE DEF k
<1>5. rate >= least /\ rate <= max
  BY DEF validate_borrow_rate
<1>6. least <= rate
  BY <1>5
<1>7. SpotKept(k)
  BY <1>1, <1>2, <1>3, <1>5, <1>6 DEF SpotKept, SpotSettings
<1>8. Kept([w EXCEPT !.spots[i] = k])
  BY <1>7, SpotSet
<1> QED BY <1>4, <1>8

LEMMA PerpMaxImbalances ==
  ASSUME NEW w, Kept(w), NEW i, NEW imbalance, NEW rev_max, NEW quote_max
  PROVE  Sound(update_perp_market_max_imbalances(w, i, imbalance, rev_max, quote_max))
<1> DEFINE m == [w.perps[i] EXCEPT !.imbalance = imbalance, !.rev_max = rev_max, !.quote_max = quote_max]
<1> SUFFICES ASSUME i \in DOMAIN w.perps, m.quote_settled <= quote_max
             PROVE  Sound(with_perp(w, i, {m}))
  BY DEF Sound, update_perp_market_max_imbalances, perp_market_valid
<1>1. PerpKept(w.perps[i])
  BY DEF Kept
<1>2. DOMAIN m = DOMAIN w.perps[i] /\ \A f \in PerpSettings \ {"quote_max"} : m[f] = w.perps[i][f]
  BY <1>1 DEF PerpKept, PerpSettings
<1>3. m.quote_max = quote_max
  BY <1>1 DEF PerpKept, PerpSettings
<1> HIDE DEF m
<1>4. PerpKept(m) /\ m.oracle = w.perps[i].oracle
  BY <1>1, <1>2, <1>3 DEF PerpKept, PerpSettings
<1>5. Kept([w EXCEPT !.perps[i] = m])
  BY <1>4, PerpSet
<1> QED BY <1>5 DEF Sound, with_perp

(***************************************************************************)
(* Oracles.                                                                *)
(***************************************************************************)
\* An oracle that gives a price can be read.
LEMMA PricedOracle ==
  ASSUME NEW w, NEW i, NEW p \in get_oracle_price(w, Prelaunch(i))
  PROVE  i \in DOMAIN w.pre
  BY DEF get_oracle_price, Prelaunch

LEMMA OracleSet ==
  ASSUME NEW w, Kept(w), NEW i \in DOMAIN w.perps, NEW m, PerpKept(m), m.oracle = Prelaunch(i) => i \in DOMAIN w.pre
  PROVE  Kept([w EXCEPT !.perps[i] = m])
<1> DEFINE v == [w EXCEPT !.perps[i] = m]
<1>1. /\ DOMAIN v = WorldFields /\ DOMAIN v.perps = DOMAIN w.perps
      /\ v.spots = w.spots /\ v.ex = w.ex /\ v.single = w.single /\ v.pre = w.pre
      /\ \A j \in DOMAIN w.perps : v.perps[j] = IF j = i THEN m ELSE w.perps[j]
  BY DEF Kept, WorldFields
<1> HIDE DEF v
<1>2. \A j \in DOMAIN v.perps : PerpKept(v.perps[j])
  BY <1>1 DEF Kept
<1>3. MarketsCounted(v)
  BY <1>1 DEF Kept, MarketsCounted
<1>4. OracleInUse(v)
  BY <1>1 DEF Kept, OracleInUse
<1>5. Kept(v)
  BY <1>1, <1>2, <1>3, <1>4 DEF Kept
<1> QED BY <1>5 DEF v

\* The prelaunch oracles change, those in use stay.
LEMMA PreSet ==
  ASSUME NEW w, Kept(w), NEW pre,
         \A i \in DOMAIN w.perps : w.perps[i].oracle = Prelaunch(i) => i \in DOMAIN pre
  PROVE  Kept([w EXCEPT !.pre = pre])
<1> DEFINE v == [w EXCEPT !.pre = pre]
<1>1. /\ DOMAIN v = WorldFields /\ v.perps = w.perps /\ v.spots = w.spots
      /\ v.ex = w.ex /\ v.single = w.single /\ v.pre = pre
  BY DEF Kept, WorldFields
<1> HIDE DEF v
<1>2. MarketsCounted(v) /\ OracleInUse(v)
  BY <1>1 DEF Kept, MarketsCounted, OracleInUse
<1>3. Kept(v)
  BY <1>1, <1>2 DEF Kept
<1> QED BY <1>3 DEF v

LEMMA PerpOracle ==
  ASSUME NEW w, Kept(w), NEW i, NEW oracle, NEW skip
  PROVE  Sound(update_perp_market_oracle(w, i, oracle, skip))
<1> DEFINE u == IF i \in DOMAIN w.cache.has THEN [w EXCEPT !.cache.has[i] = oracle] ELSE w
           m == [u.perps[i] EXCEPT !.oracle = oracle]
<1> SUFFICES ASSUME i \in DOMAIN w.perps, oracle_change_allowed(w, w.perps[i].oracle, oracle, skip)
             PROVE  Kept([u EXCEPT !.perps[i].oracle = oracle])
  BY DEF Sound, update_perp_market_oracle, perp_market_valid
<1>1. oracle = Prelaunch(i) => i \in DOMAIN w.pre
  BY PricedOracle DEF oracle_change_allowed
<1>2. Kept(u)
  <2> DEFINE cache == [w.cache EXCEPT !.has[i] = oracle]
  <2>1. [w EXCEPT !.cache.has[i] = oracle] = [w EXCEPT !.cache = cache]
    OBVIOUS
  <2> HIDE DEF cache
  <2>2. Kept([w EXCEPT !.cache = cache])
    BY PartSet
  <2> QED BY <2>1, <2>2
<1>3. u.perps = w.perps /\ u.pre = w.pre
  BY DEF Kept, WorldFields
<1> HIDE DEF u
<1>4. PerpKept(u.perps[i])
  BY <1>2, <1>3 DEF Kept
<1>5. DOMAIN m = DOMAIN u.perps[i] /\ m.oracle = oracle /\ \A f \in PerpSettings \ {"oracle"} : m[f] = u.perps[i][f]
  BY <1>4 DEF PerpKept, PerpSettings
<1>6. [u EXCEPT !.perps[i].oracle = oracle] = [u EXCEPT !.perps[i] = m]
  OBVIOUS
<1> HIDE DEF m
<1>7. PerpKept(m)
  BY <1>4, <1>5 DEF PerpKept, PerpSettings
<1>8. Kept([u EXCEPT !.perps[i] = m])
  BY <1>1, <1>2, <1>3, <1>5, <1>7, OracleSet
<1> QED BY <1>6, <1>8

LEMMA PrelaunchOracles ==
  ASSUME NEW w, Kept(w), NEW i, NEW price, NEW max
  PROVE  /\ Sound(initialize_prelaunch_oracle(w, i, price, max))
         /\ Sound(update_prelaunch_oracle_params(w, i, price, max))
         /\ Sound(delete_prelaunch_oracle(w, i))
<1>1. Sound(initialize_prelaunch_oracle(w, i, price, max))
  <2> DEFINE o == [price |-> given(price, 0), max |-> given(max, 0)]
  <2>1. Kept([w EXCEPT !.pre = extended(@, i, o)])
    <3>1. DOMAIN w.pre \subseteq DOMAIN extended(w.pre, i, o)
      BY DEF extended
    <3> QED BY <3>1, PreSet DEF Kept, OracleInUse
  <2> QED BY <2>1 DEF Sound, initialize_prelaunch_oracle
<1>2. Sound(update_prelaunch_oracle_params(w, i, price, max))
  <2> DEFINE o == [price |-> given(price, w.pre[i].price), max |-> given(max, w.pre[i].max)]
             x == given(price, w.perps[i].mark_twap)
  <2> SUFFICES ASSUME i \in DOMAIN w.perps
               PROVE  Kept([w EXCEPT !.pre[i] = o, !.perps[i].mark_twap = x])
    <3>1. [w EXCEPT !.pre[i] = o, !.perps[i].mark_twap = x]
          = [w EXCEPT !.pre[i] = o, !.perps[i].mark_twap = given(price, @)]
      <4>1. [w EXCEPT !.pre[i] = o].perps = w.perps
        BY DEF Kept, WorldFields
      <4> HIDE DEF o
      <4> QED BY <4>1
    <3> QED BY <3>1 DEF Sound, update_prelaunch_oracle_params
  <2> HIDE DEF o, x
  <2> DEFINE pre == [w.pre EXCEPT ![i] = o]
             u == [w EXCEPT !.pre = pre]
  <2>1. Kept(u)
    BY PreSet DEF Kept, OracleInUse
  <2>2. i \in DOMAIN u.perps
    BY DEF Kept, WorldFields
  <2>3. [w EXCEPT !.pre[i] = o, !.perps[i].mark_twap = x] = [u EXCEPT !.perps[i].mark_twap = x]
    OBVIOUS
  <2> HIDE DEF u
  <2>4. Kept([u EXCEPT !.perps[i].mark_twap = x])
    BY <2>1, <2>2, PerpFieldSet DEF PerpSettings
  <2> QED BY <2>3, <2>4
<1>3. Sound(delete_prelaunch_oracle(w, i))
  <2> SUFFICES ASSUME i \in DOMAIN w.perps, w.perps[i].oracle # Prelaunch(i)
               PROVE  Kept([w EXCEPT !.pre = without(@, i)])
    BY DEF Sound, delete_prelaunch_oracle
  <2>1. DOMAIN without(w.pre, i) = DOMAIN w.pre \ {i}
    BY DEF without
  <2> QED BY <2>1, PreSet DEF Kept, OracleInUse
<1> QED BY <1>1, <1>2, <1>3

LEMMA OracleTwap ==
  ASSUME NEW w, Kept(w), NEW i
  PROVE  Sound(update_amm_oracle_twap(w, i))
<1>1. \A x : i \in DOMAIN w.perps => Kept([w EXCEPT !.perps[i].twap = x])
  BY PerpFieldSet DEF PerpSettings
<1> QED BY <1>1 DEF Sound, update_amm_oracle_twap, perp_market_valid

(***************************************************************************)
(* The exchange's own settings, and the accounts there is one of.          *)
(***************************************************************************)
LEMMA ExFieldSet ==
  ASSUME NEW w, Kept(w), NEW f, f \notin {"number_of_markets", "number_of_spot_markets", "opts"}, NEW x
  PROVE  Kept([w EXCEPT !.ex[f] = x])
<1> DEFINE ex == [w.ex EXCEPT ![f] = x]
<1>1. ExKept(w.ex)
  BY DEF Kept
<1>2. /\ DOMAIN ex = DOMAIN w.ex /\ ex.number_of_markets = w.ex.number_of_markets
      /\ ex.number_of_spot_markets = w.ex.number_of_spot_markets /\ ex.opts = w.ex.opts
  BY <1>1 DEF ExKept
<1>3. [w EXCEPT !.ex[f] = x] = [w EXCEPT !.ex = ex]
  OBVIOUS
<1> HIDE DEF ex
<1>4. ExKept(ex)
  BY <1>1, <1>2 DEF ExKept
<1>5. Kept([w EXCEPT !.ex = ex])
  BY <1>2, <1>4, ExSet
<1> QED BY <1>3, <1>5

\* What FeesCovered says of one fee tier.
TierCovered(t) ==
  100 * 100 * t.rebate + (t.fee * (100 - t.discount)) * (t.referrer + t.filler)
    <= 100 * (t.fee * (100 - t.discount)) + 2 * 100 * 100

LEMMA ExOptSet ==
  ASSUME NEW w, Kept(w), NEW name, NEW v, name \in {"perp_fees", "spot_fees"} => TierCovered(v)
  PROVE  Sound(ex_opt(w, name, v))
<1> DEFINE opts == extended(w.ex.opts, name, v)
           ex == [w.ex EXCEPT !.opts = opts]
<1>1. ExKept(w.ex)
  BY DEF Kept
<1>2. DOMAIN opts = DOMAIN w.ex.opts \union {name} /\ \A n \in DOMAIN opts : opts[n] = IF n = name THEN v ELSE w.ex.opts[n]
  BY DEF extended
<1>3. [w EXCEPT !.ex.opts = opts] = [w EXCEPT !.ex = ex]
  <2> HIDE DEF opts
  <2> QED OBVIOUS
<1>4. ex_opt(w, name, v) = {[w EXCEPT !.ex.opts = opts]}
  BY DEF ex_opt
<1> HIDE DEF opts
<1>5. /\ DOMAIN ex = DOMAIN w.ex /\ ex.number_of_markets = w.ex.number_of_markets
      /\ ex.number_of_spot_markets = w.ex.number_of_spot_markets /\ ex.opts = opts
  BY <1>1 DEF ExKept
<1> HIDE DEF ex
<1>6. \A n \in {"perp_fees", "spot_fees"} \intersect DOMAIN opts : TierCovered(opts[n])
  <2>1. \A n \in {"perp_fees", "spot_fees"} \intersect DOMAIN w.ex.opts : TierCovered(w.ex.opts[n])
    BY <1>1 DEF ExKept, TierCovered
  <2> QED BY <1>2, <2>1
<1>7. ExKept(ex)
  BY <1>1, <1>5, <1>6 DEF ExKept, TierCovered
<1>8. Kept([w EXCEPT !.ex = ex])
  BY <1>5, <1>7, ExSet
<1> QED BY <1>3, <1>4, <1>8 DEF Sound

LEMMA ExOpts ==
  ASSUME NEW w, Kept(w), NEW v
  PROVE  /\ Sound(update_initial_pct_to_liquidate(w, v)) /\ Sound(update_liquidation_duration(w, v))
         /\ Sound(update_liquidation_margin_buffer_ratio(w, v)) /\ Sound(update_oracle_guard_rails(w, v))
         /\ Sound(update_state_max_number_of_sub_accounts(w, v)) /\ Sound(update_state_max_initialize_user_fee(w, v))
         /\ Sound(update_whitelist_mint(w, v)) /\ Sound(update_discount_mint(w, v))
         /\ Sound(update_perp_auction_duration(w, v)) /\ Sound(update_spot_auction_duration(w, v))
         /\ Sound(update_serum_vault(w, v)) /\ Sound(initialize_pyth_lazer_oracle(w, v))
<1>1. \A name : name \notin {"perp_fees", "spot_fees"} => Sound(ex_opt(w, name, v))
  BY ExOptSet
<1> QED BY <1>1 DEF update_initial_pct_to_liquidate, update_liquidation_duration, update_liquidation_margin_buffer_ratio,
           update_oracle_guard_rails, update_state_max_number_of_sub_accounts, update_state_max_initialize_user_fee,
           update_whitelist_mint, update_discount_mint, update_perp_auction_duration, update_spot_auction_duration,
           update_serum_vault, initialize_pyth_lazer_oracle

LEMMA ExFields ==
  ASSUME NEW w, Kept(w), NEW v
  PROVE  /\ Sound(update_state_settlement_duration(w, v)) /\ Sound(update_exchange_status(w, v)) /\ Sound(update_admin(w, v))
<1> DEFINE free(f) == f \notin {"number_of_markets", "number_of_spot_markets", "opts"}
<1>1. \A f, x : free(f) => Kept([w EXCEPT !.ex[f] = x])
  BY ExFieldSet
<1>2. Kept([w EXCEPT !.ex.settlement_duration = v])
  BY <1>1
<1>3. Kept([w EXCEPT !.ex.deposits_paused = (v = 1)])
  BY <1>1
<1>4. Kept([w EXCEPT !.ex.admin = v])
  BY <1>1
<1> QED BY <1>2, <1>3, <1>4 DEF Sound, update_state_settlement_duration, update_exchange_status, update_admin

LEMMA Features ==
  ASSUME NEW w, Kept(w), NEW s, NEW on
  PROVE  /\ Sound(update_feature_bit_flags_mm_oracle(w, s, on)) /\ Sound(update_feature_bit_flags_median_trigger_price(w, s, on))
         /\ Sound(update_feature_bit_flags_builder_codes(w, s, on))
         /\ Sound(update_feature_bit_flags_builder_referral(w, s, on))
         /\ Sound(update_feature_bit_flags_settle_lp_pool(w, s, on)) /\ Sound(update_feature_bit_flags_swap_lp_pool(w, s, on))
         /\ Sound(update_feature_bit_flags_mint_redeem_lp_pool(w, s, on))
<1>1. ASSUME NEW f \in {"flags", "lp_flags"}, NEW flag
      PROVE  Sound(feature(w, s, f, flag, on))
  <2>1. Kept([w EXCEPT !.ex[f] = IF on THEN @ \union {flag} ELSE @ \ {flag}])
    BY ExFieldSet
  <2> QED BY <2>1 DEF Sound, feature
<1> QED BY <1>1 DEF update_feature_bit_flags_mm_oracle, update_feature_bit_flags_median_trigger_price,
           update_feature_bit_flags_builder_codes, update_feature_bit_flags_builder_referral,
           update_feature_bit_flags_settle_lp_pool, update_feature_bit_flags_swap_lp_pool,
           update_feature_bit_flags_mint_redeem_lp_pool

LEMMA UserParts ==
  ASSUME NEW w, Kept(w), NEW v
  PROVE  Sound(admin_update_user_stats_paused_operations(w, v)) /\ Sound(init_user_fuel(w, v))
<1>1. \A user : Kept([w EXCEPT !.user = user])
  BY PartSet
<1>2. [w EXCEPT !.user.paused = v] = [w EXCEPT !.user = [w.user EXCEPT !.paused = v]]
  OBVIOUS
<1>3. Sound(init_user_fuel(w, v))
  <2> DEFINE fuel == atLeast(0, w.user.fuel + v)
             user == [w.user EXCEPT !.fuel = fuel, !.fuel_ts = w.now]
  <2>1. init_user_fuel(w, v) = {[w EXCEPT !.user.fuel = fuel, !.user.fuel_ts = w.now]}
    BY DEF init_user_fuel
  <2> HIDE DEF fuel
  <2>2. [w EXCEPT !.user.fuel = fuel, !.user.fuel_ts = w.now] = [w EXCEPT !.user = user]
    OBVIOUS
  <2> QED BY <1>1, <2>1, <2>2 DEF Sound
<1> QED BY <1>1, <1>2, <1>3 DEF Sound, admin_update_user_stats_paused_operations

(***************************************************************************)
(* Fee structures.                                                         *)
(***************************************************************************)
\* Each of the two divisions takes less than one from what is shared out.
LEMMA SharesCovered ==
  ASSUME NEW x \in Nat, NEW s \in 0..120, NEW rebate \in Nat,
         (((x \div 100) * s) \div 100) + rebate <= x \div 100
  PROVE  100 * 100 * rebate + x * s <= 100 * x + 2 * 100 * 100
<1> DEFINE taker == x \div 100
           product == taker * s
           shares == product \div 100
           r == x - 100 * taker
           q == product - 100 * shares
<1>1. taker \in Nat /\ r \in 0..99
  OBVIOUS
<1>2. x = 100 * taker + r
  OBVIOUS
<1> HIDE DEF taker
<1>3. product \in Nat
  BY <1>1
<1>4. x * s = 100 * product + r * s
  BY <1>1, <1>2
<1>5. shares + rebate <= taker
  BY DEF taker
<1> HIDE DEF r, product
<1>6. shares \in Nat /\ q \in 0..99 /\ product = 100 * shares + q
  BY <1>3
<1>7. r * s <= r * 120 /\ r * s \in Nat
  BY <1>1
<1> HIDE DEF shares, q
<1> QED BY <1>1, <1>2, <1>4, <1>5, <1>6, <1>7

LEMMA FeesFit ==
  ASSUME NEW t \in FeeTiers, validate_fee_structure(t)
  PROVE  TierCovered(t)
<1> DEFINE x == t.fee * (100 - t.discount)
           s == t.referrer + t.filler
<1>1. {t.fee, t.discount, t.referrer, t.rebate, t.filler} \subseteq Nat
  BY ArgumentsAssumption
<1>2. t.discount <= 100 /\ t.referrer <= 100 /\ t.filler <= 20
  BY DEF validate_fee_structure, validate_fee_tier
<1>3. 100 - t.discount \in Nat
  BY <1>1, <1>2
<1>4. x \in Nat /\ s \in 0..120 /\ t.rebate \in Nat
  <2>1. \A a, b \in Nat : a * b \in Nat
    OBVIOUS
  <2>2. t.fee \in Nat
    BY <1>1
  <2>3. x \in Nat
    BY <1>3, <2>1, <2>2
  <2> HIDE DEF x
  <2>4. t.referrer \in Nat /\ t.filler \in Nat /\ t.rebate \in Nat
    BY <1>1
  <2>5. \A a, b \in Nat : a <= 100 /\ b <= 20 => a + b \in 0..120
    OBVIOUS
  <2>6. s \in 0..120
    BY <1>2, <2>4, <2>5
  <2> QED BY <2>3, <2>4, <2>6
<1>5. (x \div 100) - (((x \div 100) * s) \div 100) >= t.rebate
  BY DEF validate_fee_structure, validate_fee_tier
<1> HIDE DEF x, s
<1>6. x \div 100 \in Nat
  BY <1>4
<1>7. (x \div 100) * s \in Nat
  BY <1>4, <1>6
<1>8. ((x \div 100) * s) \div 100 \in Nat
  BY <1>7
<1>9. (((x \div 100) * s) \div 100) + t.rebate <= x \div 100
  BY <1>4, <1>5, <1>6, <1>8
<1>10. 100 * 100 * t.rebate + x * s <= 100 * x + 2 * 100 * 100
  BY <1>4, <1>9, SharesCovered
<1> QED BY <1>10 DEF TierCovered, x, s

LEMMA FeeStructures ==
  ASSUME NEW w, Kept(w), NEW t \in FeeTiers
  PROVE  Sound(update_perp_fee_structure(w, t)) /\ Sound(update_spot_fee_structure(w, t))
<1>1. Sound({})
  BY DEF Sound
<1>2. validate_fee_structure(t) => \A name : Sound(ex_opt(w, name, t))
  BY FeesFit, ExOptSet
<1> QED BY <1>1, <1>2 DEF update_perp_fee_structure, update_spot_fee_structure

(***************************************************************************)
(* Accounts there is one of.                                               *)
(***************************************************************************)
LEMMA CreateKept ==
  ASSUME NEW w, Kept(w), NEW name, NEW x,
         name = "if_rebalance" => {"used", "total"} \subseteq DOMAIN x /\ x.used <= x.total,
         name \notin {"if_transfer", "if_rebalance"} => x.users <= x.max
  PROVE  Sound(create(w, name, x)) /\ Sound(replace(w, name, x))
<1>1. SingleKept(w.single)
  BY DEF Kept
<1>2. SingleKept(extended(w.single, name, x))
  <2> DEFINE single == extended(w.single, name, x)
  <2>1. DOMAIN single = DOMAIN w.single \union {name}
    BY DEF extended
  <2>2. \A n \in DOMAIN single : single[n] = IF n = name THEN x ELSE w.single[n]
    BY DEF extended
  <2> HIDE DEF single
  <2>3. SingleKept(single)
    BY <1>1, <2>1, <2>2 DEF SingleKept
  <2> QED BY <2>3 DEF single
<1>3. name \in DOMAIN w.single => SingleKept([w.single EXCEPT ![name] = x])
  <2> DEFINE single == [w.single EXCEPT ![name] = x]
  <2>1. DOMAIN single = DOMAIN w.single
    OBVIOUS
  <2>2. \A n \in DOMAIN single : single[n] = IF n = name THEN x ELSE w.single[n]
    OBVIOUS
  <2> HIDE DEF single
  <2>3. SingleKept(single)
    BY <1>1, <2>1, <2>2 DEF SingleKept
  <2> QED BY <2>3 DEF single
<1>4. Kept([w EXCEPT !.single = extended(w.single, name, x)])
  BY <1>2, SingleSet
<1>5. name \in DOMAIN w.single => Kept([w EXCEPT !.single = [w.single EXCEPT ![name] = x]])
  BY <1>3, SingleSet
<1>6. [w EXCEPT !.single[name] = x] = [w EXCEPT !.single = [w.single EXCEPT ![name] = x]]
  OBVIOUS
<1>7. Sound(create(w, name, x))
  BY <1>4 DEF Sound, create
<1>8. Sound(replace(w, name, x))
  BY <1>5, <1>6 DEF Sound, replace
<1> QED BY <1>7, <1>8

LEMMA SingleConfigs ==
  ASSUME NEW w, Kept(w), NEW max \in Nat, NEW users, NEW epoch_max
  PROVE  /\ Sound(initialize_high_leverage_mode_config(w, max)) /\ Sound(update_high_leverage_mode_config(w, max, users))
         /\ Sound(initialize_protected_maker_mode_config(w, max)) /\ Sound(update_protected_maker_mode_config(w, max, users))
         /\ Sound(initialize_if_rebalance_config(w, max, epoch_max)) /\ Sound(update_if_rebalance_config(w, max, epoch_max))
         /\ Sound(initialize_protocol_if_shares_transfer_config(w))
         /\ Sound(update_protocol_if_shares_transfer_config(w, users))
<1>0. Sound({})
  BY DEF Sound
<1>1. ASSUME NEW name \in {"high_leverage", "protected_maker"}, NEW n, n <= max
      PROVE  Sound(create(w, name, [users |-> n, max |-> max])) /\ Sound(replace(w, name, [users |-> n, max |-> max]))
  BY <1>1, CreateKept
<1>2. Sound(initialize_high_leverage_mode_config(w, max)) /\ Sound(initialize_protected_maker_mode_config(w, max))
  BY <1>1 DEF initialize_high_leverage_mode_config, initialize_protected_maker_mode_config
<1>3. Sound(update_high_leverage_mode_config(w, max, users))
  BY <1>0, <1>1 DEF update_high_leverage_mode_config, users_fit
<1>4. Sound(update_protected_maker_mode_config(w, max, users))
  BY <1>0, <1>1 DEF update_protected_maker_mode_config, users_fit
<1>5. Sound(initialize_if_rebalance_config(w, max, epoch_max))
  <2> DEFINE c == [total |-> max, used |-> 0, epoch_max |-> epoch_max]
  <2>1. Sound(create(w, "if_rebalance", c))
    BY CreateKept
  <2> QED BY <1>0, <2>1 DEF initialize_if_rebalance_config
<1>6. Sound(update_if_rebalance_config(w, max, epoch_max))
  <2> DEFINE c == [w.single["if_rebalance"] EXCEPT !.total = max, !.epoch_max = epoch_max]
  <2>1. ASSUME "if_rebalance" \in DOMAIN w.single, rebalance_valid(c)
        PROVE  Sound(replace(w, "if_rebalance", c))
    <3>1. {"used", "total"} \subseteq DOMAIN c
      BY <2>1 DEF Kept, SingleKept
    <3>2. c.used <= c.total
      <4>1. c.total >= c.used
        BY <2>1 DEF rebalance_valid
      <4> QED BY <4>1
    <3> HIDE DEF c
    <3> QED BY <3>1, <3>2, CreateKept
  <2> QED BY <1>0, <2>1 DEF update_if_rebalance_config
<1>7. Sound(initialize_protocol_if_shares_transfer_config(w))
  BY CreateKept DEF initialize_protocol_if_shares_transfer_config
<1>8. Sound(update_protocol_if_shares_transfer_config(w, users))
  <2> DEFINE c == [w.single["if_transfer"] EXCEPT !.max = given(users, @)]
  <2>1. Sound(replace(w, "if_transfer", c))
    BY CreateKept
  <2>2. [w EXCEPT !.single["if_transfer"].max = given(users, @)] = [w EXCEPT !.single["if_transfer"] = c]
    OBVIOUS
  <2> QED BY <1>0, <2>1, <2>2 DEF update_protocol_if_shares_transfer_config, replace, Sound
<1> QED BY <1>2, <1>3, <1>4, <1>5, <1>6, <1>7, <1>8

(***************************************************************************)
(* The curve: no move of it touches a setting.                             *)
(***************************************************************************)
Settled(m) == PerpSettings \subseteq DOMAIN m

LEMMA SameRefl ==
  ASSUME NEW m
  PROVE  SamePerp(m, m)
  BY DEF SamePerp

LEMMA SameTrans ==
  ASSUME NEW m, NEW n, NEW o, SamePerp(m, n), SamePerp(n, o)
  PROVE  SamePerp(m, o)
  BY DEF SamePerp

LEMMA SameSettled ==
  ASSUME NEW m, NEW n, Settled(m), SamePerp(m, n)
  PROVE  Settled(n)
  BY DEF SamePerp, Settled

LEMMA SpreadsSame ==
  ASSUME NEW m, Settled(m), NEW n \in update_spreads(m)
  PROVE  SamePerp(m, n)
<1>1. PICK s : n = [m EXCEPT !.long_spread = adjusted(s[1], m.adj), !.short_spread = adjusted(s[2], m.adj)]
  BY ZenonT(30) DEF update_spreads
<1> QED BY <1>1 DEF SamePerp, Settled, PerpSettings

LEMMA BoundsSame ==
  ASSUME NEW m, Settled(m), NEW coef, NEW n \in with_bounds(m, coef)
  PROVE  SamePerp(m, n)
<1> DEFINE o(t) == [m EXCEPT !.coef = coef, !.term = t.q, !.min = calculate_bid_ask_bounds(coef, t.b).min,
                             !.max = calculate_bid_ask_bounds(coef, t.b).max]
<1>1. PICK t \in calculate_terminal_reserves(m) : n \in update_spreads(o(t))
  BY ZenonT(30) DEF with_bounds
<1>3. SamePerp(m, o(t))
  BY DEF SamePerp, Settled, PerpSettings
<1> HIDE DEF o
<1>4. SamePerp(o(t), n)
  BY <1>1, <1>3, SameSettled, SpreadsSame
<1> QED BY <1>3, <1>4, SameTrans

LEMMA ConcentrationSame ==
  ASSUME NEW m, Settled(m), NEW scale, NEW n \in update_concentration_coef(m, scale)
  PROVE  SamePerp(m, n)
  BY BoundsSame DEF update_concentration_coef

LEMMA PegSame ==
  ASSUME NEW m, Settled(m), NEW peg
  PROVE  SamePerp(m, [m EXCEPT !.peg = peg])
  BY DEF SamePerp, Settled, PerpSettings

LEMMA FeesSame ==
  ASSUME NEW m, Settled(m), NEW tfmd
  PROVE  SamePerp(m, [m EXCEPT !.tfmd = tfmd])
  BY DEF SamePerp, Settled, PerpSettings

LEMMA MovePriceSame ==
  ASSUME NEW m, Settled(m), NEW base, NEW quote, NEW k, NEW n \in move_price(m, base, quote, k)
  PROVE  SamePerp(m, n)
<1> DEFINE o == [m EXCEPT !.b = base, !.q = (k * k) \div base, !.k = k]
<1>1. n \in with_bounds(o, m.coef)
  BY DEF move_price
<1>2. SamePerp(m, o)
  BY DEF SamePerp, Settled, PerpSettings
<1> HIDE DEF o
<1>3. SamePerp(o, n)
  BY <1>1, <1>2, SameSettled, BoundsSame
<1> QED BY <1>2, <1>3, SameTrans

LEMMA RecenterSame ==
  ASSUME NEW m, Settled(m), NEW peg, NEW k, NEW n \in recenter_perp_market_amm(m, peg, k)
  PROVE  SamePerp(m, n)
<1> DEFINE o(r) == [m EXCEPT !.b = r.b, !.q = (k * k) \div r.b, !.k = k, !.peg = peg]
<1>1. PICK r : n \in with_bounds(o(r), m.coef)
  BY ZenonT(30) DEF recenter_perp_market_amm
<1>3. SamePerp(m, o(r))
  BY DEF SamePerp, Settled, PerpSettings
<1> HIDE DEF o
<1>4. SamePerp(o(r), n)
  BY <1>1, <1>3, SameSettled, BoundsSame
<1> QED BY <1>3, <1>4, SameTrans

LEMMA KSame ==
  ASSUME NEW m, Settled(m), NEW r, NEW a \in adjust_k_cost(m, r)
  PROVE  SamePerp(m, a.m)
<1> DEFINE o == [m EXCEPT !.b = r.b, !.q = r.q, !.k = r.k]
<1>1. a.m \in with_bounds(o, m.coef)
  BY DEF adjust_k_cost, update_k
<1>2. SamePerp(m, o)
  BY DEF SamePerp, Settled, PerpSettings
<1> HIDE DEF o
<1>3. SamePerp(o, a.m)
  BY <1>1, <1>2, SameSettled, BoundsSame
<1> QED BY <1>2, <1>3, SameTrans

LEMMA CostSame ==
  ASSUME NEW m, Settled(m), NEW cost, NEW check, NEW n \in apply_cost_to_market(m, cost, check)
  PROVE  SamePerp(m, n)
<1>1. n = [m EXCEPT !.tfmd = m.tfmd - cost]
  BY DEF apply_cost_to_market
<1> QED BY <1>1, FeesSame

LEMMA RepegSame ==
  ASSUME NEW m, Settled(m), NEW peg, NEW o, NEW n \in repeg(m, peg, o)
  PROVE  SamePerp(m, n)
<1>1. PICK cost : \E p \in apply_cost_to_market(m, cost, TRUE) : n = [p EXCEPT !.peg = peg]
  BY DEF repeg
<1>2. PICK p \in apply_cost_to_market(m, cost, TRUE) : n = [p EXCEPT !.peg = peg]
  BY <1>1
<1>3. SamePerp(m, p)
  BY CostSame
<1>4. SamePerp(p, n)
  BY <1>2, <1>3, SameSettled, PegSame
<1> QED BY <1>3, <1>4, SameTrans

LEMMA AmmSame ==
  ASSUME NEW m, Settled(m), NEW o, NEW n \in update_amm(m, o)
  PROVE  SamePerp(m, n)
<1>1. CASE n = m
  BY <1>1, SameRefl
<1>2. CASE n # m
  <2> DEFINE paid(p) == apply_cost_to_market(m, adjust_amm(m, p).cost, p.check)
             choices(p) == IF paid(p) = {} THEN {m} ELSE {[x EXCEPT !.peg = adjust_amm(m, p).m.peg] : x \in paid(p)}
             moved == IF ~o.valid \/ m.intensity = 0 THEN {m} ELSE UNION {choices(p) : p \in calculate_optimal_peg_and_budget(m, o)}
  <2>1. PICK x \in moved : n \in update_spreads(x)
    BY <1>2 DEF update_amm
  <2>2. SamePerp(m, x)
    <3>1. CASE x = m
      BY <3>1, SameRefl
    <3>2. CASE x # m
      <4>1. PICK p : x \in choices(p)
        BY <3>2
      <4>2. PICK y, peg : y \in paid(p) /\ x = [y EXCEPT !.peg = peg]
        BY <3>2, <4>1
      <4>3. SamePerp(m, y)
        BY <4>2, CostSame
      <4>4. SamePerp(y, x)
        BY <4>2, <4>3, SameSettled, PegSame
      <4> QED BY <4>3, <4>4, SameTrans
    <3> QED BY <3>1, <3>2
  <2> HIDE DEF moved
  <2>3. SamePerp(x, n)
    BY <2>1, <2>2, SameSettled, SpreadsSame
  <2> QED BY <2>2, <2>3, SameTrans
<1> QED BY <1>1, <1>2

LEMMA RaisedSame ==
  ASSUME NEW m, Settled(m), NEW budget, NEW n \in raised(m, budget)
  PROVE  SamePerp(m, n)
<1>1. CASE n = m
  BY <1>1, SameRefl
<1>2. CASE n # m
  <2>1. PICK r, a, tfmd : a \in adjust_k_cost(m, r) /\ n = [a.m EXCEPT !.tfmd = tfmd]
    BY <1>2 DEF raised, apply_cost_to_market
  <2>2. SamePerp(m, a.m)
    BY <2>1, KSame
  <2>3. SamePerp(a.m, n)
    BY <2>1, <2>2, SameSettled, FeesSame
  <2> QED BY <2>2, <2>3, SameTrans
<1> QED BY <1>1, <1>2

LEMMA PerpSettled ==
  ASSUME NEW w, Kept(w), NEW i \in DOMAIN w.perps
  PROVE  Settled(w.perps[i])
  BY DEF Kept, PerpKept, Settled

LEMMA CurveHandlers ==
  ASSUME NEW w, Kept(w), NEW i
  PROVE  /\ \A scale : Sound(update_perp_market_concentration_coef(w, i, scale))
         /\ \A b, q, k : Sound(move_amm_price(w, i, b, q, k))
         /\ \A peg, k : Sound(handle_recenter_perp_market_amm(w, i, peg, k))
         /\ \A depth, said : Sound(recenter_perp_market_amm_crank(w, i, depth, said))
         /\ \A peg : Sound(repeg_amm_curve(w, i, peg))
         /\ \A k : Sound(handle_update_k(w, i, k))
         /\ \A update, exclude : Sound(update_perp_market_amm_summary_stats(w, i, update, exclude))
<1>0. Sound({})
  BY DEF Sound
<1>a. CASE i \notin DOMAIN w.perps
  BY <1>0, <1>a DEF perp_market_valid, update_perp_market_concentration_coef, move_amm_price,
     handle_recenter_perp_market_amm, recenter_perp_market_amm_crank, repeg_amm_curve, handle_update_k,
     update_perp_market_amm_summary_stats
<1>b. CASE i \in DOMAIN w.perps
  <2> DEFINE m == w.perps[i]
  <2>0. i \in DOMAIN w.perps /\ Settled(m)
    BY <1>b, PerpSettled
  <2> HIDE DEF m
  <2>s. ASSUME NEW S, \A n \in S : SamePerp(m, n) PROVE Sound(with_perp(w, i, S))
    BY <2>0, <2>s, WithPerp DEF m
  <2>1. ASSUME NEW scale PROVE Sound(update_perp_market_concentration_coef(w, i, scale))
    BY <1>0, <2>0, <2>s, ConcentrationSame DEF update_perp_market_concentration_coef, m
  <2>2. ASSUME NEW b, NEW q, NEW k PROVE Sound(move_amm_price(w, i, b, q, k))
    <3> DEFINE S == {n \in move_price(m, b, q, k) : validate_perp_market(n)}
    <3>1. \A n \in S : SamePerp(m, n)
      BY <2>0, MovePriceSame
    <3>2. Sound(with_perp(w, i, S))
      BY <2>s, <3>1
    <3> QED BY <1>0, <3>2 DEF move_amm_price, m
  <2>3. ASSUME NEW peg, NEW k PROVE Sound(handle_recenter_perp_market_amm(w, i, peg, k))
    <3> DEFINE S == {n \in recenter_perp_market_amm(m, peg, k) : validate_perp_market(n)}
    <3>1. \A n \in S : SamePerp(m, n)
      BY <2>0, RecenterSame
    <3>2. Sound(with_perp(w, i, S))
      BY <2>s, <3>1
    <3> QED BY <1>0, <3>2 DEF handle_recenter_perp_market_amm, m
  <2>4. ASSUME NEW depth, NEW said PROVE Sound(recenter_perp_market_amm_crank(w, i, depth, said))
    <3> DEFINE open == calculate_market_open_bids_asks(m)
               scaled(peg) == (m.k * given(depth, 0)) \div (((open.bids + abs(open.asks)) \div 2) * peg)
               recentred(p) ==
                 LET peg == p \div PricePrecision
                 IN  IF depth # {} /\ open.bids + abs(open.asks) < 2 THEN {}
                     ELSE recenter_perp_market_amm(m, peg, IF depth = {} THEN m.k ELSE scaled(peg))
               S == {n \in UNION {recentred(p) : p \in price_of_any_account(w, m.oracle, said)} : validate_perp_market(n)}
    <3>1. \A p : \A n \in recentred(p) : SamePerp(m, n)
      BY <2>0, RecenterSame
    <3>2. \A n \in S : SamePerp(m, n)
      <4> HIDE DEF recentred
      <4> QED BY <3>1
    <3>3. Sound(with_perp(w, i, S))
      <4> HIDE DEF S
      <4> QED BY <2>s, <3>2
    <3>4. recenter_perp_market_amm_crank(w, i, depth, said) =
              IF perp_market_valid(w, i) THEN with_perp(w, i, S) ELSE {}
      BY DEF recenter_perp_market_amm_crank, m
    <3> HIDE DEF S
    <3> QED BY <1>0, <3>3, <3>4
  <2>5. ASSUME NEW peg PROVE Sound(repeg_amm_curve(w, i, peg))
    <3> DEFINE S == UNION {repeg(m, peg, o) : o \in oracle_of(w, i)}
    <3>1. \A n \in S : SamePerp(m, n)
      BY <2>0, RepegSame
    <3>2. Sound(with_perp(w, i, S))
      BY <2>s, <3>1
    <3> QED BY <1>0, <3>2 DEF repeg_amm_curve, m
  <2>6. ASSUME NEW k PROVE Sound(handle_update_k(w, i, k))
    <3> DEFINE fits(n) == /\ k > m.k => n.k < MaxK
                          /\ abs(reserve_price(m) - reserve_price(n)) <= MaxKPriceChange
               A == {a \in UNION {adjust_k_cost(m, r) : r \in get_update_k_result(m, k)} : k_cost_fits(m, k, a.cost) /\ fits(a.m)}
               S == {[a.m EXCEPT !.tfmd = m.tfmd - a.cost] : a \in A}
    <3>1. \A a \in A : SamePerp(m, a.m)
      BY <2>0, KSame
    <3>2. ASSUME NEW n \in S PROVE SamePerp(m, n)
      <4> HIDE DEF A
      <4>1. PICK a \in A : n = [a.m EXCEPT !.tfmd = m.tfmd - a.cost]
        OBVIOUS
      <4>2. SamePerp(m, a.m)
        BY <3>1
      <4>3. SamePerp(a.m, n)
        BY <2>0, <4>1, <4>2, SameSettled, FeesSame
      <4> QED BY <4>2, <4>3, SameTrans
    <3>3. Sound(with_perp(w, i, S))
      <4> HIDE DEF S
      <4> QED BY <2>s, <3>2
    <3>4. handle_update_k(w, i, k) = IF perp_market_valid(w, i) THEN with_perp(w, i, S) ELSE {}
      BY DEF handle_update_k, m
    <3> HIDE DEF S
    <3> QED BY <1>0, <3>3, <3>4
  <2>7. ASSUME NEW update, NEW exclude PROVE Sound(update_perp_market_amm_summary_stats(w, i, update, exclude))
    <3> DEFINE after(p) == IF update
                           THEN [m EXCEPT !.tfmd = calculate_perp_market_amm_summary_stats(m, w.spots[0], p, exclude)]
                           ELSE m
               S == {n \in {after(p) : p \in get_oracle_price(w, m.oracle)} : validate_perp_market(n)}
    <3>1. ASSUME NEW p PROVE SamePerp(m, after(p))
      BY <2>0, SameRefl, FeesSame
    <3>2. \A n \in S : SamePerp(m, n)
      <4> HIDE DEF after
      <4> QED BY <3>1
    <3>3. Sound(with_perp(w, i, S))
      <4> HIDE DEF S
      <4> QED BY <2>s, <3>2
    <3>4. update_perp_market_amm_summary_stats(w, i, update, exclude)
          = IF perp_market_valid(w, i) /\ 0 \in DOMAIN w.spots THEN with_perp(w, i, S) ELSE {}
      BY DEF update_perp_market_amm_summary_stats, m
    <3> HIDE DEF S
    <3> QED BY <1>0, <3>3, <3>4
  <2> QED BY <2>1, <2>2, <2>3, <2>4, <2>5, <2>6, <2>7
<1> QED BY <1>a, <1>b

(***************************************************************************)
(* Money: no move of it touches a setting.                                 *)
(***************************************************************************)
SpotSettled(k) == SpotSettings \subseteq DOMAIN k

LEMMA SpotRefl ==
  ASSUME NEW k
  PROVE  SameSpot(k, k)
  BY DEF SameSpot

LEMMA SpotTrans ==
  ASSUME NEW k, NEW j, NEW l, SameSpot(k, j), SameSpot(j, l)
  PROVE  SameSpot(k, l)
  BY DEF SameSpot

LEMMA SpotSameSettled ==
  ASSUME NEW k, NEW j, SpotSettled(k), SameSpot(k, j)
  PROVE  SpotSettled(j)
  BY DEF SameSpot, SpotSettled

LEMMA IncreaseSame ==
  ASSUME NEW k, SpotSettled(k), NEW delta, NEW type
  PROVE  SameSpot(k, increase_spot_balance(delta, k, type))
  BY DEF SameSpot, SpotSettled, SpotSettings, increase_spot_balance

LEMMA DecreaseSame ==
  ASSUME NEW k, SpotSettled(k), NEW delta, NEW type, NEW j \in decrease_spot_balance(delta, k, type)
  PROVE  SameSpot(k, j)
<1>1. CASE type = "Deposit"
  <2>1. j = [k EXCEPT !.dep = k.dep - delta]
    BY <1>1 DEF decrease_spot_balance
  <2> QED BY <2>1 DEF SameSpot, SpotSettled, SpotSettings
<1>2. CASE type # "Deposit"
  <2>1. j = [k EXCEPT !.bor = k.bor - delta]
    BY <1>2 DEF decrease_spot_balance
  <2> QED BY <2>1 DEF SameSpot, SpotSettled, SpotSettings
<1> QED BY <1>1, <1>2

LEMMA ReceiveSame ==
  ASSUME NEW k, SpotSettled(k), NEW amount
  PROVE  SameSpot(k, receive(k, amount))
  BY DEF SameSpot, SpotSettled, SpotSettings, receive

LEMMA RevenueSame ==
  ASSUME NEW k, SpotSettled(k), NEW b
  PROVE  SameSpot(k, [k EXCEPT !.revenue = b])
  BY DEF SameSpot, SpotSettled, SpotSettings

LEMMA JoinedSame ==
  ASSUME NEW k, SpotSettled(k), NEW amount, NEW dir, NEW b
  PROVE  SameSpot(k, joined(amount, dir, k, b).k)
  BY IncreaseSame DEF joined

LEMMA BalancesSame ==
  ASSUME NEW k, SpotSettled(k), NEW amount, NEW dir, NEW b, NEW leaving,
         NEW r \in update_spot_balances(amount, dir, k, b, leaving)
  PROVE  SameSpot(k, r.k)
<1> DEFINE current == token_amount(b, k)
           partly == current > amount
           delta == IF partly THEN get_spot_balance(amount, k, b.type, leaving \/ b.type = "Borrow") ELSE b.bal
           rest == IF partly THEN 0 ELSE amount - current
           reduced == IF current = 0 THEN {[k |-> k, b |-> b]}
                      ELSE IF delta > b.bal THEN {}
                      ELSE {[k |-> j, b |-> [b EXCEPT !.bal = @ - delta]] : j \in decrease_spot_balance(delta, k, b.type)}
           results == IF dir = b.type THEN {joined(amount, dir, k, b)}
                      ELSE {IF rest > 0 THEN joined(rest, dir, x.k, x.b) ELSE x : x \in reduced}
<1>1. r \in results
  BY DEF update_spot_balances
<1>2. \A x \in reduced : SameSpot(k, x.k)
  <2> HIDE DEF current, delta
  <2> QED BY SpotRefl, DecreaseSame
<1> HIDE DEF reduced, rest
<1>3. CASE dir = b.type
  BY <1>1, <1>3, JoinedSame
<1>4. CASE dir # b.type
  <2>1. PICK x \in reduced : r = IF rest > 0 THEN joined(rest, dir, x.k, x.b) ELSE x
    BY <1>1, <1>4
  <2>2. SameSpot(k, x.k)
    BY <1>2
  <2>3. SameSpot(x.k, r.k)
    BY <2>1, <2>2, SpotSameSettled, JoinedSame, SpotRefl
  <2> QED BY <2>2, <2>3, SpotTrans
<1> QED BY <1>3, <1>4

LEMMA RevenuePoolSame ==
  ASSUME NEW k, SpotSettled(k), NEW amount, NEW dir, NEW j \in update_revenue_pool_balances(amount, dir, k)
  PROVE  SameSpot(k, j)
<1>1. PICK r \in update_spot_balances(amount, dir, k, k.revenue, FALSE) : j = [r.k EXCEPT !.revenue = r.b]
  BY DEF update_revenue_pool_balances
<1>2. SameSpot(k, r.k)
  BY BalancesSame
<1>3. SameSpot(r.k, j)
  BY <1>1, <1>2, SpotSameSettled, RevenueSame
<1> QED BY <1>2, <1>3, SpotTrans

LEMMA InterestSame ==
  ASSUME NEW k, SpotSettled(k), NEW now, NEW j \in update_spot_market_cumulative_interest(k, now)
  PROVE  SameSpot(k, j)
<1>1. ASSUME NEW l, SpotSettled(l)
      PROVE  SameSpot(l, update_spot_market_twap_stats(l, now))
  BY <1>1 DEF SameSpot, SpotSettled, SpotSettings, update_spot_market_twap_stats
<1>2. ASSUME NEW l \in with_interest(k, now)
      PROVE  SameSpot(k, l)
  <2> DEFINE i == calculate_accumulated_interest(k, now)
             stakers == (i.deposit * k.factor) \div 100
             o == [k EXCEPT !.cdi = @ + i.deposit - stakers, !.cbi = @ + i.borrow, !.last_ts = now]
  <2>1. l \in interest_paid(k, now, i, stakers)
    BY DEF with_interest, shared_interest
  <2>2. CASE l = k
    BY <2>2, SpotRefl
  <2>3. CASE l # k
    <3>1. PICK amount : l \in update_revenue_pool_balances(amount, "Deposit", o)
      <4> HIDE DEF i, stakers
      <4> QED BY <2>1, <2>3 DEF interest_paid
    <3>2. SameSpot(k, o)
      <4> HIDE DEF i, stakers
      <4> QED BY DEF SameSpot, SpotSettled, SpotSettings
    <3> HIDE DEF o
    <3>3. SameSpot(o, l)
      BY <3>1, <3>2, SpotSameSettled, RevenuePoolSame
    <3> QED BY <3>2, <3>3, SpotTrans
  <2> QED BY <2>2, <2>3
<1>3. PICK l : j = update_spot_market_twap_stats(l, now) /\ (l = k \/ l \in with_interest(k, now))
  BY DEF update_spot_market_cumulative_interest
<1>4. SameSpot(k, l)
  BY <1>2, <1>3, SpotRefl
<1>5. SameSpot(l, j)
  BY <1>1, <1>3, <1>4, SpotSameSettled
<1> QED BY <1>4, <1>5, SpotTrans

LEMMA SpotsSettled ==
  ASSUME NEW w, Kept(w), NEW i \in DOMAIN w.spots
  PROVE  SpotSettled(w.spots[i])
  BY DEF Kept, SpotKept, SpotSettled

LEMMA SpotPutDomains ==
  ASSUME NEW w, Kept(w), NEW i \in DOMAIN w.spots, NEW k, SameSpot(w.spots[i], k)
  PROVE  /\ Kept([w EXCEPT !.spots[i] = k])
         /\ [w EXCEPT !.spots[i] = k].perps = w.perps
         /\ DOMAIN [w EXCEPT !.spots[i] = k].spots = DOMAIN w.spots
  BY SpotPut DEF Kept, WorldFields

LEMMA QuoteInterest ==
  ASSUME NEW w, Kept(w), NEW v \in quote_with_interest(w)
  PROVE  Kept(v) /\ v.perps = w.perps /\ DOMAIN v.spots = DOMAIN w.spots
<1>1. PICK k \in update_spot_market_cumulative_interest(w.spots[0], w.now) : v = [w EXCEPT !.spots[0] = k]
  BY DEF quote_with_interest
<1>2. 0 \in DOMAIN w.spots
  BY DEF quote_with_interest
<1>3. SameSpot(w.spots[0], k)
  BY <1>2, SpotsSettled, InterestSame
<1> QED BY <1>1, <1>2, <1>3, SpotPutDomains

LEMMA PoolMoved ==
  ASSUME NEW w, Kept(w), NEW i \in DOMAIN w.perps, NEW pool \in {"fee_pool", "pnl_pool"}, NEW amount, NEW dir,
         NEW v \in pool_moved(w, i, pool, amount, dir)
  PROVE  Kept(v) /\ DOMAIN v.perps = DOMAIN w.perps /\ 0 \in DOMAIN v.spots
<1> DEFINE R == update_spot_balances(amount, dir, w.spots[0], w.perps[i][pool], FALSE)
           S == {[w EXCEPT !.spots[0] = r.k, !.perps[i][pool] = r.b] : r \in R}
<1>0. pool_moved(w, i, pool, amount, dir) = IF 0 \notin DOMAIN w.spots THEN {} ELSE S
  BY DEF pool_moved
<1>1. 0 \in DOMAIN w.spots /\ v \in S
  <2> HIDE DEF S
  <2> QED BY <1>0
<1>2. PICK r \in update_spot_balances(amount, dir, w.spots[0], w.perps[i][pool], FALSE) :
         v = [w EXCEPT !.spots[0] = r.k, !.perps[i][pool] = r.b]
  <2> HIDE DEF R
  <2>1. PICK r \in R : v = [w EXCEPT !.spots[0] = r.k, !.perps[i][pool] = r.b]
    BY <1>1
  <2> QED BY <2>1 DEF R
<1> DEFINE u == [w EXCEPT !.spots[0] = r.k]
<1>3. SameSpot(w.spots[0], r.k)
  BY <1>1, <1>2, SpotsSettled, BalancesSame
<1>4. Kept(u) /\ u.perps = w.perps /\ DOMAIN u.spots = DOMAIN w.spots
  BY <1>1, <1>3, SpotPutDomains
<1>5. v = [u EXCEPT !.perps[i][pool] = r.b]
  BY <1>2
<1> HIDE DEF u
<1>6. Kept([u EXCEPT !.perps[i][pool] = r.b])
  BY <1>4, PerpFieldSet DEF PerpSettings
<1>7. DOMAIN v.perps = DOMAIN u.perps /\ v.spots = u.spots
  BY <1>4, <1>5 DEF Kept, WorldFields
<1> QED BY <1>1, <1>4, <1>5, <1>6, <1>7

LEMMA FeePoolDeposit ==
  ASSUME NEW w, Kept(w), NEW i, NEW amount
  PROVE  Sound(deposit_into_perp_market_fee_pool(w, i, amount))
<1> DEFINE moved == Then(quote_with_interest(w), LAMBDA u : pool_moved(u, i, "fee_pool", amount, "Deposit"))
           S == {[u EXCEPT !.perps[i].tfmd = @ + amount, !.spots[0] = receive(@, amount)] : u \in moved}
<1>0. deposit_into_perp_market_fee_pool(w, i, amount) = IF perp_market_valid(w, i) THEN S ELSE {}
  BY DEF deposit_into_perp_market_fee_pool
<1> SUFFICES ASSUME i \in DOMAIN w.perps, NEW x \in S
             PROVE  Kept(x)
  <2> HIDE DEF S
  <2> QED BY <1>0 DEF Sound, perp_market_valid
<1>1. PICK v \in moved : x = [v EXCEPT !.perps[i].tfmd = @ + amount, !.spots[0] = receive(@, amount)]
  <2> HIDE DEF moved
  <2> QED OBVIOUS
<1>2. PICK u \in quote_with_interest(w) : v \in pool_moved(u, i, "fee_pool", amount, "Deposit")
  BY DEF Then
<1>3. Kept(u) /\ i \in DOMAIN u.perps
  BY QuoteInterest
<1>4. Kept(v) /\ i \in DOMAIN v.perps /\ 0 \in DOMAIN v.spots
  <2>1. Kept(v) /\ DOMAIN v.perps = DOMAIN u.perps /\ 0 \in DOMAIN v.spots
    BY <1>2, <1>3, PoolMoved
  <2> QED BY <1>3, <2>1
<1> DEFINE y == v.perps[i].tfmd + amount
           o == [v EXCEPT !.perps[i].tfmd = y]
           k == receive(v.spots[0], amount)
<1>5. Kept(o)
  BY <1>4, PerpFieldSet DEF PerpSettings
<1>6. o.spots = v.spots
  BY <1>4 DEF Kept, WorldFields
<1>7. SameSpot(v.spots[0], k)
  BY <1>4, SpotsSettled, ReceiveSame
<1>8. x = [o EXCEPT !.spots[0] = k]
  BY <1>1, <1>6
<1> HIDE DEF o, k, y
<1> QED BY <1>4, <1>5, <1>6, <1>7, <1>8, SpotPut

LEMMA PnlPool ==
  ASSUME NEW w, Kept(w), NEW i, NEW amount
  PROVE  Sound(update_perp_market_pnl_pool(w, i, amount))
  BY PoolMoved DEF Sound, update_perp_market_pnl_pool, perp_market_valid

LEMMA VaultDeposit ==
  ASSUME NEW w, Kept(w), NEW i, NEW amount
  PROVE  Sound(deposit_into_spot_market_vault(w, i, amount))
<1> DEFINE k == w.spots[i]
           j == [k EXCEPT !.cdi = interest_for(k, amount)]
           gifted == receive(j, amount)
<1> SUFFICES ASSUME i \in DOMAIN w.spots
             PROVE  Kept([w EXCEPT !.spots[i] = gifted])
  BY DEF Sound, deposit_into_spot_market_vault, spot_market_valid
<1>1. SpotSettled(k)
  BY SpotsSettled
<1>2. SameSpot(k, j)
  BY <1>1 DEF SameSpot, SpotSettled, SpotSettings
<1> HIDE DEF j
<1>3. SameSpot(j, gifted)
  BY <1>1, <1>2, SpotSameSettled, ReceiveSame
<1>4. SameSpot(k, gifted)
  BY <1>2, <1>3, SpotTrans
<1> HIDE DEF gifted
<1> QED BY <1>4, SpotPut

LEMMA AdminDeposits ==
  ASSUME NEW w, Kept(w), NEW i, NEW amount
  PROVE  Sound(admin_deposit(w, i, amount))
<1> DEFINE balance == w.user.bal[i]
           given_to(j) == IF w.spots[i].status = "ReduceOnly" /\ balance.type = "Borrow"
                          THEN atMost(token_amount(balance, j), amount) ELSE amount
           after(j) == {[k |-> receive(r.k, given_to(j)), b |-> r.b] :
                          r \in update_spot_balances(given_to(j), "Deposit", j, balance, FALSE)}
           paid == UNION {after(j) : j \in update_spot_market_cumulative_interest(w.spots[i], w.now)}
<1>0. \A v \in admin_deposit(w, i, amount) :
        i \in DOMAIN w.spots /\ \E x \in paid : v = [w EXCEPT !.spots[i] = x.k, !.user.bal[i] = x.b]
  BY ZenonT(60) DEF admin_deposit
<1> SUFFICES ASSUME i \in DOMAIN w.spots, NEW x \in paid
             PROVE  Kept([w EXCEPT !.spots[i] = x.k, !.user.bal[i] = x.b])
  <2> HIDE DEF paid
  <2>1. ASSUME NEW v \in admin_deposit(w, i, amount)
        PROVE  Kept(v)
    <3>1. PICK x \in paid : v = [w EXCEPT !.spots[i] = x.k, !.user.bal[i] = x.b]
      BY <1>0
    <3>2. Kept([w EXCEPT !.spots[i] = x.k, !.user.bal[i] = x.b])
      BY <1>0
    <3> QED BY <3>1, <3>2
  <2> QED BY <2>1 DEF Sound
<1>1. PICK j \in update_spot_market_cumulative_interest(w.spots[i], w.now) : x \in after(j)
  <2> HIDE DEF after
  <2> QED OBVIOUS
<1>2. PICK r \in update_spot_balances(given_to(j), "Deposit", j, balance, FALSE) :
         x = [k |-> receive(r.k, given_to(j)), b |-> r.b]
  <2> HIDE DEF given_to
  <2> QED BY <1>1
<1>3. SameSpot(w.spots[i], x.k)
  <2> HIDE DEF given_to
  <2>1. SpotSettled(w.spots[i]) /\ SameSpot(w.spots[i], j)
    BY <1>1, SpotsSettled, InterestSame
  <2>2. SpotSettled(j) /\ SameSpot(w.spots[i], r.k)
    BY <1>2, <2>1, SpotSameSettled, BalancesSame, SpotTrans
  <2>3. SameSpot(r.k, x.k)
    BY <1>2, <2>1, <2>2, SpotSameSettled, ReceiveSame
  <2> QED BY <2>2, <2>3, SpotTrans
<1> HIDE DEF paid
<1> DEFINE u == [w EXCEPT !.spots[i] = x.k]
           user == [u.user EXCEPT !.bal[i] = x.b]
<1>4. Kept(u)
  BY <1>3, SpotPut
<1>5. [w EXCEPT !.spots[i] = x.k, !.user.bal[i] = x.b] = [u EXCEPT !.user.bal[i] = x.b]
  OBVIOUS
<1> HIDE DEF u
<1>6. [u EXCEPT !.user.bal[i] = x.b] = [u EXCEPT !.user = user]
  OBVIOUS
<1> HIDE DEF user
<1>7. Kept([u EXCEPT !.user = user])
  BY <1>4, PartSet
<1> QED BY <1>5, <1>6, <1>7

(***************************************************************************)
(* The end of a perp market.                                               *)
(***************************************************************************)
LEMMA FeesToPool ==
  ASSUME NEW w, Kept(w), NEW i \in DOMAIN w.perps, NEW v \in fees_to_pnl_pool(w, i)
  PROVE  Kept(v) /\ i \in DOMAIN v.perps
<1> DEFINE amount == atMost(calculate_fee_pool(w.perps[i]),
                            atLeast(0, token_amount(w.perps[i].fee_pool, w.spots[0]) - fee_reserved_for_protocol(w.perps[i])))
<1>1. PICK u \in pool_moved(w, i, "fee_pool", amount, "Borrow") : v \in pool_moved(u, i, "pnl_pool", amount, "Deposit")
  BY ZenonT(30) DEF fees_to_pnl_pool, Then
<1> HIDE DEF amount
<1>2. Kept(u) /\ DOMAIN u.perps = DOMAIN w.perps
  BY <1>1, PoolMoved
<1>3. Kept(v) /\ DOMAIN v.perps = DOMAIN u.perps
  BY <1>1, <1>2, PoolMoved
<1> QED BY <1>2, <1>3

LEMMA SettleExpired ==
  ASSUME NEW w, Kept(w), NEW i
  PROVE  Sound(settle_expired_market(w, i))
<1> DEFINE tokens(m, k) == token_amount(m.pnl_pool, k) + token_amount(m.fee_pool, k)
           priced(m, k) == [m EXCEPT !.status = "Settlement",
                                     !.expiry_price = calculate_expiry_price(m, target_expiry_price(m), tokens(m, k))]
           markets(v) == {priced(m, v.spots[0]) : m \in raised(v.perps[i], calculate_fee_pool(w.perps[i]))}
<1>1. ASSUME NEW x \in settle_expired_market(w, i)
      PROVE  i \in DOMAIN w.perps /\ \E v \in fees_to_pnl_pool(w, i) : x \in with_perp(v, i, markets(v))
  BY <1>1, ZenonT(30) DEF settle_expired_market, Then
<1>2. ASSUME NEW x \in settle_expired_market(w, i)
      PROVE  Kept(x)
  <2>1. i \in DOMAIN w.perps
    BY <1>1, <1>2
  <2>2. PICK v \in fees_to_pnl_pool(w, i) : x \in with_perp(v, i, markets(v))
    BY <1>1, <1>2
  <2>3. Kept(v) /\ i \in DOMAIN v.perps
    BY <2>1, <2>2, FeesToPool
  <2>4. Settled(v.perps[i])
    BY <2>3, PerpSettled
  <2>5. ASSUME NEW n \in markets(v)
        PROVE  SamePerp(v.perps[i], n)
    <3>1. PICK m \in raised(v.perps[i], calculate_fee_pool(w.perps[i])) : n = priced(m, v.spots[0])
      <4> HIDE DEF priced
      <4> QED OBVIOUS
    <3>2. SamePerp(v.perps[i], m)
      BY <2>4, RaisedSame
    <3>3. ASSUME NEW price
          PROVE  SamePerp(m, [m EXCEPT !.status = "Settlement", !.expiry_price = price])
      BY <2>4, <3>2 DEF SamePerp, Settled, PerpSettings
    <3>4. SamePerp(m, n)
      BY <3>1, <3>3
    <3> QED BY <3>2, <3>4, SameTrans
  <2> HIDE DEF markets
  <2>6. Sound(with_perp(v, i, markets(v)))
    BY <2>3, <2>5, WithPerp
  <2> QED BY <2>2, <2>6 DEF Sound
<1> QED BY <1>2 DEF Sound

LEMMA HandleSettleExpired ==
  ASSUME NEW w, Kept(w), NEW i
  PROVE  Sound(handle_settle_expired_market(w, i))
<1> DEFINE updated == UNION {with_perp(w, i, update_amm(w.perps[i], o)) : o \in oracle_of(w, i)}
<1>1. ASSUME NEW x \in handle_settle_expired_market(w, i)
      PROVE  i \in DOMAIN w.perps /\ \E v \in updated : x \in settle_expired_market(v, i)
  BY <1>1, ZenonT(30) DEF handle_settle_expired_market, Then
<1>2. ASSUME i \in DOMAIN w.perps, NEW v \in updated
      PROVE  Kept(v)
  <2>1. PICK o : v \in with_perp(w, i, update_amm(w.perps[i], o))
    BY <1>2
  <2>2. Settled(w.perps[i])
    BY <1>2, PerpSettled
  <2>3. \A n \in update_amm(w.perps[i], o) : SamePerp(w.perps[i], n)
    BY <2>2, AmmSame
  <2>4. Sound(with_perp(w, i, update_amm(w.perps[i], o)))
    BY <1>2, <2>3, WithPerp
  <2> QED BY <2>1, <2>4 DEF Sound
<1> HIDE DEF updated
<1> QED BY <1>1, <1>2, SettleExpired DEF Sound

LEMMA PoolsToRevenue ==
  ASSUME NEW w, Kept(w), NEW i
  PROVE  Sound(settle_expired_market_pools_to_revenue_pool(w, i))
<1> DEFINE amounts(v) == [fee |-> token_amount(v.perps[i].fee_pool, v.spots[0]),
                          pnl |-> token_amount(v.perps[i].pnl_pool, v.spots[0])]
           emptied(v) == Then(pool_moved(v, i, "fee_pool", amounts(v).fee, "Borrow"),
                              LAMBDA u : pool_moved(u, i, "pnl_pool", amounts(v).pnl, "Borrow"))
           closed(u, amount) == {[u EXCEPT !.spots[0] = k, !.perps[i].status = "Delisted"] :
                                   k \in update_revenue_pool_balances(amount, "Deposit", u.spots[0])}
           paid(v) == Then(emptied(v), LAMBDA u : closed(u, amounts(v).fee + amounts(v).pnl))
           results == Then(quote_with_interest(w), paid)
<1>1. \A x \in settle_expired_market_pools_to_revenue_pool(w, i) : i \in DOMAIN w.perps /\ x \in results
  BY ZenonT(60) DEF settle_expired_market_pools_to_revenue_pool, perp_market_valid
<1>2. ASSUME i \in DOMAIN w.perps, NEW v \in quote_with_interest(w), NEW u \in emptied(v)
      PROVE  Kept(u) /\ i \in DOMAIN u.perps /\ 0 \in DOMAIN u.spots
  <2>1. Kept(v) /\ i \in DOMAIN v.perps
    BY <1>2, QuoteInterest
  <2> DEFINE fee == amounts(v).fee
             pnl == amounts(v).pnl
  <2>2. PICK t \in pool_moved(v, i, "fee_pool", fee, "Borrow") : u \in pool_moved(t, i, "pnl_pool", pnl, "Borrow")
    BY <1>2, ZenonT(30) DEF Then
  <2> HIDE DEF fee, pnl
  <2>3. Kept(t) /\ DOMAIN t.perps = DOMAIN v.perps
    BY <2>1, <2>2, PoolMoved
  <2>4. Kept(u) /\ DOMAIN u.perps = DOMAIN t.perps /\ 0 \in DOMAIN u.spots
    BY <2>1, <2>2, <2>3, PoolMoved
  <2> QED BY <2>1, <2>3, <2>4
<1>3. ASSUME NEW u, Kept(u), i \in DOMAIN u.perps, 0 \in DOMAIN u.spots, NEW amount, NEW x \in closed(u, amount)
      PROVE  Kept(x)
  <2>1. PICK k \in update_revenue_pool_balances(amount, "Deposit", u.spots[0]) :
           x = [u EXCEPT !.spots[0] = k, !.perps[i].status = "Delisted"]
    BY <1>3
  <2>2. SameSpot(u.spots[0], k)
    BY <1>3, <2>1, SpotsSettled, RevenuePoolSame
  <2> DEFINE t == [u EXCEPT !.spots[0] = k]
  <2>3. Kept(t) /\ t.perps = u.perps
    BY <1>3, <2>2, SpotPutDomains
  <2>4. x = [t EXCEPT !.perps[i].status = "Delisted"]
    BY <2>1
  <2> HIDE DEF t
  <2>5. Kept([t EXCEPT !.perps[i].status = "Delisted"])
    BY <1>3, <2>3, PerpFieldSet DEF PerpSettings
  <2> QED BY <2>4, <2>5
<1>4. ASSUME i \in DOMAIN w.perps, NEW x \in results
      PROVE  Kept(x)
  <2>1. PICK v \in quote_with_interest(w) : x \in paid(v)
    <3> HIDE DEF paid
    <3> QED BY <1>4 DEF Then
  <2> DEFINE amount == amounts(v).fee + amounts(v).pnl
  <2>2. PICK u \in emptied(v) : x \in closed(u, amount)
    <3> HIDE DEF emptied, closed, amounts
    <3> QED BY <2>1 DEF Then
  <2> HIDE DEF amount, emptied, closed
  <2> QED BY <1>2, <1>3, <1>4, <2>1, <2>2
<1> HIDE DEF results
<1> QED BY <1>1, <1>4 DEF Sound

(***************************************************************************)
(* Markets made and deleted: the counts follow.                            *)
(***************************************************************************)
LEMMA ExCounted ==
  ASSUME NEW ex, ExKept(ex), NEW n \in Nat
  PROVE  ExKept([ex EXCEPT !.number_of_markets = n]) /\ ExKept([ex EXCEPT !.number_of_spot_markets = n])
<1>1. ASSUME NEW f \in {"number_of_markets", "number_of_spot_markets"}
      PROVE  ExKept([ex EXCEPT ![f] = n])
  <2> DEFINE changed == [ex EXCEPT ![f] = n]
  <2>1. DOMAIN changed = DOMAIN ex /\ changed.opts = ex.opts
    OBVIOUS
  <2>2. {changed.number_of_markets, changed.number_of_spot_markets} \subseteq Nat
    BY DEF ExKept
  <2> HIDE DEF changed
  <2>3. ExKept(changed)
    BY <2>1, <2>2 DEF ExKept
  <2> QED BY <2>3 DEF changed
<1> QED BY <1>1

LEMMA Without ==
  ASSUME NEW f, NEW i
  PROVE  /\ DOMAIN without(f, i) = DOMAIN f \ {i}
         /\ \A j \in DOMAIN f \ {i} : without(f, i)[j] = f[j]
  BY DEF without

LEMMA SpotsReplaced ==
  ASSUME NEW w, Kept(w), NEW n \in Nat, NEW spots, DOMAIN spots = 0..n - 1, \A j \in DOMAIN spots : SpotKept(spots[j])
  PROVE  Kept([w EXCEPT !.ex.number_of_spot_markets = n, !.spots = spots])
<1> DEFINE v == [w EXCEPT !.ex.number_of_spot_markets = n, !.spots = spots]
           ex == [w.ex EXCEPT !.number_of_spot_markets = n]
<1>1. DOMAIN v = WorldFields /\ v.ex = ex /\ v.spots = spots /\ v.perps = w.perps /\ v.single = w.single /\ v.pre = w.pre
  BY DEF Kept, WorldFields
<1>2. ExKept(ex) /\ ex.number_of_spot_markets = n /\ ex.number_of_markets = w.ex.number_of_markets
  BY ExCounted DEF Kept, ExKept
<1> HIDE DEF v, ex
<1>3. MarketsCounted(v) /\ OracleInUse(v)
  BY <1>1, <1>2 DEF Kept, MarketsCounted, OracleInUse
<1>4. Kept(v)
  BY <1>1, <1>2, <1>3 DEF Kept
<1> QED BY <1>4 DEF v

LEMMA PerpsReplaced ==
  ASSUME NEW w, Kept(w), NEW n \in Nat, NEW perps, DOMAIN perps = 0..n - 1, \A j \in DOMAIN perps : PerpKept(perps[j]),
         \A j \in DOMAIN perps : perps[j].oracle = Prelaunch(j) => j \in DOMAIN w.pre
  PROVE  Kept([w EXCEPT !.ex.number_of_markets = n, !.perps = perps])
<1> DEFINE v == [w EXCEPT !.ex.number_of_markets = n, !.perps = perps]
           ex == [w.ex EXCEPT !.number_of_markets = n]
<1>1. DOMAIN v = WorldFields /\ v.ex = ex /\ v.perps = perps /\ v.spots = w.spots /\ v.single = w.single /\ v.pre = w.pre
  BY DEF Kept, WorldFields
<1>2. ExKept(ex) /\ ex.number_of_markets = n /\ ex.number_of_spot_markets = w.ex.number_of_spot_markets
  BY ExCounted DEF Kept, ExKept
<1> HIDE DEF v, ex
<1>3. MarketsCounted(v) /\ OracleInUse(v)
  BY <1>1, <1>2 DEF Kept, MarketsCounted, OracleInUse
<1>4. Kept(v)
  BY <1>1, <1>2, <1>3 DEF Kept
<1> QED BY <1>4 DEF v

LEMMA NewSpotKept ==
  ASSUME NEW w, NEW a \in NewSpots, NEW i,
         validate_borrow_rate(a.optimal, a.optimal_rate, a.max_rate, 0),
         validate_margin_weights(i, a.iaw, a.maw, a.ilw, a.mlw, a.imf)
  PROVE  SpotKept(new_spot(w, a, i))
<1> DEFINE k == new_spot(w, a, i)
<1>1. SpotSettings \subseteq DOMAIN k
  BY DEF new_spot, SpotSettings
<1>2. /\ k.iaw = a.iaw /\ k.maw = a.maw /\ k.ilw = a.ilw /\ k.mlw = a.mlw
      /\ k.min_rate = 0 /\ k.optimal_rate = a.optimal_rate /\ k.max_rate = a.max_rate
      /\ k.factor = a.factor /\ k.user_factor = a.factor \div 2
  BY DEF new_spot
<1> HIDE DEF k
<1>3. k.iaw <= k.maw /\ k.maw <= Weight /\ k.ilw >= k.mlw /\ k.mlw >= Weight
  BY <1>2 DEF validate_margin_weights
<1>4. {a.optimal_rate, a.factor} \subseteq Nat
  BY ArgumentsAssumption
<1>5. k.min_rate <= k.optimal_rate /\ k.optimal_rate <= k.max_rate
  BY <1>2, <1>4 DEF validate_borrow_rate
<1>6. k.user_factor <= k.factor
  BY <1>2, <1>4
<1>7. SpotKept(k)
  BY <1>1, <1>3, <1>5, <1>6 DEF SpotKept
<1> QED BY <1>7 DEF k

LEMMA MakeSpot ==
  ASSUME NEW w, Kept(w), NEW s, NEW a \in NewSpots
  PROVE  Sound(initialize_spot_market(w, s, a))
<1> DEFINE i == w.ex.number_of_spot_markets
           k == new_spot(w, a, i)
           spots == extended(w.spots, i, k)
           v == [w EXCEPT !.ex.number_of_spot_markets = i + 1, !.spots = spots]
<1>1. \A x \in initialize_spot_market(w, s, a) :
        /\ x = [w EXCEPT !.ex.number_of_spot_markets = i + 1, !.spots = extended(@, i, k)]
        /\ validate_borrow_rate(a.optimal, a.optimal_rate, a.max_rate, 0)
        /\ validate_margin_weights(i, a.iaw, a.maw, a.ilw, a.mlw, a.imf)
  BY ZenonT(30) DEF initialize_spot_market
<1>2. [w EXCEPT !.ex.number_of_spot_markets = i + 1, !.spots = extended(@, i, k)] = v
  OBVIOUS
<1>3. i \in Nat /\ DOMAIN w.spots = 0..i - 1
  BY DEF Kept, ExKept, MarketsCounted
<1>4. ASSUME SpotKept(k)
      PROVE  Kept(v)
  <2>1. /\ DOMAIN spots = DOMAIN w.spots \union {i}
        /\ \A j \in DOMAIN w.spots \union {i} : spots[j] = IF j = i THEN k ELSE w.spots[j]
    <3> HIDE DEF k, i
    <3> QED BY DEF extended
  <2> HIDE DEF spots, k, i
  <2>2. i + 1 \in Nat /\ DOMAIN spots = 0..(i + 1) - 1
    BY <1>3, <2>1
  <2>3. \A j \in DOMAIN spots : SpotKept(spots[j])
    BY <1>4, <2>1 DEF Kept
  <2> QED BY <2>2, <2>3, SpotsReplaced
<1> HIDE DEF v
<1> QED BY <1>1, <1>2, <1>4, NewSpotKept DEF Sound

LEMMA DeleteSpot ==
  ASSUME NEW w, Kept(w), NEW i
  PROVE  Sound(delete_initialized_spot_market(w, i))
<1> DEFINE n == w.ex.number_of_spot_markets
           spots == without(w.spots, i)
           v == [w EXCEPT !.ex.number_of_spot_markets = n - 1, !.spots = spots]
<1>1. \A x \in delete_initialized_spot_market(w, i) :
        /\ x = [w EXCEPT !.ex.number_of_spot_markets = @ - 1, !.spots = without(@, i)]
        /\ i \in DOMAIN w.spots /\ i = n - 1
  BY ZenonT(30) DEF delete_initialized_spot_market
<1>2. [w EXCEPT !.ex.number_of_spot_markets = @ - 1, !.spots = without(@, i)] = v
  OBVIOUS
<1>3. n \in Nat /\ DOMAIN w.spots = 0..n - 1
  BY DEF Kept, ExKept, MarketsCounted
<1>4. ASSUME i \in DOMAIN w.spots, i = n - 1
      PROVE  Kept(v)
  <2>1. DOMAIN spots = DOMAIN w.spots \ {i} /\ \A j \in DOMAIN w.spots \ {i} : spots[j] = w.spots[j]
    BY Without
  <2> HIDE DEF spots, n
  <2>2. n - 1 \in Nat /\ DOMAIN spots = 0..(n - 1) - 1
    BY <1>3, <1>4, <2>1
  <2>3. \A j \in DOMAIN spots : SpotKept(spots[j])
    BY <2>1 DEF Kept
  <2> QED BY <2>2, <2>3, SpotsReplaced
<1> HIDE DEF v
<1> QED BY <1>1, <1>2, <1>4 DEF Sound

LEMMA NewPerpKept ==
  ASSUME NEW w, NEW a \in NewPerps, NEW p, validate_margin(a.init, a.maint, 0, 0, a.liq_fee, a.max_spread)
  PROVE  PerpKept(new_perp(w, a, p)) /\ new_perp(w, a, p).oracle = a.oracle
<1> DEFINE m == new_perp(w, a, p)
<1>1. PerpSettings \subseteq DOMAIN m
  BY DEF new_perp, PerpSettings
<1>2. /\ m.init = a.init /\ m.maint = a.maint /\ m.liq_fee = a.liq_fee /\ m.max_spread = a.max_spread
      /\ m.hl_init = 0 /\ m.quote_settled = 0 /\ m.quote_max = a.quote_max /\ m.type = "Perpetual"
      /\ m.mm_price = 0 /\ m.mm_seq = 0 /\ m.oracle = a.oracle
  BY DEF new_perp
<1> HIDE DEF m
<1>3. {a.max_spread, a.quote_max} \subseteq Nat
  BY ArgumentsAssumption
<1>4. PerpKept(m)
  BY <1>1, <1>2, <1>3, MarketsAssumption, CurveAssumption DEF PerpKept, validate_margin
<1> QED BY <1>2, <1>4 DEF m

LEMMA MakePerp ==
  ASSUME NEW w, Kept(w), NEW s, NEW a \in NewPerps, NEW i
  PROVE  Sound(initialize_perp_market(w, s, a, i))
<1> DEFINE made == UNION {update_concentration_coef(new_perp(w, a, p), a.scale) : p \in initial_oracle_prices(w, a)}
           v(m) == [w EXCEPT !.ex.number_of_markets = i + 1, !.perps = extended(w.perps, i, m)]
<1>1. \A x \in initialize_perp_market(w, s, a, i) : perp_market_allowed(w, s, a, i) /\ \E m \in made : x = v(m)
  BY ZenonT(30) DEF initialize_perp_market
<1>2. i = w.ex.number_of_markets => i \in Nat /\ DOMAIN w.perps = 0..i - 1
  BY DEF Kept, ExKept, MarketsCounted
<1>3. ASSUME perp_market_allowed(w, s, a, i), NEW m \in made
      PROVE  PerpKept(m) /\ (m.oracle = Prelaunch(i) => i \in DOMAIN w.pre)
  <2>1. PICK p \in initial_oracle_prices(w, a) : m \in update_concentration_coef(new_perp(w, a, p), a.scale)
    OBVIOUS
  <2>2. PerpKept(new_perp(w, a, p)) /\ new_perp(w, a, p).oracle = a.oracle
    BY <1>3, NewPerpKept DEF perp_market_allowed
  <2>3. SamePerp(new_perp(w, a, p), m)
    BY <2>1, <2>2, ConcentrationSame DEF PerpKept, Settled
  <2>4. PerpKept(m) /\ m.oracle = a.oracle
    BY <2>2, <2>3, SamePerpKept
  <2>5. p \in get_oracle_price(w, a.oracle)
    BY DEF initial_oracle_prices
  <2> QED BY <2>4, <2>5, PricedOracle
<1> HIDE DEF made
<1>4. ASSUME perp_market_allowed(w, s, a, i), NEW m \in made
      PROVE  Kept(v(m))
  <2> DEFINE perps == extended(w.perps, i, m)
  <2>0. i \in Nat /\ DOMAIN w.perps = 0..i - 1
    BY <1>2, <1>4 DEF perp_market_allowed
  <2>1. /\ DOMAIN perps = DOMAIN w.perps \union {i}
        /\ \A j \in DOMAIN w.perps \union {i} : perps[j] = IF j = i THEN m ELSE w.perps[j]
    BY DEF extended
  <2> HIDE DEF perps
  <2>2. i + 1 \in Nat /\ DOMAIN perps = 0..(i + 1) - 1
    BY <2>0, <2>1
  <2>3. \A j \in DOMAIN perps : PerpKept(perps[j])
    BY <1>3, <1>4, <2>1 DEF Kept
  <2>4. \A j \in DOMAIN perps : perps[j].oracle = Prelaunch(j) => j \in DOMAIN w.pre
    BY <1>3, <1>4, <2>1 DEF Kept, OracleInUse
  <2>5. Kept([w EXCEPT !.ex.number_of_markets = i + 1, !.perps = perps])
    BY <2>2, <2>3, <2>4, PerpsReplaced
  <2> QED BY <2>5 DEF perps
<1> HIDE DEF v
<1> QED BY <1>1, <1>4 DEF Sound

LEMMA DeletePerp ==
  ASSUME NEW w, Kept(w), NEW i
  PROVE  Sound(delete_initialized_perp_market(w, i))
<1> DEFINE n == w.ex.number_of_markets
           perps == without(w.perps, i)
           v == [w EXCEPT !.ex.number_of_markets = n - 1, !.perps = perps]
<1>1. \A x \in delete_initialized_perp_market(w, i) :
        /\ x = [w EXCEPT !.ex.number_of_markets = @ - 1, !.perps = without(@, i)]
        /\ i \in DOMAIN w.perps /\ i = n - 1
  BY ZenonT(30) DEF delete_initialized_perp_market
<1>2. [w EXCEPT !.ex.number_of_markets = @ - 1, !.perps = without(@, i)] = v
  OBVIOUS
<1>3. n \in Nat /\ DOMAIN w.perps = 0..n - 1
  BY DEF Kept, ExKept, MarketsCounted
<1>4. ASSUME i \in DOMAIN w.perps, i = n - 1
      PROVE  Kept(v)
  <2>1. DOMAIN perps = DOMAIN w.perps \ {i} /\ \A j \in DOMAIN w.perps \ {i} : perps[j] = w.perps[j]
    BY Without
  <2> HIDE DEF perps, n
  <2>2. n - 1 \in Nat /\ DOMAIN perps = 0..(n - 1) - 1
    BY <1>3, <1>4, <2>1
  <2>3. \A j \in DOMAIN perps : PerpKept(perps[j])
    BY <2>1 DEF Kept
  <2>4. \A j \in DOMAIN perps : perps[j].oracle = Prelaunch(j) => j \in DOMAIN w.pre
    BY <2>1 DEF Kept, OracleInUse
  <2> QED BY <2>2, <2>3, <2>4, PerpsReplaced
<1> HIDE DEF v
<1> QED BY <1>1, <1>2, <1>4 DEF Sound

(***************************************************************************)
(* The cache and the fulfillment configs.                                  *)
(***************************************************************************)
LEMMA CacheHandlers ==
  ASSUME NEW w, Kept(w), NEW i
  PROVE  Sound(initialize_amm_cache(w)) /\ Sound(add_market_to_amm_cache(w, i)) /\ Sound(delete_amm_cache(w))
<1>1. \A x : Kept([w EXCEPT !.cache = x])
  BY PartSet
<1>2. \A has : [w EXCEPT !.cache.has = has] = [w EXCEPT !.cache = [w.cache EXCEPT !.has = has]]
  OBVIOUS
<1>3. Sound(initialize_amm_cache(w)) /\ Sound(delete_amm_cache(w))
  BY <1>1 DEF Sound, initialize_amm_cache, delete_amm_cache
<1>4. Kept([w EXCEPT !.cache.has = extended(w.cache.has, i, QuoteOracle)])
  BY <1>1, <1>2
<1>5. [w EXCEPT !.cache.has = extended(@, i, QuoteOracle)] = [w EXCEPT !.cache.has = extended(w.cache.has, i, QuoteOracle)]
  OBVIOUS
<1>6. Sound(add_market_to_amm_cache(w, i))
  BY <1>4, <1>5 DEF Sound, add_market_to_amm_cache
<1> QED BY <1>3, <1>6

LEMMA FulfillmentHandlers ==
  ASSUME NEW w, Kept(w), NEW i, NEW lot, NEW tick, NEW c, NEW status
  PROVE  /\ Sound(initialize_serum_fulfillment_config(w, i, lot, tick))
         /\ Sound(initialize_openbook_v2_fulfillment_config(w, i, lot, tick))
         /\ Sound(initialize_phoenix_fulfillment_config(w, i, lot))
         /\ Sound(update_serum_fulfillment_config_status(w, c, status))
         /\ Sound(update_openbook_v2_fulfillment_config_status(w, c, status))
         /\ Sound(update_phoenix_fulfillment_config_status(w, c, status))
         /\ Sound(delete_serum_fulfillment_config(w, c)) /\ Sound(delete_openbook_v2_fulfillment_config(w, c))
<1>0. Sound({})
  BY DEF Sound
<1>1. ASSUME NEW x PROVE Sound({[w EXCEPT !.fulfil = x]})
  BY PartSet DEF Sound
<1>2. \A kind : Sound(with_config(w, kind, i))
  BY <1>1 DEF with_config
<1>3. Sound(config_status(w, c, status))
  BY <1>1 DEF config_status
<1>4. Sound({[w EXCEPT !.fulfil = @ \ {c}]})
  BY <1>1
<1>5. /\ Sound(initialize_serum_fulfillment_config(w, i, lot, tick))
      /\ Sound(initialize_openbook_v2_fulfillment_config(w, i, lot, tick))
      /\ Sound(initialize_phoenix_fulfillment_config(w, i, lot))
  BY <1>0, <1>2 DEF initialize_serum_fulfillment_config, initialize_openbook_v2_fulfillment_config,
     initialize_phoenix_fulfillment_config
<1>6. /\ Sound(update_serum_fulfillment_config_status(w, c, status))
      /\ Sound(update_openbook_v2_fulfillment_config_status(w, c, status))
      /\ Sound(update_phoenix_fulfillment_config_status(w, c, status))
  BY <1>0, <1>3 DEF update_serum_fulfillment_config_status, update_openbook_v2_fulfillment_config_status,
     update_phoenix_fulfillment_config_status
<1>7. Sound(delete_serum_fulfillment_config(w, c)) /\ Sound(delete_openbook_v2_fulfillment_config(w, c))
  BY <1>0, <1>4 DEF delete_serum_fulfillment_config, delete_openbook_v2_fulfillment_config
<1> QED BY <1>5, <1>6, <1>7

(***************************************************************************)
(* The actions.                                                            *)
(***************************************************************************)
LEMMA MakeMarketsKept ==
  ASSUME NEW s, Kept(world), MakeMarkets(s)
  PROVE  Kept(world')
<1>1. CASE \E a \in NewSpots : Does(s, InitializeSpotMarket(world), 1, initialize_spot_market(world, s, a))
  BY <1>1, DoesKept, MakeSpot
<1>2. CASE \E a \in NewPerps, i \in 0..2 : Does(s, InitializePerpMarket(world), 1, initialize_perp_market(world, s, a, i))
  BY <1>2, DoesKept, MakePerp
<1>3. CASE \E i \in Spots : Does(s, DeleteInitializedSpotMarket(world), 1, delete_initialized_spot_market(world, i))
  BY <1>3, DoesKept, DeleteSpot
<1>4. CASE \E i \in Perps : Does(s, DeleteInitializedPerpMarket(world), 1, delete_initialized_perp_market(world, i))
  BY <1>4, DoesKept, DeletePerp
<1>5. CASE \E i \in Perps : Does(s, AdminUpdatePerpMarket(world), 1, initialize_prediction_market(world, i))
  BY <1>5, DoesKept, PerpPrediction
<1>6. CASE \/ Does(s, InitializeAmmCache(world), 1, initialize_amm_cache(world))
           \/ \E i \in Perps : Does(s, AddMarketToAmmCache(world), 1, add_market_to_amm_cache(world, i))
           \/ Does(s, DeleteAmmCache(world), 1, delete_amm_cache(world))
  BY <1>6, DoesKept, CacheHandlers
<1> QED BY <1>1, <1>2, <1>3, <1>4, <1>5, <1>6 DEF MakeMarkets

LEMMA FulfillmentKept ==
  ASSUME NEW s, Kept(world), Fulfillment(s)
  PROVE  Kept(world')
  BY DoesKept, FulfillmentHandlers DEF Fulfillment

LEMMA MoveCurveKept ==
  ASSUME NEW s, Kept(world), MoveCurve(s)
  PROVE  Kept(world')
<1>1. PICK i \in Perps : MoveCurve(s)!(i)
  BY DEF MoveCurve
<1> QED BY <1>1, DoesKept, CurveHandlers

LEMMA MoveMoneyKept ==
  ASSUME NEW s, Kept(world), MoveMoney(s)
  PROVE  Kept(world')
  BY DoesKept, FeePoolDeposit, PnlPool, VaultDeposit, AdminDeposits DEF MoveMoney

LEMMA ExpireKept ==
  ASSUME NEW s, Kept(world), Expire(s)
  PROVE  Kept(world')
  BY DoesKept, PerpExpiry, SpotExpiry, HandleSettleExpired, PoolsToRevenue, ExFields DEF Expire

LEMMA SetOraclesKept ==
  ASSUME NEW s, Kept(world), SetOracles(s)
  PROVE  Kept(world')
  BY DoesKept, SpotOracle, PerpOracle, PrelaunchOracles, OracleTwap, PerpField, PerpZeroMm DEF SetOracles

LEMMA CranksKept ==
  ASSUME Kept(world), Cranks
  PROVE  Kept(world')
<1>1. \A seq \in 1..2 : seq \in Nat \ {0}
  OBVIOUS
<1> QED BY <1>1, DoesKept, PerpMmOracle, PerpField DEF Cranks

LEMMA SetMarginsKept ==
  ASSUME NEW s, Kept(world), SetMargins(s)
  PROVE  Kept(world')
<1>1. \A spread \in Tried.spreads : spread \in Nat
  BY ArgumentsAssumption
<1> QED BY <1>1, DoesKept, PerpMarginRatio, PerpHighLeverage, PerpLiquidationFee, PerpBaseSpread, PerpMaxSpread,
           PerpMaxImbalances, PerpField, PerpPaused, PerpUsers DEF SetMargins

LEMMA SetPerpsKept ==
  ASSUME NEW s, Kept(world), SetPerps(s)
  PROVE  Kept(world')
<1> DEFINE plain(i, v) ==
             {update_perp_market_imf_factor(world, i, v), update_perp_market_unrealized_asset_weight(world, i, v, Weight),
              update_perp_market_step_size_and_tick_size(world, i, v + 1, v + 1),
              update_perp_market_max_open_interest(world, i, v), update_perp_market_funding_period(world, i, v),
              update_perp_market_name(world, i, v), update_perp_lp_pool_id(world, i, v),
              update_perp_market_min_order_size(world, i, v), update_perp_market_max_slippage_ratio(world, i, v),
              update_perp_market_max_fill_reserve_fraction(world, i, v), update_perp_market_fee_adjustment(world, i, v),
              update_perp_market_protected_maker_params(world, i, v),
              update_perp_market_lp_pool_paused_operations(world, i, v)}
           hot(i, v) ==
             {update_perp_market_curve_update_intensity(world, i, v),
              update_perp_market_reference_price_offset_deadband_pct(world, i, v), update_amm_jit_intensity(world, i, v),
              update_perp_market_fuel(world, i, v), update_perp_market_oracle_low_risk_slot_delay_override(world, i, v),
              update_perp_market_amm_spread_adjustment(world, i, v),
              update_perp_market_oracle_slot_delay_override(world, i, v)}
<1>1. PICK i, v : \/ Does(s, AdminUpdatePerpMarket(world), 2, UNION plain(i, v))
                  \/ Does(s, HotAdminUpdatePerpMarket(world), 2, UNION hot(i, v))
  BY DEF SetPerps
<1>2. Sound(UNION plain(i, v))
  <2>1. \A worlds \in plain(i, v) : Sound(worlds)
    BY PerpField, PerpOpts, PerpStepSize
  <2> HIDE DEF plain
  <2> QED BY <2>1, SoundUnion
<1>3. Sound(UNION hot(i, v))
  <2>1. \A worlds \in hot(i, v) : Sound(worlds)
    BY PerpField, PerpOpts
  <2> HIDE DEF hot
  <2> QED BY <2>1, SoundUnion
<1> HIDE DEF plain, hot
<1> QED BY <1>1, <1>2, <1>3, DoesKept

LEMMA SetSpotsKept ==
  ASSUME NEW s, Kept(world), SetSpots(s)
  PROVE  Kept(world')
<1> DEFINE plain(i, v) ==
             {update_withdraw_guard_threshold(world, i, v), update_spot_market_step_size_and_tick_size(world, i, v, v),
              update_spot_market_min_order_size(world, i, v), update_spot_market_orders_enabled(world, i, v),
              update_spot_market_paused_operations(world, i, {"Deposit"}), update_spot_market_name(world, i, v),
              update_insurance_fund_unstaking_period(world, i, v),
              update_spot_market_revenue_settle_period(world, i, v),
              update_spot_market_scale_initial_asset_weight_start(world, i, v),
              update_spot_market_if_paused_operations(world, i, v), update_spot_market_fee_adjustment(world, i, v)}
<1>1. \A i, v : Sound(UNION plain(i, v))
  <2>1. ASSUME NEW i, NEW v PROVE \A worlds \in plain(i, v) : Sound(worlds)
    BY SpotField, SpotOpts, SpotStepSize
  <2> HIDE DEF plain
  <2> QED BY <2>1, SoundUnion
<1>2. \A rate \in Tried.rates : rate \in Nat
  BY ArgumentsAssumption
<1> HIDE DEF plain
<1> QED BY <1>1, <1>2, DoesKept, SpotMarginWeights, SpotField, SpotLiquidationFee, SpotIfFactor, SpotBorrowRate,
           SpotMaxDeposits, SpotMaxBorrows, SpotOpt DEF SetSpots, plain

LEMMA SetExchangeKept ==
  ASSUME NEW s, Kept(world), SetExchange(s)
  PROVE  Kept(world')
<1> DEFINE plain(v) ==
             {update_initial_pct_to_liquidate(world, v), update_liquidation_duration(world, v),
              update_liquidation_margin_buffer_ratio(world, v), update_oracle_guard_rails(world, v),
              update_state_max_number_of_sub_accounts(world, v), update_state_max_initialize_user_fee(world, v),
              update_whitelist_mint(world, v), update_discount_mint(world, v), update_exchange_status(world, v),
              update_perp_auction_duration(world, v), update_spot_auction_duration(world, v)}
           flags(on) ==
             {update_feature_bit_flags_mm_oracle(world, s, on), update_feature_bit_flags_median_trigger_price(world, s, on),
              update_feature_bit_flags_builder_codes(world, s, on), update_feature_bit_flags_builder_referral(world, s, on),
              update_feature_bit_flags_settle_lp_pool(world, s, on), update_feature_bit_flags_swap_lp_pool(world, s, on),
              update_feature_bit_flags_mint_redeem_lp_pool(world, s, on)}
<1>1. ASSUME NEW v PROVE Sound(UNION plain(v))
  <2>1. \A worlds \in plain(v) : Sound(worlds)
    BY ExOpts, ExFields
  <2> HIDE DEF plain
  <2> QED BY <2>1, SoundUnion
<1>2. ASSUME NEW on PROVE Sound(UNION flags(on))
  <2>1. \A worlds \in flags(on) : Sound(worlds)
    BY Features
  <2> HIDE DEF flags
  <2> QED BY <2>1, SoundUnion
<1>3. CASE \E v \in Tried.values : Does(s, AdminUpdateState(world), 2, UNION plain(v))
  <2> HIDE DEF plain
  <2> QED BY <1>1, <1>3, DoesKept
<1>4. CASE \E v \in Tried.values : Does(s, UpdateSerumVault(world), 2, update_serum_vault(world, v))
  BY <1>4, DoesKept, ExOpts
<1>5. CASE \E v \in Tried.values : Does(s, AdminDisableBidAskTwapUpdate(world), 2, admin_update_user_stats_paused_operations(world, v))
  BY <1>5, DoesKept, UserParts
<1>6. CASE \E v \in Tried.values : Does(s, InitPythLazerOracle(world), 2, initialize_pyth_lazer_oracle(world, v))
  BY <1>6, DoesKept, ExOpts
<1>7. CASE \E v \in Tried.adjustments : Does(s, InitUserFuel(world), 2, init_user_fuel(world, v))
  BY <1>7, DoesKept, UserParts
<1>8. CASE \E a \in Admins : Does(s, AdminUpdateState(world), 1, update_admin(world, a))
  BY <1>8, DoesKept, ExFields
<1>9. CASE \E t \in FeeTiers : \/ Does(s, AdminUpdateState(world), 2, update_perp_fee_structure(world, t))
                               \/ Does(s, AdminUpdateState(world), 2, update_spot_fee_structure(world, t))
  BY <1>9, DoesKept, FeeStructures
<1>10. CASE \E on \in BOOLEAN : Does(s, HotAdminUpdateState(world), 1, UNION flags(on))
  <2> HIDE DEF flags
  <2> QED BY <1>2, <1>10, DoesKept
<1> QED BY <1>3, <1>4, <1>5, <1>6, <1>7, <1>8, <1>9, <1>10 DEF SetExchange

LEMMA SetConfigsKept ==
  ASSUME NEW s, Kept(world), SetConfigs(s)
  PROVE  Kept(world')
<1>1. \A max \in Tried.users : max \in Nat
  BY ArgumentsAssumption
<1> QED BY <1>1, DoesKept, SingleConfigs DEF SetConfigs

LEMMA NextKept ==
  ASSUME Kept(world), [Next]_vars
  PROVE  Kept(world')
<1>1. ASSUME NEW s, \/ MakeMarkets(s) \/ Fulfillment(s) \/ MoveCurve(s) \/ MoveMoney(s) \/ Expire(s) \/ SetOracles(s)
                    \/ SetMargins(s) \/ SetPerps(s) \/ SetSpots(s) \/ SetExchange(s) \/ SetConfigs(s)
      PROVE  Kept(world')
  BY <1>1, MakeMarketsKept, FulfillmentKept, MoveCurveKept, MoveMoneyKept, ExpireKept, SetOraclesKept,
     SetMarginsKept, SetPerpsKept, SetSpotsKept, SetExchangeKept, SetConfigsKept
<1>2. CASE Tick
  <2>1. world' = [world EXCEPT !.now = world.now + 1]
    BY <1>2 DEF Tick
  <2> QED BY <2>1, PartSet
<1>3. CASE UNCHANGED vars
  BY <1>3 DEF vars
<1> QED BY <1>1, <1>2, <1>3, CranksKept DEF Next

\* However an admin and the hot wallet interleave the calls of the administration,
\* the markets stay counted and the settings that several handlers write never
\* contradict each other (instructions/admin.rs, validation/margin.rs,
\* validation/fee_structure.rs).
LEMMA RulesKept == Spec => [](Whole(world) /\ MarketsCounted(world) /\ SettingsHold(world))
<1>1. Init => Kept(world)
  BY OpeningsAssumption, KeptIsRules DEF Init
<1>2. Kept(world) /\ [Next]_vars => Kept(world')
  BY NextKept
<1>3. Kept(world) => Whole(world) /\ MarketsCounted(world) /\ SettingsHold(world)
  BY KeptIsRules
<1> DEFINE IInv == Kept(world)
<1>4. IInv /\ [Next]_vars => IInv'
  BY <1>2
<1>5. Init => IInv
  BY <1>1
<1>6. IInv => Whole(world) /\ MarketsCounted(world) /\ SettingsHold(world)
  BY <1>3
<1> HIDE DEF IInv
<1> QED BY <1>4, <1>5, <1>6, PTL DEF Spec

\* Margins, weights, rates, fees, market maker prices and oracles agree after any
\* sequence of an admin's calls (the setters of instructions/admin.rs).
THEOREM SettingsAlwaysSound == Spec => []SettingsSound
<1>1. Whole(world) /\ MarketsCounted(world) /\ SettingsHold(world) => SettingsSound
  BY DEF SettingsSound
<1> QED BY <1>1, RulesKept, PTL
=============================================================================
