----------------------------- MODULE DynamicFee -----------------------------
(***************************************************************************)
(* The volatility of a pool of programs/amm and the fee it adds.           *)
(*                                                                         *)
(* Ticks are grouped by the tick spacing.  The accumulator is the number   *)
(* of groups between the price and a reference, on top of what is left of  *)
(* earlier volatility; the reference stays while swaps follow each other,  *)
(* then moves to the price with part of the volatility, and after a while  *)
(* with none of it.  In place of the time of the last move DynamicFeeInfo  *)
(* has here the time since, which stops counting at decay_period.          *)
(***************************************************************************)
EXTENDS FullMath

CONSTANTS
  TickSpacing,
  VolatilityScale,    \* VOLATILITY_ACCUMULATOR_SCALE
  ReductionDenom,     \* REDUCTION_FACTOR_DENOMINATOR
  ControlDenom,       \* DYNAMIC_FEE_CONTROL_DENOMINATOR
  MaxFeeRate,         \* MAX_FEE_RATE_NUMERATOR
  U32Max,
  FeeConfig           \* the DynamicFeeConfig of the pool, or NoFeeConfig

NoFeeConfig == [enabled |-> FALSE]

validate_params(c) ==
  /\ c.filter_period > 0 /\ c.decay_period > c.filter_period
  /\ c.reduction_factor > 0 /\ c.reduction_factor < ReductionDenom
  /\ c.dynamic_fee_control > 0 /\ c.dynamic_fee_control < ControlDenom
  /\ c.max_volatility_accumulator * TickSpacing <= U32Max

ASSUME FeeAssumption ==
  /\ TickSpacing \in Nat \ {0} /\ VolatilityScale \in Nat \ {0}
  /\ MaxFeeRate \in Nat /\ U32Max \in Nat
  /\ FeeConfig.enabled => /\ validate_params(FeeConfig)
                          /\ FeeConfig.max_volatility_accumulator \in Nat

\* Rounded down below zero too.
tick_spacing_index_from_tick(t) == t \div TickSpacing

\* initialize_dynamic_fee_info; a pool is created long after time 0.
initialize_dynamic_fee_info(init_tick) ==
  IF ~FeeConfig.enabled THEN NoFeeConfig
  ELSE [tick_spacing_index_reference |-> tick_spacing_index_from_tick(init_tick),
        volatility_reference |-> 0, volatility_accumulator |-> 0,
        age |-> FeeConfig.decay_period]

volatility_at(info, index) ==
  LET delta == info.tick_spacing_index_reference - index
  IN least(info.volatility_reference + (IF delta < 0 THEN -delta ELSE delta) * VolatilityScale,
           FeeConfig.max_volatility_accumulator)

update_volatility_accumulator(info, index) ==
  IF ~FeeConfig.enabled THEN info
  ELSE [info EXCEPT !.volatility_accumulator = volatility_at(info, index)]

at_max_volatility(info) ==
  info.volatility_accumulator = FeeConfig.max_volatility_accumulator

\* What the reference keeps of the volatility when it moves after so much time.
volatility_kept(info, since) ==
  IF since < FeeConfig.decay_period
  THEN mul_div_floor(info.volatility_accumulator, FeeConfig.reduction_factor, ReductionDenom)
  ELSE 0

moved_reference(info, index, since) ==
  IF since < FeeConfig.filter_period THEN [info EXCEPT !.age = since]
  ELSE [info EXCEPT !.tick_spacing_index_reference = index,
                    !.volatility_reference = volatility_kept(info, since),
                    !.age = 0]

update_reference(info, index, elapsed) ==
  IF ~FeeConfig.enabled THEN info
  ELSE moved_reference(info, index, least(info.age + elapsed, FeeConfig.decay_period))

compute_dynamic_fee_rate(info) ==
  LET crossed == info.volatility_accumulator * TickSpacing
  IN least(mul_div_ceil(FeeConfig.dynamic_fee_control, crossed * crossed,
                        ControlDenom * VolatilityScale * VolatilityScale),
           MaxFeeRate)

get_total_fee_rate(base_fee_rate, info) ==
  IF ~FeeConfig.enabled THEN base_fee_rate
  ELSE least(base_fee_rate + compute_dynamic_fee_rate(info), MaxFeeRate)
=============================================================================
