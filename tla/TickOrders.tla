----------------------------- MODULE TickOrders -----------------------------
(***************************************************************************)
(* What a swap does to the limit orders at one tick: the limit-order part  *)
(* of TickState (programs/amm/src/states/tick_array.rs) as pure operators. *)
(* LimitOrder follows the orders of one tick through their whole life;     *)
(* Pool meets the orders of several ticks in the course of a swap.         *)
(***************************************************************************)
EXTENDS FullMath

CONSTANTS
  Q64,          \* the fixed-point unit 2^64 of ratios and prices
  PriceLo,      \* get_price_at_tick(tick, FALSE)
  PriceHi,      \* get_price_at_tick(tick, TRUE)
  U64Max,       \* the largest amount
  PhaseMax,     \* u64::MAX for order_phase, at which it saturates
  FeeDenom      \* FEE_RATE_DENOMINATOR_VALUE

\* order_phase.saturating_add(n)
phase_after(p, n) == IF p + n >= PhaseMax THEN PhaseMax ELSE p + n

\* What `amount_in` of one token buys at the tick, rounded down.
get_limit_order_output(amount_in, zero_for_one) ==
  IF zero_for_one
  THEN mul_div_floor(amount_in, PriceLo, Q64)
  ELSE mul_div_floor(amount_in, Q64, PriceHi)

\* What a swap owes for `amount_out` of the orders' token, rounded up.
get_limit_order_input(amount_out, zero_for_one) ==
  IF zero_for_one
  THEN mul_div_ceil(amount_out, PriceHi, Q64)
  ELSE mul_div_ceil(amount_out, Q64, PriceLo)

check_limit_order_amount(amount, zero_for_one) ==
  /\ amount > 0
  /\ get_limit_order_output(amount, zero_for_one) >= 1
  /\ get_limit_order_output(amount, zero_for_one) < U64Max - 2

limit_order_unfilled_amount(t) == t.orders_amount + t.part_filled_orders_remaining
has_limit_orders(t) == t.orders_amount > 0 \/ t.part_filled_orders_remaining > 0

(***************************************************************************)
(* TickState::match_limit_order: the amounts, then the cohorts.            *)
(***************************************************************************)
fee_of(amount, rate) == mul_div_ceil(amount, rate, FeeDenom)
fee_on_top(amount, rate) == mul_div_ceil(amount, rate, FeeDenom - rate)

\* The amounts of an exact-input swap.
base_input_amounts(t, swap_amount, zero_for_one, rate, on_input) ==
  LET total == limit_order_unfilled_amount(t)
      fee == IF on_input THEN fee_of(swap_amount, rate) ELSE 0
      bought == get_limit_order_output(swap_amount - fee, zero_for_one)
      owed == get_limit_order_input(total, ~zero_for_one)
  IN IF bought > total
     THEN [amount_in |-> owed, gross_out |-> total,
           fee |-> IF on_input THEN fee_on_top(owed, rate) ELSE 0]
     ELSE [amount_in |-> swap_amount - fee, gross_out |-> bought, fee |-> fee]

\* The amounts of an exact-output swap.
base_output_amounts(t, swap_amount, zero_for_one, rate, on_input) ==
  LET total == limit_order_unfilled_amount(t)
      net == least(swap_amount, total)
      gross == IF on_input THEN net
               ELSE least(mul_div_ceil(net, FeeDenom, FeeDenom - rate), total)
      owed == get_limit_order_input(gross, ~zero_for_one)
  IN [amount_in |-> owed, gross_out |-> gross,
      fee |-> IF on_input THEN fee_on_top(owed, rate) ELSE 0]

match_amounts(t, swap_amount, zero_for_one, base_input, rate, on_input) ==
  LET m == IF base_input
           THEN base_input_amounts(t, swap_amount, zero_for_one, rate, on_input)
           ELSE base_output_amounts(t, swap_amount, zero_for_one, rate, on_input)
      fee == IF on_input THEN m.fee ELSE fee_of(m.gross_out, rate)
  IN [amount_in |-> m.amount_in, gross_out |-> m.gross_out, fee |-> fee,
      amount_out |-> IF on_input THEN m.gross_out ELSE m.gross_out - fee]

\* The part-filled cohort is consumed first; what is left of `out` opens the
\* next phase.
consume(t, out) ==
  LET part == t.part_filled_orders_remaining
      from_part == least(part, out)
      rest == out - from_part
      scaled == IF from_part > 0
                THEN mul_div_floor(t.unfilled_ratio_x64, part - from_part, part)
                ELSE t.unfilled_ratio_x64
  IN IF rest = 0
     THEN [t EXCEPT !.part_filled_orders_remaining = part - from_part,
                    !.unfilled_ratio_x64 = scaled]
     ELSE [order_phase |-> phase_after(t.order_phase, 1),
           orders_amount |-> 0,
           part_filled_orders_remaining |-> t.orders_amount - rest,
           unfilled_ratio_x64 |->
             mul_div_floor(Q64, t.orders_amount - rest, t.orders_amount)]
=============================================================================
