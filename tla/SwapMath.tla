------------------------------ MODULE SwapMath ------------------------------
(***************************************************************************)
(* The swap mathematics of programs/amm/src/libraries: liquidity_math,     *)
(* sqrt_price_math and swap_math, as pure operators on integers.  Prices   *)
(* are square roots in units of 1/Q64; token 0 is priced in token 1.       *)
(***************************************************************************)
EXTENDS FullMath

CONSTANTS
  Q64,        \* the fixed-point unit 2^64
  U64Max,     \* the largest token amount
  FeeDenom    \* FEE_RATE_DENOMINATOR_VALUE

(***************************************************************************)
(* Token amounts that liquidity L needs between two prices.                *)
(***************************************************************************)
amount_0_between(a, b, L, round_up) ==
  IF round_up
  THEN div_rounding_up(mul_div_ceil(L * Q64, b - a, b), a)
  ELSE mul_div_floor(L * Q64, b - a, b) \div a

get_delta_amount_0_unsigned(a, b, L, round_up) ==
  IF a <= b THEN amount_0_between(a, b, L, round_up) ELSE amount_0_between(b, a, L, round_up)

get_delta_amount_1_unsigned(a, b, L, round_up) ==
  LET distance == IF a <= b THEN b - a ELSE a - b
  IN IF round_up THEN mul_div_ceil(L, distance, Q64) ELSE mul_div_floor(L, distance, Q64)

\* <<token 0, token 1>> of a range [lower, upper] at price p with current tick
\* t: rounded up when liquidity is added, down when it is removed.
get_delta_amounts_signed(t, p, t_lower, t_upper, lower, upper, L, adding) ==
  IF t < t_lower
  THEN <<get_delta_amount_0_unsigned(lower, upper, L, adding), 0>>
  ELSE IF t < t_upper
  THEN <<get_delta_amount_0_unsigned(p, upper, L, adding),
         get_delta_amount_1_unsigned(lower, p, L, adding)>>
  ELSE <<0, get_delta_amount_1_unsigned(lower, upper, L, adding)>>

(***************************************************************************)
(* The price after an amount enters or leaves.  The results are rounded    *)
(* towards the current price for an input, away from it for an output.     *)
(* A price of -1 stands for the error CalculateOverflow.                   *)
(***************************************************************************)
get_next_sqrt_price_from_input(p, L, amount, zero_for_one) ==
  IF zero_for_one
  THEN mul_div_ceil(L * Q64, p, L * Q64 + amount * p)
  ELSE p + (amount * Q64) \div L

\* mutant: rounded towards the current price
mut_next_sqrt_price_from_output(p, L, amount, zero_for_one) ==
  IF zero_for_one
  THEN p - (amount * Q64) \div L
  ELSE mul_div_floor(L * Q64, p, L * Q64 - amount * p)

get_next_sqrt_price_from_output(p, L, amount, zero_for_one) ==
  IF zero_for_one
  THEN IF p >= div_rounding_up(amount * Q64, L)
       THEN p - div_rounding_up(amount * Q64, L) ELSE -1
  ELSE IF L * Q64 > amount * p
       THEN mul_div_ceil(L * Q64, p, L * Q64 - amount * p) ELSE -1

(***************************************************************************)
(* compute_swap: one step from the price p towards the target.             *)
(***************************************************************************)
\* mutant: rounded down
mut_amount_in_between(p, q, L, zero_for_one) ==
  IF zero_for_one
  THEN get_delta_amount_0_unsigned(q, p, L, FALSE)
  ELSE get_delta_amount_1_unsigned(p, q, L, FALSE)

amount_in_between(p, q, L, zero_for_one) ==
  IF zero_for_one
  THEN get_delta_amount_0_unsigned(q, p, L, TRUE)
  ELSE get_delta_amount_1_unsigned(p, q, L, TRUE)

amount_out_between(p, q, L, zero_for_one) ==
  IF zero_for_one
  THEN get_delta_amount_1_unsigned(q, p, L, FALSE)
  ELSE get_delta_amount_0_unsigned(p, q, L, FALSE)

\* The price the step reaches: the target if the amount covers the range.
next_price(p, target, L, remaining, rate, base_input, zero_for_one, on_input) ==
  LET available == CASE base_input /\ on_input ->
                          mul_div_floor(remaining, FeeDenom - rate, FeeDenom)
                     [] ~base_input /\ ~on_input ->
                          mul_div_ceil(remaining, FeeDenom, FeeDenom - rate)
                     [] OTHER -> remaining
      range == IF base_input THEN amount_in_between(p, target, L, zero_for_one)
               ELSE amount_out_between(p, target, L, zero_for_one)
  IN IF range <= U64Max /\ available >= range
     THEN target
     ELSE IF base_input
     THEN get_next_sqrt_price_from_input(p, L, available, zero_for_one)
     ELSE get_next_sqrt_price_from_output(p, L, available, zero_for_one)

fee_of(amount, rate) == mul_div_ceil(amount, rate, FeeDenom)
fee_on_top(amount, rate) == mul_div_ceil(amount, rate, FeeDenom - rate)

\* The amounts and the fee once the price is known.
input_fee(reached, in, remaining, rate, base_input) ==
  IF base_input /\ ~reached THEN remaining - in ELSE fee_on_top(in, rate)

output_fee(gross, remaining, rate, base_input) ==
  IF ~base_input /\ gross - fee_of(gross, rate) > remaining
  THEN gross - remaining
  ELSE fee_of(gross, rate)

compute_swap(p, target, L, remaining, rate, base_input, zero_for_one, on_input) ==
  LET q == next_price(p, target, L, remaining, rate, base_input, zero_for_one, on_input)
      in == amount_in_between(p, q, L, zero_for_one)
      gross == amount_out_between(p, q, L, zero_for_one)
      fee == IF on_input THEN input_fee(q = target, in, remaining, rate, base_input)
             ELSE output_fee(gross, remaining, rate, base_input)
      out == CASE ~on_input -> gross - fee
               [] on_input /\ base_input -> gross
               [] on_input /\ ~base_input -> least(gross, remaining)
  IN [ok |-> /\ q >= 0 /\ (IF zero_for_one THEN q >= target ELSE q <= target)
             /\ fee >= 0 /\ in <= U64Max /\ gross <= U64Max,
      price |-> q, amount_in |-> in, amount_out |-> out, fee |-> fee]
=============================================================================
