-------------------------------- MODULE Pool --------------------------------
(***************************************************************************)
(* A pool of programs/amm: positions, ticks, fees and the swap loop.       *)
(*                                                                         *)
(* Liquidity is spread over ranges of ticks.  The pool keeps the liquidity *)
(* of the ranges around its price and each tick the change that crossing   *)
(* it makes; a swap walks from one initialized tick to the next, which it  *)
(* finds through the tick array it is in and the bitmap of arrays.  Fees   *)
(* are kept as growth per unit of liquidity and reach a position only when *)
(* it is touched.  Limit orders rest at ticks: they are matched before the *)
(* tick is crossed.                                                        *)
(*                                                                         *)
(* An instruction is one action and is atomic, except swap_internal, whose *)
(* loops are a sequence of actions (search, compute, match, pass) on a     *)
(* copy, swap, which replaces the accounts when the instruction succeeds   *)
(* and is dropped when it fails.  No other instruction runs in between.    *)
(*                                                                         *)
(* Left to other modules: the accounts of limit orders (LimitOrder; here a *)
(* tick has the totals) and rewards.  The oracle is left out.  The token   *)
(* amounts are what the vault receives or sends.                           *)
(***************************************************************************)
EXTENDS SwapMath, DynamicFee, FiniteSetsExt

CONSTANTS
  MinTick, MaxTick,   \* MIN_TICK and MAX_TICK
  SqrtPrice,          \* get_sqrt_price_at_tick
  TickArraySize,      \* the ticks of a tick array: TICK_ARRAY_SIZE tick spacings
  PhaseMax,           \* the largest order_phase
  Growth,             \* 2^128: fee growth wraps
  ProtocolFeeRate, FundFeeRate,   \* AmmConfig
  FeeOn,              \* PoolState.fee_on: 0 input token, 1 token 0, 2 token 1
  InitialPrices,      \* prices a pool is created with
  Positions,          \* model bound: positions that exist at once
  Ranges,             \* model bound: the <<lower, upper>> of positions
  Deltas,             \* model bound: amounts of liquidity added or removed
  Swaps,              \* model bound: the swaps submitted, with AmmConfig.trade_fee_rate then
  Elapsed,            \* model bound: the time between two swaps
  Orders,             \* model bound: the limit orders opened
  Statuses,           \* model bound: the values of status the administrator sets
  MaxOps              \* model bound: instructions executed

Ticks == MinTick .. MaxTick
Tokens == 0 .. 1
AllOperations == {"OpenPositionOrIncreaseLiquidity", "DecreaseLiquidity",
                  "CollectFee", "Swap", "LimitOrder"}

ASSUME TickAssumption ==
  /\ MinTick \in Int /\ MaxTick \in Int /\ MinTick < MaxTick
  /\ SqrtPrice \in [Ticks -> Nat \ {0}]
  /\ \A t \in MinTick .. (MaxTick - 1) : SqrtPrice[t] < SqrtPrice[t + 1]
  /\ \A t \in Ticks : mul_div_floor(SqrtPrice[t], SqrtPrice[t], Q64) > 0
  /\ TickArraySize \in Nat \ {0}

ASSUME RateAssumption ==
  /\ Q64 \in Nat \ {0} /\ Growth \in Nat \ {0} /\ FeeDenom \in Nat \ {0}
  /\ U64Max \in Nat /\ PhaseMax \in Nat
  /\ ProtocolFeeRate \in Nat /\ FundFeeRate \in Nat
  /\ ProtocolFeeRate + FundFeeRate <= FeeDenom
  /\ FeeOn \in 0 .. 2
  /\ MaxFeeRate < FeeDenom

ASSUME InputAssumption ==
  /\ InitialPrices \subseteq SqrtPrice[MinTick] .. (SqrtPrice[MaxTick] - 1)
  /\ \A r \in Ranges : /\ r[1] \in Ticks /\ r[2] \in Ticks /\ r[1] < r[2]
                       /\ r[1] % TickSpacing = 0 /\ r[2] % TickSpacing = 0
  /\ IsFiniteSet(Positions) /\ Deltas \subseteq Nat /\ Elapsed \subseteq Nat
  /\ \A o \in Orders : /\ o.tick \in Ticks /\ o.tick % TickSpacing = 0
                       /\ o.amount \in Nat \ {0} /\ o.zero_for_one \in BOOLEAN
  /\ \A s \in Swaps : /\ s.trade_fee_rate \in 0 .. (FeeDenom - 1)
                      /\ s.zero_for_one \in BOOLEAN /\ s.base_input \in BOOLEAN
                      /\ s.amount \in Nat \ {0} /\ s.limit \in Nat
  /\ Statuses \subseteq SUBSET AllOperations

VARIABLES
  pool,       \* PoolState: price, tick, liquidity, fee growth, fees
  ticks,      \* the TickState of every tick
  count,      \* initialized_tick_count of every tick array
  bitmap,     \* the tick arrays whose bit is set
  position,   \* the PersonalPositionState accounts
  status,     \* the operations PoolState.status allows
  vault,      \* the balance of each token vault
  fee_pot,    \* history: LP fees taken in and not yet paid to a position
  order_pot,  \* history: what limit orders and their matches left in the vaults
  swap,       \* the SwapState of the swap that is running, or NoSwap
  ops         \* instructions executed so far

accounts == <<pool, ticks, count, bitmap, position, status, vault, fee_pot, order_pot>>
vars == <<accounts, swap, ops>>

NoSwap == [running |-> FALSE]
NoPosition == [open |-> FALSE]

OpenPositions == {p \in Positions : position[p].open}

\* get_price_at_tick: the price of the orders resting at a tick
AtTick(t) == INSTANCE TickOrders WITH
  PriceLo <- mul_div_floor(SqrtPrice[t], SqrtPrice[t], Q64),
  PriceHi <- mul_div_ceil(SqrtPrice[t], SqrtPrice[t], Q64)

has_limit_orders(orders) == AtTick(MinTick)!has_limit_orders(orders)
unfilled(orders) == AtTick(MinTick)!limit_order_unfilled_amount(orders)

has_liquidity(T) == T.liquidity_gross > 0
is_initialized(T) == has_liquidity(T) \/ has_limit_orders(T.orders)

get_tick_at_sqrt_price(p) == Max({t \in Ticks : SqrtPrice[t] <= p})

\* An instruction starts: none is running.
instruction == ~swap.running /\ ops < MaxOps /\ ops' = ops + 1

(***************************************************************************)
(* Tick arrays.                                                            *)
(***************************************************************************)
get_array_start_index(t) == t \div TickArraySize
Arrays == get_array_start_index(MinTick) .. get_array_start_index(MaxTick)

\* The count and the bitmap once tick t appears or disappears.
counted(c, t, add) ==
  [c EXCEPT ![get_array_start_index(t)] = IF add THEN @ + 1 ELSE @ - 1]

\* mutant: the count is tested as for an addition
mut_flipped_bitmap(b, c, t, add) ==
  LET a == get_array_start_index(t)
  IN IF c[a] # 0 THEN b ELSE IF a \in b THEN b \ {a} ELSE b \cup {a}

flipped_bitmap(b, c, t, add) ==
  LET a == get_array_start_index(t)
      flip == c[a] = (IF add THEN 0 ELSE 1)
  IN IF ~flip THEN b ELSE IF a \in b THEN b \ {a} ELSE b \cup {a}

(***************************************************************************)
(* Fee growth.                                                             *)
(***************************************************************************)
wrapping_sub(x, y) == (x - y) % Growth

is_fee_on_input(zero_for_one) == FeeOn = 0 \/ zero_for_one = (FeeOn = 1)
fee_token(zero_for_one) ==
  IF FeeOn = 0 THEN (IF zero_for_one THEN 0 ELSE 1) ELSE FeeOn - 1

\* Growth of token k between the ticks of a range, seen from the current tick.
get_fee_growth_inside(tks, lower, upper, k) ==
  LET global == pool.fee_growth_global[k]
      below == IF pool.tick >= lower THEN tks[lower].fee_growth_outside[k]
               ELSE wrapping_sub(global, tks[lower].fee_growth_outside[k])
      above == IF pool.tick < upper THEN tks[upper].fee_growth_outside[k]
               ELSE wrapping_sub(global, tks[upper].fee_growth_outside[k])
  IN wrapping_sub(wrapping_sub(global, below), above)

to_underflow_u64(x) == IF x < U64Max THEN x ELSE 0

calculate_latest_token_fees(owed, last, latest, liquidity) ==
  owed + to_underflow_u64(mul_div_floor(wrapping_sub(latest, last), liquidity, Q64))

(***************************************************************************)
(* Changing the liquidity of a range: TickState::update, clear and         *)
(* modify_position.                                                        *)
(***************************************************************************)
\* mutant: net liquidity is added at the upper tick too
mut_tick_update(T, t, delta, upper) ==
  [T EXCEPT !.liquidity_gross = @ + delta, !.liquidity_net = @ + delta]

tick_update(T, t, delta, upper) ==
  [T EXCEPT !.liquidity_gross = @ + delta,
            !.liquidity_net = IF upper THEN @ - delta ELSE @ + delta,
            !.fee_growth_outside =
              IF ~has_liquidity(T) /\ t <= pool.tick THEN pool.fee_growth_global ELSE @]

\* mutants: every addition flips the tick; orders at the tick are forgotten
mut_tick_flipped(T, delta) == T.liquidity_gross + delta = 0 /\ ~has_limit_orders(T.orders)
mut_flipped_with_orders(T, delta) == (T.liquidity_gross + delta = 0) # (T.liquidity_gross = 0)

tick_flipped(T, delta) ==
  /\ (T.liquidity_gross + delta = 0) # (T.liquidity_gross = 0)
  /\ ~has_limit_orders(T.orders)

clear(T) ==
  [T EXCEPT !.liquidity_gross = 0, !.liquidity_net = 0,
            !.fee_growth_outside = [k \in Tokens |-> 0]]

\* The two ticks after the change; a tick that a removal leaves uninitialized
\* is cleared, after the fee growth inside the range has been read.
updated_ticks(lower, upper, delta) ==
  [ticks EXCEPT ![lower] = tick_update(@, lower, delta, FALSE),
                ![upper] = tick_update(@, upper, delta, TRUE)]

cleared_ticks(tks, lower, upper, delta) ==
  [t \in Ticks |->
     IF delta < 0 /\ t \in {lower, upper} /\ tick_flipped(ticks[t], delta)
     THEN clear(tks[t]) ELSE tks[t]]

in_range(lower, upper, t) == lower <= t /\ t < upper

range_amounts(lower, upper, liquidity, adding) ==
  get_delta_amounts_signed(pool.tick, pool.sqrt_price, lower, upper,
                           SqrtPrice[lower], SqrtPrice[upper], liquidity, adding)

\* The flipped ticks are counted in or out of their arrays, the lower first.
flip_arrays(lower, upper, delta) ==
  LET add == delta > 0
      flip_lower == tick_flipped(ticks[lower], delta)
      flip_upper == tick_flipped(ticks[upper], delta)
      c1 == IF flip_lower THEN counted(count, lower, add) ELSE count
      b1 == IF flip_lower THEN flipped_bitmap(bitmap, count, lower, add) ELSE bitmap
  IN /\ count' = (IF flip_upper THEN counted(c1, upper, add) ELSE c1)
     /\ bitmap' = (IF flip_upper THEN flipped_bitmap(b1, c1, upper, add) ELSE b1)

\* `delta` (not 0) is added to or removed from a range.
modify_position(lower, upper, delta) ==
  /\ ticks' = cleared_ticks(updated_ticks(lower, upper, delta), lower, upper, delta)
  /\ pool' = (IF in_range(lower, upper, pool.tick)
              THEN [pool EXCEPT !.liquidity = @ + delta] ELSE pool)
  /\ flip_arrays(lower, upper, delta)

\* PersonalPositionState: what it owes and the growth it has seen, brought up
\* to date with the ticks tks.
update_fee_and_reward(pos, tks) ==
  LET inside == [k \in Tokens |-> get_fee_growth_inside(tks, pos.lower, pos.upper, k)]
  IN [pos EXCEPT !.fee_growth_inside_last = inside,
                 !.token_fees_owed =
                   [k \in Tokens |->
                      calculate_latest_token_fees(@[k], pos.fee_growth_inside_last[k],
                                                  inside[k], pos.liquidity)]]

(***************************************************************************)
(* Instructions on positions.                                              *)
(***************************************************************************)
new_position(range, liquidity, inside) ==
  [open |-> TRUE, lower |-> range[1], upper |-> range[2], liquidity |-> liquidity,
   fee_growth_inside_last |-> inside, token_fees_owed |-> [k \in Tokens |-> 0]]

add_liquidity(lower, upper, delta) ==
  LET amounts == range_amounts(lower, upper, delta, TRUE)
  IN /\ \E k \in Tokens : amounts[k + 1] > 0
     /\ modify_position(lower, upper, delta)
     /\ vault' = [k \in Tokens |-> vault[k] + amounts[k + 1]]

\* A position may be opened empty.
open_position(p, range, delta) ==
  /\ instruction
  /\ ~position[p].open
  /\ "OpenPositionOrIncreaseLiquidity" \in status
  /\ IF delta = 0
     THEN /\ position' = [position EXCEPT ![p] =
                            new_position(range, 0, [k \in Tokens |-> 0])]
          /\ UNCHANGED <<pool, ticks, count, bitmap, vault>>
     ELSE /\ add_liquidity(range[1], range[2], delta)
          /\ position' = [position EXCEPT ![p] =
               new_position(range, delta,
                 [k \in Tokens |-> get_fee_growth_inside(updated_ticks(range[1], range[2], delta),
                                                         range[1], range[2], k)])]
  /\ UNCHANGED <<status, fee_pot, order_pot, swap>>

increase_liquidity(p, delta) ==
  /\ instruction
  /\ position[p].open
  /\ "OpenPositionOrIncreaseLiquidity" \in status
  /\ delta > 0
  /\ LET pos == position[p]
         u == update_fee_and_reward(pos, updated_ticks(pos.lower, pos.upper, delta))
     IN /\ add_liquidity(pos.lower, pos.upper, delta)
        /\ position' = [position EXCEPT ![p] = [u EXCEPT !.liquidity = @ + delta]]
  /\ UNCHANGED <<status, fee_pot, order_pot, swap>>

\* The position once delta is burnt and its fees are brought up to date (a
\* tick that was never initialized has no growth outside; then the position
\* has no liquidity either).
burnt(pos, delta) ==
  LET tks == IF delta = 0 THEN ticks ELSE updated_ticks(pos.lower, pos.upper, -delta)
  IN [update_fee_and_reward(pos, tks) EXCEPT !.liquidity = @ - delta]

\* With DecreaseLiquidity disabled only the fees already recorded are paid.
decrease_liquidity(p, delta) ==
  /\ instruction
  /\ position[p].open
  /\ delta <= position[p].liquidity
  /\ status \cap {"DecreaseLiquidity", "CollectFee"} # {}
  /\ LET pos == position[p]
         burns == "DecreaseLiquidity" \in status
         after == IF burns THEN burnt(pos, delta) ELSE pos
         fees == [k \in Tokens |-> IF "CollectFee" \in status THEN after.token_fees_owed[k] ELSE 0]
         amounts == IF burns THEN range_amounts(pos.lower, pos.upper, delta, FALSE) ELSE <<0, 0>>
     IN /\ IF burns /\ delta > 0
           THEN modify_position(pos.lower, pos.upper, -delta)
           ELSE UNCHANGED <<pool, ticks, count, bitmap>>
        /\ position' = [position EXCEPT ![p] =
             [after EXCEPT !.token_fees_owed = [k \in Tokens |-> @[k] - fees[k]]]]
        /\ vault' = [k \in Tokens |-> vault[k] - amounts[k + 1] - fees[k]]
        /\ fee_pot' = [k \in Tokens |-> fee_pot[k] - fees[k]]
  /\ UNCHANGED <<status, order_pot, swap>>

close_position(p) ==
  /\ instruction
  /\ position[p].open
  /\ position[p].liquidity = 0
  /\ \A k \in Tokens : position[p].token_fees_owed[k] = 0
  /\ position' = [position EXCEPT ![p] = NoPosition]
  /\ UNCHANGED <<pool, ticks, count, bitmap, status, vault, fee_pot, order_pot, swap>>

(***************************************************************************)
(* Limit orders: what their instructions do to the tick and its array.     *)
(***************************************************************************)
sold(zero_for_one) == IF zero_for_one THEN 0 ELSE 1
bought(zero_for_one) == IF zero_for_one THEN 1 ELSE 0

set_orders(t, orders) ==
  LET before == is_initialized(ticks[t])
      T == [ticks[t] EXCEPT !.orders = orders]
      after == is_initialized(T)
  IN /\ ticks' = [ticks EXCEPT ![t] = T]
     /\ count' = (IF before = after THEN count ELSE counted(count, t, after))
     /\ bitmap' = (IF before = after THEN bitmap ELSE flipped_bitmap(bitmap, count, t, after))

open_limit_order(o) ==
  /\ instruction
  /\ {"LimitOrder", "Swap"} \subseteq status
  /\ IF o.zero_for_one THEN pool.tick < o.tick ELSE pool.tick > o.tick
  /\ AtTick(o.tick)!check_limit_order_amount(o.amount, o.zero_for_one)
  /\ ticks[o.tick].orders.order_phase < PhaseMax
  /\ set_orders(o.tick, [ticks[o.tick].orders EXCEPT !.orders_amount = @ + o.amount])
  /\ vault' = [vault EXCEPT ![sold(o.zero_for_one)] = @ + o.amount]
  /\ order_pot' = [order_pot EXCEPT ![sold(o.zero_for_one)] = @ + o.amount]
  /\ UNCHANGED <<pool, position, status, fee_pot, swap>>

\* Orders of one cohort take back `amount` between them.  They sell token 0 if
\* the price is below the tick (LimitOrder!OneSided).  What they have earned
\* stays in order_pot: LimitOrder follows its settlement.
decrease_limit_order(t, cohort, amount) ==
  /\ instruction
  /\ ticks[t].orders[cohort] > 0
  /\ LET k == sold(pool.tick < t)
         real == least(amount, ticks[t].orders[cohort])
     IN /\ set_orders(t, [ticks[t].orders EXCEPT ![cohort] = @ - real])
        /\ vault' = [vault EXCEPT ![k] = @ - real]
        /\ order_pot' = [order_pot EXCEPT ![k] = @ - real]
  /\ UNCHANGED <<pool, position, status, fee_pot, swap>>

(***************************************************************************)
(* The administrator: fees and the pool's status.                          *)
(***************************************************************************)
\* Collecting both tokens in one instruction is collecting one after the other.
\* The shares of the recipient and of the TiPy treasury add up to the amount.
collect_protocol_fee(k, requested) ==
  /\ instruction
  /\ pool.protocol_fees[k] > 0
  /\ LET amount == least(requested, pool.protocol_fees[k])
     IN /\ pool' = [pool EXCEPT !.protocol_fees[k] = @ - amount]
        /\ vault' = [vault EXCEPT ![k] = @ - amount]
  /\ UNCHANGED <<ticks, count, bitmap, position, status, fee_pot, order_pot, swap>>

collect_fund_fee(k, requested) ==
  /\ instruction
  /\ pool.fund_fees[k] > 0
  /\ LET amount == least(requested, pool.fund_fees[k])
     IN /\ pool' = [pool EXCEPT !.fund_fees[k] = @ - amount]
        /\ vault' = [vault EXCEPT ![k] = @ - amount]
  /\ UNCHANGED <<ticks, count, bitmap, position, status, fee_pot, order_pot, swap>>

\* Setting the status it has changes nothing.
update_pool_status(s) ==
  /\ instruction
  /\ s # status
  /\ status' = s
  /\ UNCHANGED <<pool, ticks, count, bitmap, position, vault, fee_pot, order_pot, swap>>

(***************************************************************************)
(* swap_internal.  The search for the next initialized tick looks in the   *)
(* current tick array and, when that has none, in the bitmap.              *)
(***************************************************************************)
nearest(S, zero_for_one) == IF zero_for_one THEN Max(S) ELSE Min(S)

initialized_in(tks, a) ==
  {t \in Ticks : get_array_start_index(t) = a /\ is_initialized(tks[t])}

ahead(t, tick, zero_for_one) == IF zero_for_one THEN t <= tick ELSE t > tick

\* mutant: downwards, the tick itself is not considered
mut_next_initialized_ticks(tks, a, tick, zero_for_one) ==
  IF get_array_start_index(tick) # a THEN {}
  ELSE {t \in initialized_in(tks, a) : IF zero_for_one THEN t < tick ELSE t > tick}

\* The initialized ticks that next_initialized_tick chooses from.
next_initialized_ticks(tks, a, tick, zero_for_one) ==
  IF get_array_start_index(tick) # a THEN {}
  ELSE {t \in initialized_in(tks, a) : ahead(t, tick, zero_for_one)}

\* The next tick array in the bitmap, as a set of at most one.
next_tick_array_index(b, a, zero_for_one) ==
  LET beyond == {c \in b : IF zero_for_one THEN c < a ELSE c > a}
  IN IF beyond = {} THEN {} ELSE {nearest(beyond, zero_for_one)}

first_tick_array_index(zero_for_one) ==
  LET a == get_array_start_index(pool.tick)
  IN IF a \in bitmap THEN {a} ELSE next_tick_array_index(bitmap, a, zero_for_one)

effective_limit(s) ==
  IF s.limit # 0 THEN s.limit
  ELSE IF s.zero_for_one THEN SqrtPrice[MinTick] + 1 ELSE SqrtPrice[MaxTick] - 1

limit_allowed(limit, zero_for_one) ==
  IF zero_for_one
  THEN SqrtPrice[MinTick] < limit /\ limit < pool.sqrt_price
  ELSE pool.sqrt_price < limit /\ limit < SqrtPrice[MaxTick]

\* SwapState::new, with the accounts the loop works on.
swap_start(s, elapsed) ==
  /\ instruction
  /\ "Swap" \in status
  /\ limit_allowed(effective_limit(s), s.zero_for_one)
  /\ \E a \in first_tick_array_index(s.zero_for_one) :
       swap' = [running |-> TRUE, zero_for_one |-> s.zero_for_one,
                base_input |-> s.base_input, amount |-> s.amount,
                trade_fee_rate |-> s.trade_fee_rate, total_fee_rate |-> s.trade_fee_rate,
                tick_spacing_index |-> tick_spacing_index_from_tick(pool.tick),
                dynamic_fee |-> update_reference(pool.dynamic_fee,
                                                 tick_spacing_index_from_tick(pool.tick), elapsed),
                limit |-> effective_limit(s), partial |-> s.limit # 0,
                remaining |-> s.amount, calculated |-> 0,
                sqrt_price |-> pool.sqrt_price, tick |-> pool.tick,
                liquidity |-> pool.liquidity, tick_next |-> 0,
                fee_growth |-> pool.fee_growth_global[fee_token(s.zero_for_one)],
                lp_fee |-> 0, protocol_fee |-> 0, fund_fee |-> 0,
                stage |-> "search", array |-> a, contains |-> a = get_array_start_index(pool.tick),
                ticks |-> ticks, count |-> count, bitmap |-> bitmap,
                order_in |-> 0, order_out |-> 0]
  /\ UNCHANGED accounts

in_stage(s) == swap.running /\ swap.stage = s

\* Where the loop looks for its next tick.
found_here(w) == next_initialized_ticks(w.ticks, w.array, w.tick, w.zero_for_one)

\* mutant: the first array is skipped if it does not hold the current tick
mut_searched_array(w) ==
  IF found_here(w) # {} THEN {w.array}
  ELSE next_tick_array_index(w.bitmap, w.array, w.zero_for_one)

searched_array(w) ==
  IF found_here(w) # {} \/ ~w.contains THEN {w.array}
  ELSE next_tick_array_index(w.bitmap, w.array, w.zero_for_one)

found_ticks(w) ==
  IF found_here(w) # {} THEN found_here(w)
  ELSE UNION {initialized_in(w.ticks, a) : a \in searched_array(w)}

target_price(w, t) ==
  IF w.zero_for_one
  THEN (IF SqrtPrice[t] < w.limit THEN w.limit ELSE SqrtPrice[t])
  ELSE (IF SqrtPrice[t] > w.limit THEN w.limit ELSE SqrtPrice[t])

direction_valid(w, t) ==
  IF w.zero_for_one
  THEN /\ w.tick >= t
       /\ w.sqrt_price >= SqrtPrice[t]
       /\ w.sqrt_price >= target_price(w, t)
  ELSE /\ t > w.tick
       /\ SqrtPrice[t] >= w.sqrt_price
       /\ target_price(w, t) >= w.sqrt_price

loop_continues(w) == w.remaining # 0 /\ w.sqrt_price # w.limit

can_find(w) ==
  /\ found_ticks(w) # {}
  /\ direction_valid(w, nearest(found_ticks(w), w.zero_for_one))

\* The top of the outer loop.
find_next_tick ==
  /\ in_stage("search")
  /\ loop_continues(swap)
  /\ can_find(swap)
  /\ LET t == nearest(found_ticks(swap), swap.zero_for_one)
     IN swap' = [swap EXCEPT !.stage = "compute", !.tick_next = t,
                             !.array = get_array_start_index(t), !.contains = TRUE]
  /\ UNCHANGED <<accounts, ops>>

\* SwapState::spilt_fees
spilt_fees(w, fee) ==
  LET to_protocol == mul_div_floor(fee, ProtocolFeeRate, FeeDenom)
      to_fund == mul_div_floor(fee, FundFeeRate, FeeDenom)
      rest == fee - to_protocol - to_fund
  IN IF w.liquidity > 0
     THEN [w EXCEPT !.protocol_fee = @ + to_protocol,
                    !.fund_fee = @ + to_fund,
                    !.lp_fee = @ + rest,
                    !.fee_growth = (@ + mul_div_floor(rest, Q64, w.liquidity)) % Growth]
     ELSE [w EXCEPT !.protocol_fee = @ + to_protocol + rest, !.fund_fee = @ + to_fund]

\* mutant: the fee is not asked of the swapper
mut_paid_in(w, r) == r.amount_in

\* What a result r takes off the amount that remains, and what it adds to the
\* other amount.
paid_in(w, r) == IF is_fee_on_input(w.zero_for_one) THEN r.amount_in + r.fee ELSE r.amount_in
used(w, r) == IF w.base_input THEN paid_in(w, r) ELSE r.amount_out
gained(w, r) == IF w.base_input THEN r.amount_out ELSE paid_in(w, r)

apply_swap_amounts(w, r) ==
  spilt_fees([w EXCEPT !.remaining = @ - used(w, r), !.calculated = @ + gained(w, r)], r.fee)

\* The top of the inner loop: the fee for the group of ticks the swap is in.
with_fee_rate(w, info) ==
  [w EXCEPT !.dynamic_fee = info, !.total_fee_rate = get_total_fee_rate(w.trade_fee_rate, info)]
at_loop_top(w) ==
  with_fee_rate(w, update_volatility_accumulator(w.dynamic_fee, w.tick_spacing_index))

\* A step stays within the group, unless there is nothing to charge or to add.
is_skipped_tick_spacing(w) ==
  ~FeeConfig.enabled \/ w.liquidity = 0 \/ at_max_volatility(w.dynamic_fee)

\* mutant: of a swap upwards the lower end of the group
mut_bounded_tick(w) == w.tick_spacing_index * TickSpacing

bounded_tick(w) == (w.tick_spacing_index + (IF w.zero_for_one THEN 0 ELSE 1)) * TickSpacing

clamped(t) == IF t < MinTick THEN MinTick ELSE least(t, MaxTick)

get_spacing_bounded_price(w) ==
  LET target == target_price(w, w.tick_next)
      bounded == SqrtPrice[clamped(bounded_tick(w))]
  IN IF is_skipped_tick_spacing(w) THEN target
     ELSE IF w.zero_for_one = (target < bounded) THEN bounded ELSE target

\* One step of the inner loop.
step_to(w, price) ==
  IF w.sqrt_price = price
  THEN [ok |-> TRUE, price |-> price, amount_in |-> 0, amount_out |-> 0, fee |-> 0]
  ELSE compute_swap(w.sqrt_price, price, w.liquidity, w.remaining, w.total_fee_rate,
                    w.base_input, w.zero_for_one, is_fee_on_input(w.zero_for_one))
step_to_target(w) == step_to(w, get_spacing_bounded_price(w))

\* The next group in the direction of the swap, if the loop goes on.  After a
\* step that was not bounded, it is found from the tick.
index_after_skip(w) ==
  LET t == IF w.sqrt_price = SqrtPrice[w.tick_next] THEN w.tick_next ELSE w.tick
      i == tick_spacing_index_from_tick(t)
  IN IF ~w.zero_for_one /\ t % TickSpacing = 0 THEN i - 1 ELSE i

after_skip(w, index) ==
  [w EXCEPT !.tick_spacing_index = index,
            !.dynamic_fee = IF at_max_volatility(@) THEN @
                            ELSE update_volatility_accumulator(@, index)]

update_dynamic_fee_index(w) ==
  IF ~FeeConfig.enabled THEN w
  ELSE [(IF is_skipped_tick_spacing(w) THEN after_skip(w, index_after_skip(w)) ELSE w)
          EXCEPT !.tick_spacing_index = @ + (IF w.zero_for_one THEN -1 ELSE 1)]

\* mutant: the tick is left as it was
mut_at_price(w, price) == [w EXCEPT !.sqrt_price = price]

\* The tick is recomputed only if the price has moved without reaching it.
at_price(w, price) ==
  [w EXCEPT !.sqrt_price = price,
            !.tick = IF price # SqrtPrice[w.tick_next] /\ price # w.sqrt_price
                     THEN get_tick_at_sqrt_price(price) ELSE @]

\* At the tick its orders are matched.  Else the loop goes on until nothing
\* remains or the target is reached.
moved_to(w, price) ==
  LET moved == at_price(w, price)
  IN IF price = SqrtPrice[w.tick_next] THEN [moved EXCEPT !.stage = "match"]
     ELSE IF w.remaining = 0 \/ price = target_price(w, w.tick_next)
     THEN [moved EXCEPT !.stage = "search"]
     ELSE update_dynamic_fee_index(moved)

can_compute(w, s) == s.ok /\ used(w, s) <= w.remaining

swap_compute ==
  /\ in_stage("compute")
  /\ \E top \in {at_loop_top(swap)} :
       \E s \in {step_to_target(top)} :
         /\ can_compute(top, s)
         /\ \E w \in {apply_swap_amounts(top, s)} : swap' = moved_to(w, s.price)
  /\ UNCHANGED <<accounts, ops>>

\* mutant: part-filled orders are passed by
mut_match_limit_order(w) ==
  LET t == w.tick_next
  IN IF w.remaining = 0 \/ w.ticks[t].orders.orders_amount = 0
     THEN [amount_in |-> 0, gross_out |-> 0, fee |-> 0, amount_out |-> 0]
     ELSE AtTick(t)!match_amounts(w.ticks[t].orders, w.remaining, w.zero_for_one,
                                  w.base_input, w.total_fee_rate,
                                  is_fee_on_input(w.zero_for_one))

\* match_limit_order at the tick the swap has reached.
match_limit_order(w) ==
  LET t == w.tick_next
  IN IF w.remaining = 0 \/ unfilled(w.ticks[t].orders) = 0
     THEN [amount_in |-> 0, gross_out |-> 0, fee |-> 0, amount_out |-> 0]
     ELSE AtTick(t)!match_amounts(w.ticks[t].orders, w.remaining, w.zero_for_one,
                                  w.base_input, w.total_fee_rate,
                                  is_fee_on_input(w.zero_for_one))

orders_after(w, m) ==
  LET orders == w.ticks[w.tick_next].orders
  IN IF m.gross_out > 0 THEN AtTick(w.tick_next)!consume(orders, m.gross_out) ELSE orders

matched(w, m) ==
  [(IF m.amount_in > 0 THEN apply_swap_amounts(w, m) ELSE w)
     EXCEPT !.ticks[w.tick_next].orders = orders_after(w, m),
            !.order_in = @ + m.amount_in,
            !.order_out = @ + m.gross_out,
            !.stage = "pass"]

\* If orders were matched and the swap is not used up, none may be left.
can_match(w, m) ==
  /\ used(w, m) <= w.remaining
  /\ used(w, m) # w.remaining /\ m.gross_out > 0 => unfilled(orders_after(w, m)) = 0

swap_match ==
  /\ in_stage("match")
  /\ \E m \in {match_limit_order(swap)} : can_match(swap, m) /\ swap' = matched(swap, m)
  /\ UNCHANGED <<accounts, ops>>

\* mutant: the growth outside is not turned over
mut_cross(T, w) == T

\* TickState::cross, with the growth the swap has reached.
cross(T, w) ==
  [T EXCEPT !.fee_growth_outside =
     [k \in Tokens |->
        wrapping_sub(IF k = fee_token(w.zero_for_one) THEN w.fee_growth
                     ELSE pool.fee_growth_global[k], @[k])]]

\* mutant: the direction of the swap is ignored
mut_crossed_liquidity(w) == w.liquidity + w.ticks[w.tick_next].liquidity_net

crossed_liquidity(w) ==
  LET net == w.ticks[w.tick_next].liquidity_net
  IN w.liquidity + (IF w.zero_for_one THEN -net ELSE net)

\* mutant: a tick is crossed although orders are left at it
mut_crosses(T) == has_liquidity(T)

crosses(T) == has_liquidity(T) /\ ~has_limit_orders(T.orders)

\* mutant: orders left at the tick are ignored
mut_tick_after(w) == IF w.zero_for_one THEN w.tick_next - 1 ELSE w.tick_next

\* The tick the swap is at once it has dealt with tick_next.
tick_after(w) ==
  IF w.zero_for_one = has_limit_orders(w.ticks[w.tick_next].orders)
  THEN w.tick_next ELSE w.tick_next - 1

\* The tick is counted out if the match emptied it, and crossed if no order
\* is left at it.
passed(w) ==
  LET t == w.tick_next
      emptied == ~is_initialized(w.ticks[t])
      crossing == crosses(w.ticks[t])
  IN [w EXCEPT
        !.count = IF emptied THEN counted(@, t, FALSE) ELSE @,
        !.bitmap = IF emptied THEN flipped_bitmap(@, w.count, t, FALSE) ELSE @,
        !.ticks[t] = IF crossing THEN cross(@, w) ELSE @,
        !.liquidity = IF crossing THEN crossed_liquidity(w) ELSE @,
        !.tick = tick_after(w),
        !.stage = "search"]

can_pass(w) == crosses(w.ticks[w.tick_next]) => crossed_liquidity(w) >= 0

swap_pass ==
  /\ in_stage("pass")
  /\ can_pass(swap)
  /\ swap' = passed(swap)
  /\ UNCHANGED <<accounts, ops>>

\* settle_amounts and the checks of exact_internal.
amount_in_of(w) == IF w.base_input THEN w.amount - w.remaining ELSE w.calculated
amount_out_of(w) == IF w.base_input THEN w.calculated ELSE w.amount - w.remaining

can_finish(w) ==
  /\ amount_in_of(w) # 0
  /\ amount_out_of(w) # 0
  /\ IF w.zero_for_one THEN w.sqrt_price <= pool.sqrt_price ELSE w.sqrt_price >= pool.sqrt_price
  /\ w.partial \/ w.remaining = 0

\* mutant: the accumulator stays as the loop left it
mut_final_volatility(w) == w.dynamic_fee

\* update_volatility_accumulator_on_price
final_volatility(w) ==
  LET index == tick_spacing_index_from_tick(get_tick_at_sqrt_price(w.sqrt_price))
  IN IF index = w.tick_spacing_index THEN w.dynamic_fee
     ELSE update_volatility_accumulator(w.dynamic_fee, index)

update_after_swap(w) ==
  LET f == fee_token(w.zero_for_one)
  IN [pool EXCEPT !.sqrt_price = w.sqrt_price, !.tick = w.tick, !.liquidity = w.liquidity,
                  !.fee_growth_global[f] = IF w.lp_fee > 0 THEN w.fee_growth ELSE @,
                  !.protocol_fees[f] = @ + w.protocol_fee,
                  !.fund_fees[f] = @ + w.fund_fee,
                  !.dynamic_fee = final_volatility(w)]

\* The copy replaces the accounts and the tokens change hands.
swap_end ==
  /\ in_stage("search")
  /\ ~loop_continues(swap)
  /\ can_finish(swap)
  /\ pool' = update_after_swap(swap)
  /\ ticks' = swap.ticks
  /\ count' = swap.count
  /\ bitmap' = swap.bitmap
  /\ LET k == sold(swap.zero_for_one)
         m == bought(swap.zero_for_one)
     IN /\ vault' = [vault EXCEPT ![k] = @ + amount_in_of(swap), ![m] = @ - amount_out_of(swap)]
        /\ order_pot' = [order_pot EXCEPT ![k] = @ + swap.order_in, ![m] = @ - swap.order_out]
  /\ fee_pot' = [fee_pot EXCEPT ![fee_token(swap.zero_for_one)] = @ + swap.lp_fee]
  /\ swap' = NoSwap
  /\ UNCHANGED <<position, status, ops>>

\* An error anywhere undoes the instruction.
swap_error ==
  /\ \/ in_stage("search") /\ loop_continues(swap) /\ ~can_find(swap)
     \/ in_stage("compute") /\ \E top \in {at_loop_top(swap)} : ~can_compute(top, step_to_target(top))
     \/ in_stage("match") /\ ~can_match(swap, match_limit_order(swap))
     \/ in_stage("pass") /\ ~can_pass(swap)
     \/ in_stage("search") /\ ~loop_continues(swap) /\ ~can_finish(swap)
  /\ swap' = NoSwap
  /\ UNCHANGED <<accounts, ops>>

(***************************************************************************)
(* The specification.                                                      *)
(***************************************************************************)
NoOrders == [order_phase |-> 0, orders_amount |-> 0,
             part_filled_orders_remaining |-> 0, unfilled_ratio_x64 |-> 0]

Init ==
  /\ \E p \in InitialPrices :
       pool = [sqrt_price |-> p, tick |-> get_tick_at_sqrt_price(p), liquidity |-> 0,
               fee_growth_global |-> [k \in Tokens |-> 0],
               protocol_fees |-> [k \in Tokens |-> 0], fund_fees |-> [k \in Tokens |-> 0],
               dynamic_fee |-> initialize_dynamic_fee_info(get_tick_at_sqrt_price(p))]
  /\ ticks = [t \in Ticks |-> [liquidity_gross |-> 0, liquidity_net |-> 0,
                               fee_growth_outside |-> [k \in Tokens |-> 0],
                               orders |-> NoOrders]]
  /\ count = [a \in Arrays |-> 0]
  /\ bitmap = {}
  /\ position = [p \in Positions |-> NoPosition]
  /\ status = AllOperations
  /\ vault = [k \in Tokens |-> 0]
  /\ fee_pot = [k \in Tokens |-> 0]
  /\ order_pot = [k \in Tokens |-> 0]
  /\ swap = NoSwap
  /\ ops = 0

run_swap ==
  find_next_tick \/ swap_compute \/ swap_match \/ swap_pass \/ swap_end \/ swap_error

Next ==
  \/ \E p \in Positions, r \in Ranges, d \in Deltas : open_position(p, r, d)
  \/ \E p \in Positions, d \in Deltas : increase_liquidity(p, d)
  \/ \E p \in Positions, d \in Deltas : decrease_liquidity(p, d)
  \/ \E p \in Positions : close_position(p)
  \/ \E o \in Orders : open_limit_order(o)
  \/ \E o \in Orders, cohort \in {"orders_amount", "part_filled_orders_remaining"} :
       decrease_limit_order(o.tick, cohort, o.amount)
  \/ \E k \in Tokens, requested \in {1, U64Max} : collect_protocol_fee(k, requested)
  \/ \E k \in Tokens, requested \in {1, U64Max} : collect_fund_fee(k, requested)
  \/ \E s \in Statuses : update_pool_status(s)
  \/ \E s \in Swaps, elapsed \in Elapsed : swap_start(s, elapsed)
  \/ run_swap

Spec == Init /\ [][Next]_vars

\* A swap that has started runs to its end: it is one instruction.
FairSpec == Spec /\ WF_vars(run_swap)

(***************************************************************************)
(* Properties.                                                             *)
(***************************************************************************)
\* Every variable holds a value its account field can hold.
TypeOK ==
  /\ pool.sqrt_price \in Nat /\ pool.tick \in (MinTick - 1) .. MaxTick
  /\ pool.liquidity \in Nat
  /\ \A k \in Tokens : /\ pool.fee_growth_global[k] \in 0 .. (Growth - 1)
                       /\ pool.protocol_fees[k] \in Nat /\ pool.fund_fees[k] \in Nat
  /\ \A t \in Ticks : /\ ticks[t].liquidity_gross \in Nat
                      /\ ticks[t].liquidity_net \in Int
                      /\ \A k \in Tokens : ticks[t].fee_growth_outside[k] \in 0 .. (Growth - 1)
  /\ count \in [Arrays -> Nat]
  /\ bitmap \subseteq Arrays
  /\ \A p \in OpenPositions : position[p].liquidity \in Nat
  /\ status \subseteq AllOperations

liquidity_of(S) == [p \in Positions |-> IF p \in S THEN position[p].liquidity ELSE 0]
liquidity_sum(S) == SumFunctionOnSet(liquidity_of(S), Positions)

\* PoolState.liquidity is the liquidity of the positions whose range holds the
\* current tick, however the price came to be there: across partial fills at
\* an order tick, boundaries reached from either side and ranges opened or
\* burnt at the boundary.
LiquidityInRange ==
  pool.liquidity =
    liquidity_sum({p \in OpenPositions :
                     in_range(position[p].lower, position[p].upper, pool.tick)})

\* What crossing a tick does is the sum over the positions that end there.
TickSums ==
  \A t \in Ticks :
    LET lower == {p \in OpenPositions : position[p].lower = t}
        upper == {p \in OpenPositions : position[p].upper = t}
    IN /\ ticks[t].liquidity_gross = liquidity_sum(lower) + liquidity_sum(upper)
       /\ ticks[t].liquidity_net = liquidity_sum(lower) - liquidity_sum(upper)

\* initialized_tick_count and the bitmap show exactly the initialized ticks,
\* whether liquidity or orders initialized them and whichever of the two went
\* first.
ArraysExact ==
  \A a \in Arrays :
    /\ count[a] = Cardinality(initialized_in(ticks, a))
    /\ (a \in bitmap) = (count[a] > 0)

\* The price lies in the current tick, or at its upper end if the tick above
\* was left by crossing it downwards or stopped at from below.
PriceInTick ==
  /\ pool.tick >= MinTick => SqrtPrice[pool.tick] <= pool.sqrt_price
  /\ pool.tick < MaxTick => pool.sqrt_price <= SqrtPrice[pool.tick + 1]

\* The loop's search, through one array at a time and the bitmap, finds the
\* nearest initialized tick in the swap's direction: no tick is passed over.
SearchFindsNearest ==
  in_stage("search") /\ loop_continues(swap) =>
    LET all == {t \in Ticks : is_initialized(swap.ticks[t])
                               /\ ahead(t, swap.tick, swap.zero_for_one)}
    IN IF all = {} THEN found_ticks(swap) = {}
       ELSE /\ found_ticks(swap) # {}
            /\ nearest(found_ticks(swap), swap.zero_for_one) = nearest(all, swap.zero_for_one)

latest_fees(p, k) ==
  update_fee_and_reward(position[p], ticks).token_fees_owed[k]

\* The LP fees that swaps brought in cover what all positions can collect, at
\* every moment and in every order of collecting.
FeesBacked ==
  \A k \in Tokens :
    fee_pot[k] >= MapThenSumSet(LAMBDA p : latest_fees(p, k), OpenPositions)

withdrawable(p, k) ==
  range_amounts(position[p].lower, position[p].upper, position[p].liquidity, FALSE)[k + 1]

\* Each vault holds what all positions can withdraw and collect, the protocol
\* and fund fees, and what limit orders have in it.
Solvent ==
  \A k \in Tokens :
    vault[k] >= pool.protocol_fees[k] + pool.fund_fees[k] + order_pot[k]
                  + MapThenSumSet(LAMBDA p : withdrawable(p, k) + latest_fees(p, k),
                                  OpenPositions)

\* The orders resting at a tick sell the token that the current tick says they
\* do: the deposits and matches behind them left that token in its vault, so
\* a swap that reaches them from either side is paid in the token they hold.
OrdersBacked ==
  \A k \in Tokens :
    order_pot[k] >= MapThenSumSet(LAMBDA t : IF sold(pool.tick < t) = k
                                             THEN unfilled(ticks[t].orders) ELSE 0, Ticks)

\* "One of the two parties must be equal to 0 to exit the loop" (swap.rs:772),
\* of swaps that name their output: once such a swap has met the orders of a
\* tick, it is used up or they are.
OnePartyDone ==
  in_stage("pass") /\ ~swap.base_input =>
    \/ swap.remaining = 0
    \/ unfilled(swap.ticks[swap.tick_next].orders) = 0

\* The same of every swap.
OnePartyUsedUp ==
  in_stage("pass") =>
    \/ swap.remaining = 0
    \/ unfilled(swap.ticks[swap.tick_next].orders) = 0

\* Every swap ends, by using up its amount, at its limit or with an error.
SwapTerminates == swap.running ~> ~swap.running

\* Between swaps the volatility is that of the price, measured from the
\* reference: whichever groups of ticks the loop went through one by one and
\* whichever it skipped, at the maximum or without liquidity.
VolatilityExact ==
  FeeConfig.enabled =>
    pool.dynamic_fee.volatility_accumulator =
      volatility_at(pool.dynamic_fee,
                    tick_spacing_index_from_tick(get_tick_at_sqrt_price(pool.sqrt_price)))

\* "Each iteration processes one step from current price to the next
\* initialized tick" (swap.rs:573): no step of a swap moves the price against
\* its direction.
PriceOneWay ==
  [][swap.running /\ swap'.running =>
       IF swap.zero_for_one THEN swap'.sqrt_price <= swap.sqrt_price
       ELSE swap'.sqrt_price >= swap.sqrt_price]_vars

\* Liquidity, in the pool and at each tick, is that of the positions.
LiquidityExact == TypeOK /\ LiquidityInRange /\ TickSums /\ PriceInTick

\* No initialized tick is out of a swap's sight: counts, bitmap and search agree.
TicksFound == ArraysExact /\ SearchFindsNearest

\* The vaults cover positions, fees and orders, each kind of claim on its own part,
\* and no transfer out of them asks for more than they hold.
VaultsCover == vault \in [Tokens -> Nat] /\ Solvent /\ FeesBacked /\ OrdersBacked
=============================================================================
