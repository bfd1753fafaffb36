----------------------------- MODULE LimitOrder -----------------------------
(***************************************************************************)
(* Limit orders resting at one tick of a pool (programs/amm).              *)
(*                                                                         *)
(* Orders placed at a tick wait in cohorts.  TickState.orders_amount holds *)
(* the newest cohort, which no swap has touched; the cohort before it is   *)
(* being filled and only part_filled_orders_remaining of it is left.  A    *)
(* swap fills the older cohort first; when it eats into orders_amount that *)
(* cohort becomes the part-filled one and order_phase grows by one.  No    *)
(* swap visits the orders: an order computes its own fill from the tick's  *)
(* unfilled_ratio_x64, relative to the ratio it saw when its current       *)
(* segment began.                                                          *)
(*                                                                         *)
(* The module has one tick, at index 0, in one tick array; the other ticks *)
(* of the array are one Boolean.  All instructions of limit_order/*.rs are *)
(* actions, with the part of swap_internal that happens at this tick.      *)
(* Amounts are what the vault receives, after the mint's transfer fee.     *)
(***************************************************************************)
EXTENDS TickOrders, FiniteSetsExt

CONSTANTS
  FeeRates,     \* the total fee rates a swap may be charged
  MaxOrders,    \* model bound: orders opened
  MaxAmount,    \* model bound: the amount named in one instruction
  Statuses,     \* model bound: the values of status the administrator sets
  OtherTicks,   \* model bound: do positions use another tick of the array?
  TopUpEmptied  \* do owners increase an order that has nothing unfilled?

ASSUME PriceAssumption ==
  /\ Q64 \in Nat \ {0}
  /\ PriceLo \in Nat \ {0}
  /\ PriceHi \in {PriceLo, PriceLo + 1}

ASSUME BoundAssumption ==
  /\ U64Max \in Nat
  /\ PhaseMax \in Nat \ {0}
  /\ MaxOrders \in Nat
  /\ MaxAmount \in Nat \ {0}
  /\ Statuses \subseteq SUBSET {"LimitOrder", "Swap"}
  /\ OtherTicks \in BOOLEAN
  /\ TopUpEmptied \in BOOLEAN

ASSUME FeeAssumption ==
  /\ FeeDenom \in Nat \ {0}
  /\ FeeRates \subseteq 0 .. (FeeDenom - 1)

VARIABLES
  tick,          \* the limit-order fields of TickState
  order,         \* the LimitOrderState accounts, by nonce
  order_nonce,   \* LimitOrderNonce.order_nonce
  tick_current,  \* PoolState.tick_current: -1 below the tick, 0 at, 1 above
  status,        \* the operations PoolState.status allows
  others,        \* is another tick of the array initialized?
  count,         \* TickArrayState.initialized_tick_count
  bit,           \* the array's bit in the tick array bitmap
  vault          \* what limit orders at this tick brought into each vault

vars == <<tick, order, order_nonce, tick_current, status, others, count, bit, vault>>

Ids == 0 .. (MaxOrders - 1)
Amounts == 1 .. MaxAmount

NoOrder == [open |-> FALSE]

OrderState ==
  [open: {TRUE}, zero_for_one: BOOLEAN, order_phase: Nat, total_amount: Nat,
   filled_amount: Nat, unfilled_ratio_x64: Nat, settle_base: Nat,
   settled_output: Nat]

TickState ==
  [order_phase: Nat, orders_amount: Nat, part_filled_orders_remaining: Nat,
   unfilled_ratio_x64: Nat]

OpenIds == {i \in Ids : order[i].open}

get_unfilled_amount(o) == o.total_amount - o.filled_amount

(***************************************************************************)
(* LimitOrderState.  Each operator returns the order afterwards, what it   *)
(* pays, and ok = FALSE where the code returns an error.                   *)
(***************************************************************************)
initialize(zero_for_one, amount, phase) ==
  [open |-> TRUE, zero_for_one |-> zero_for_one, order_phase |-> phase,
   total_amount |-> amount, filled_amount |-> 0, unfilled_ratio_x64 |-> Q64,
   settle_base |-> amount, settled_output |-> 0]

unpaid(o) == [ok |-> TRUE, order |-> o, payout |-> 0]

\* Mutants: no dust kept back at an inexact fill; the remainder rounded up.
mut_settle_part_filled(o, t) ==
  LET ideal_remaining == (o.settle_base * t.unfilled_ratio_x64) \div o.unfilled_ratio_x64
      total_output == get_limit_order_output(o.settle_base - ideal_remaining, o.zero_for_one)
  IN [ok |-> TRUE,
      order |-> [o EXCEPT !.filled_amount = o.total_amount - ideal_remaining,
                          !.settled_output = total_output],
      payout |-> saturating_sub(total_output, o.settled_output)]

mut_settle_rounded_up(o, t) ==
  LET ideal_remaining == mul_div_ceil(o.settle_base, t.unfilled_ratio_x64, o.unfilled_ratio_x64)
      total_output == get_limit_order_output(o.settle_base - ideal_remaining, o.zero_for_one)
  IN [ok |-> TRUE,
      order |-> [o EXCEPT !.filled_amount = o.total_amount - ideal_remaining,
                          !.settled_output = total_output],
      payout |-> saturating_sub(total_output, o.settled_output)]

settle_part_filled(o, t) ==
  LET numerator == o.settle_base * t.unfilled_ratio_x64
      ideal_remaining == numerator \div o.unfilled_ratio_x64
      is_exact == numerator % o.unfilled_ratio_x64 = 0
      total_filled == saturating_sub(o.settle_base, ideal_remaining)
      effective_filled == IF is_exact THEN total_filled ELSE total_filled - 1
      total_output == get_limit_order_output(effective_filled, o.zero_for_one)
  IN IF total_filled = 0 THEN unpaid(o)
     ELSE [ok |-> ideal_remaining <= o.total_amount,
           order |-> [o EXCEPT !.filled_amount = o.total_amount - ideal_remaining,
                               !.settled_output = total_output],
           payout |-> saturating_sub(total_output, o.settled_output)]

\* Mutant: the fill is paid but not recorded.
mut_settle_fully_filled(o) ==
  [ok |-> TRUE,
   order |-> [o EXCEPT !.settle_base = 0, !.settled_output = 0],
   payout |-> saturating_sub(get_limit_order_output(o.settle_base, o.zero_for_one),
                             o.settled_output)]

settle_fully_filled(o) ==
  [ok |-> TRUE,
   order |-> [o EXCEPT !.filled_amount = o.total_amount,
                       !.settle_base = 0,
                       !.settled_output = 0],
   payout |-> saturating_sub(get_limit_order_output(o.settle_base, o.zero_for_one),
                             o.settled_output)]

settle_filled_order(o, t) ==
  CASE o.settle_base = 0 -> unpaid(o)
    [] o.settle_base # 0 /\ o.order_phase = t.order_phase -> unpaid(o)
    [] o.settle_base # 0 /\ o.order_phase # t.order_phase
         /\ phase_after(o.order_phase, 1) = t.order_phase -> settle_part_filled(o, t)
    [] o.settle_base # 0 /\ phase_after(o.order_phase, 1) # t.order_phase
         /\ o.order_phase # t.order_phase
         /\ phase_after(o.order_phase, 2) <= t.order_phase -> settle_fully_filled(o)
    [] OTHER -> [ok |-> FALSE, order |-> o, payout |-> 0]

increase_amount(o, amount) ==
  [o EXCEPT !.total_amount = @ + amount, !.settle_base = @ + amount]

\* How much of `amount` the order may take back: the cohort it belongs to
\* bounds it.
real_decrease(o, t, amount) ==
  LET wanted == least(amount, get_unfilled_amount(o))
  IN IF o.order_phase = t.order_phase
     THEN wanted
     ELSE least(wanted, t.part_filled_orders_remaining)

\* Mutants: the segment base of an untouched order is not lowered; the base of
\* a new segment still counts what is filled.
mut_after_decrease(o, t, d) ==
  IF o.order_phase # t.order_phase
  THEN [o EXCEPT !.total_amount = @ - d,
                 !.settle_base = o.total_amount - d - o.filled_amount,
                 !.unfilled_ratio_x64 = t.unfilled_ratio_x64,
                 !.settled_output = 0]
  ELSE [o EXCEPT !.total_amount = @ - d]

mut_after_decrease_base(o, t, d) ==
  [o EXCEPT !.total_amount = @ - d,
            !.settle_base = o.total_amount - d,
            !.unfilled_ratio_x64 =
              IF o.order_phase # t.order_phase THEN t.unfilled_ratio_x64 ELSE @,
            !.settled_output = 0]

\* The order once `d` has left it: a part-filled order starts a new segment.
after_decrease(o, t, d) ==
  IF o.order_phase # t.order_phase
  THEN [o EXCEPT !.total_amount = @ - d,
                 !.settle_base = o.total_amount - d - o.filled_amount,
                 !.unfilled_ratio_x64 = t.unfilled_ratio_x64,
                 !.settled_output = 0]
  ELSE [o EXCEPT !.total_amount = @ - d, !.settle_base = o.total_amount - d]

\* Mutant: the two cohorts are swapped.
mut_tick_after_decrease(o, t, d) ==
  IF o.order_phase # t.order_phase
  THEN [t EXCEPT !.orders_amount = @ - d]
  ELSE [t EXCEPT !.part_filled_orders_remaining = @ - d]

tick_after_decrease(o, t, d) ==
  IF o.order_phase = t.order_phase
  THEN [t EXCEPT !.orders_amount = @ - d]
  ELSE [t EXCEPT !.part_filled_orders_remaining = @ - d]

\* OrderAlreadyFilled: the order has something left but its cohort is gone.
already_filled(o, t) ==
  /\ get_unfilled_amount(o) # 0
  /\ o.order_phase # t.order_phase
  /\ phase_after(o.order_phase, 1) # t.order_phase

decrease_amount(o, t, amount) ==
  LET s == settle_filled_order(o, t)
      d == IF get_unfilled_amount(s.order) = 0 THEN 0
           ELSE real_decrease(s.order, t, amount)
      left == after_decrease(s.order, t, d)
  IN IF d = 0
     THEN [ok |-> s.ok /\ ~already_filled(s.order, t), order |-> s.order,
           tick |-> t, payout |-> s.payout, decrease |-> 0]
     ELSE [ok |-> /\ s.ok
                  /\ ~already_filled(s.order, t)
                  /\ o.order_phase = t.order_phase => d <= t.orders_amount
                  /\ get_unfilled_amount(left) > 0 =>
                       check_limit_order_amount(get_unfilled_amount(left), o.zero_for_one),
           order |-> left, tick |-> tick_after_decrease(s.order, t, d),
           payout |-> s.payout, decrease |-> d]

(***************************************************************************)
(* The tick array's count of initialized ticks and its bitmap bit.  The    *)
(* tick of this module carries no position, so only orders initialize it.  *)
(***************************************************************************)
count_up == /\ count' = count + 1
            /\ bit' = (IF count = 0 THEN ~bit ELSE bit)

\* Mutant: the bit is not flipped when the array empties.
mut_count_down == /\ count > 0
                  /\ count' = count - 1
                  /\ bit' = bit

count_down == /\ count > 0
              /\ count' = count - 1
              /\ bit' = (IF count = 1 THEN ~bit ELSE bit)

recount(before, after) ==
  IF before = after THEN UNCHANGED <<count, bit>>
  ELSE IF after THEN count_up ELSE count_down

\* A saturated order_phase cannot start another cohort.
accepts_orders(t) == t.order_phase < PhaseMax

\* The token an order at the tick sells, and the one it buys.
sold(zero_for_one) == IF zero_for_one THEN 0 ELSE 1
bought(zero_for_one) == IF zero_for_one THEN 1 ELSE 0

(***************************************************************************)
(* Instructions of the order's owner (settle and close may also be signed  *)
(* by the limit_order_admin).                                              *)
(***************************************************************************)
\* Mutant: an order may be placed at the current tick.
mut_check_tick_index(zero_for_one) ==
  IF zero_for_one THEN tick_current <= 0 ELSE tick_current >= 0

check_tick_index(zero_for_one) ==
  IF zero_for_one THEN tick_current < 0 ELSE tick_current > 0

open_limit_order(zero_for_one, amount) ==
  /\ {"LimitOrder", "Swap"} \subseteq status
  /\ check_tick_index(zero_for_one)
  /\ check_limit_order_amount(amount, zero_for_one)
  /\ accepts_orders(tick)
  /\ tick.orders_amount + amount <= U64Max
  /\ order_nonce < MaxOrders
  /\ order' = [order EXCEPT ![order_nonce] =
                 initialize(zero_for_one, amount, tick.order_phase)]
  /\ tick' = [tick EXCEPT !.orders_amount = @ + amount]
  /\ recount(has_limit_orders(tick), TRUE)
  /\ order_nonce' = order_nonce + 1
  /\ vault' = [vault EXCEPT ![sold(zero_for_one)] = @ + amount]
  /\ UNCHANGED <<tick_current, status, others>>

\* Neither the side of the tick nor the array's count is looked at again.
increase_limit_order(i, amount) ==
  /\ order[i].open
  /\ {"LimitOrder", "Swap"} \subseteq status
  /\ order[i].order_phase = tick.order_phase
  /\ TopUpEmptied \/ get_unfilled_amount(order[i]) > 0
  /\ order[i].total_amount + amount <= U64Max
  /\ tick.orders_amount + amount <= U64Max
  /\ check_limit_order_amount(order[i].total_amount + amount, order[i].zero_for_one)
  /\ order' = [order EXCEPT ![i] = increase_amount(@, amount)]
  /\ tick' = [tick EXCEPT !.orders_amount = @ + amount]
  /\ vault' = [vault EXCEPT ![sold(order[i].zero_for_one)] = @ + amount]
  /\ UNCHANGED <<order_nonce, tick_current, status, others, count, bit>>

\* vault, once `back` of the sold token and `paid` of the bought one are sent
\* to the owner.
pay_owner(zero_for_one, back, paid) ==
  [vault EXCEPT ![sold(zero_for_one)] = @ - back, ![bought(zero_for_one)] = @ - paid]

decrease_limit_order(i, amount) ==
  /\ order[i].open
  /\ LET r == decrease_amount(order[i], tick, amount)
     IN /\ r.ok
        /\ order' = [order EXCEPT ![i] = r.order]
        /\ tick' = r.tick
        /\ recount(has_limit_orders(tick), has_limit_orders(r.tick))
        /\ vault' = pay_owner(order[i].zero_for_one, r.decrease, r.payout)
  /\ UNCHANGED <<order_nonce, tick_current, status, others>>

settle_limit_order(i) ==
  /\ order[i].open
  /\ LET s == settle_filled_order(order[i], tick)
     IN /\ s.ok
        /\ get_unfilled_amount(s.order) # 0 => s.payout > 0
        /\ order' = [order EXCEPT ![i] = s.order]
        /\ vault' = pay_owner(order[i].zero_for_one, 0, s.payout)
  /\ UNCHANGED <<tick, order_nonce, tick_current, status, others, count, bit>>

\* Only an order with nothing unfilled is closed.  (Mutant: no guard.)
mut_closable(o) == o.open
closable(o) == get_unfilled_amount(o) = 0

close_limit_order(i) ==
  /\ order[i].open
  /\ closable(order[i])
  /\ order' = [order EXCEPT ![i] = NoOrder]
  /\ UNCHANGED <<tick, order_nonce, tick_current, status, others, count, bit, vault>>

(***************************************************************************)
(* Swaps.  A swap finds the tick when the bitmap leads it to the array and *)
(* the tick is initialized; it comes from above when zero_for_one.         *)
(***************************************************************************)
finds_tick == bit /\ has_limit_orders(tick)

side_after(zero_for_one, t) ==
  CASE zero_for_one /\ has_limit_orders(t) -> 0
    [] zero_for_one /\ ~has_limit_orders(t) -> -1
    [] ~zero_for_one /\ has_limit_orders(t) -> -1
    [] ~zero_for_one /\ ~has_limit_orders(t) -> 0

\* swap_internal at this tick, with `amount` of the swap left on arrival.  A
\* match that buys nothing leaves the tick as it is and can only add to the
\* vault: it is left out, and keeps the state space finite.
swap_at_tick(zero_for_one, amount, base_input, rate, on_input) ==
  /\ "Swap" \in status
  /\ finds_tick
  /\ IF zero_for_one THEN tick_current >= 0 ELSE tick_current < 0
  /\ LET m == match_amounts(tick, amount, zero_for_one, base_input, rate, on_input)
         t == consume(tick, m.gross_out)
     IN /\ m.gross_out > 0
        /\ m.amount_in <= U64Max
        /\ tick' = t
        /\ recount(TRUE, has_limit_orders(t))
        /\ tick_current' = side_after(zero_for_one, t)
        /\ vault' = [vault EXCEPT ![sold(zero_for_one)] = @ + m.amount_in,
                                  ![bought(zero_for_one)] = @ - m.gross_out]
  /\ UNCHANGED <<order, order_nonce, status, others>>

\* A swap elsewhere in the pool moves the price; it passes the tick only when
\* it does not find it.
move_price(to) ==
  /\ "Swap" \in status
  /\ to # tick_current
  /\ (to < 0) # (tick_current < 0) => ~finds_tick
  /\ tick_current' = to
  /\ UNCHANGED <<tick, order, order_nonce, status, others, count, bit, vault>>

(***************************************************************************)
(* Positions at another tick of the array, and the pool's administrator.   *)
(***************************************************************************)
flip_other_tick ==
  /\ OtherTicks
  /\ others' = ~others
  /\ IF others THEN count_down ELSE count_up
  /\ UNCHANGED <<tick, order, order_nonce, tick_current, status, vault>>

update_pool_status(s) ==
  /\ status' = s
  /\ UNCHANGED <<tick, order, order_nonce, tick_current, others, count, bit, vault>>

Init ==
  /\ tick = [order_phase |-> 0, orders_amount |-> 0,
             part_filled_orders_remaining |-> 0, unfilled_ratio_x64 |-> 0]
  /\ order = [i \in Ids |-> NoOrder]
  /\ order_nonce = 0
  /\ tick_current \in {-1, 1}
  /\ status = {"LimitOrder", "Swap"}
  /\ others = FALSE
  /\ count = 0
  /\ bit = FALSE
  /\ vault = [k \in 0 .. 1 |-> 0]

Next ==
  \/ \E zero_for_one \in BOOLEAN, a \in Amounts : open_limit_order(zero_for_one, a)
  \/ \E i \in Ids, a \in Amounts : increase_limit_order(i, a)
  \/ \E i \in Ids, a \in Amounts : decrease_limit_order(i, a)
  \/ \E i \in Ids : settle_limit_order(i)
  \/ \E i \in Ids : close_limit_order(i)
  \/ \E zero_for_one \in BOOLEAN, a \in Amounts, base_input \in BOOLEAN,
        rate \in FeeRates, on_input \in BOOLEAN :
       swap_at_tick(zero_for_one, a, base_input, rate, on_input)
  \/ \E to \in -1 .. 1 : move_price(to)
  \/ flip_other_tick
  \/ \E s \in Statuses : update_pool_status(s)

Spec == Init /\ [][Next]_vars

(***************************************************************************)
(* Properties.                                                             *)
(***************************************************************************)
\* Every variable holds a value its account field can hold.
TypeOK ==
  /\ tick \in TickState
  /\ order \in [Ids -> OrderState \cup {NoOrder}]
  /\ order_nonce \in Nat
  /\ tick_current \in -1 .. 1
  /\ status \subseteq {"LimitOrder", "Swap"}
  /\ others \in BOOLEAN
  /\ count \in Nat
  /\ bit \in BOOLEAN
  /\ vault \in [0 .. 1 -> Int]

\* What order `i` would be paid if it were settled now.
pending(i) == settle_filled_order(order[i], tick).payout

\* What order `i` could take back if it were cancelled now.
refund(i) == decrease_amount(order[i], tick, U64Max).decrease

claims(k) ==
  MapThenSumSet(LAMBDA i : (IF sold(order[i].zero_for_one) = k THEN refund(i) ELSE 0)
                             + (IF bought(order[i].zero_for_one) = k THEN pending(i) ELSE 0),
                OpenIds)

\* Cancelling an order with something unfilled always succeeds and returns all
\* of it: the cap at part_filled_orders_remaining in decrease_amount never
\* binds, so the cohort's orders never claim more than the tick has left.
RefundsInFull ==
  \A i \in OpenIds :
    LET r == decrease_amount(order[i], tick, U64Max)
    IN /\ r.ok
       /\ r.decrease = get_unfilled_amount(settle_filled_order(order[i], tick).order)

\* How an order may look beside its tick: its phase is never ahead; an order of
\* the current phase is untouched; what it has not recorded as filled lies
\* within its segment and is at least what the tick's ratio leaves of it; and
\* the ratio it divides by is not zero.
fits(o, t) ==
  /\ o.order_phase <= t.order_phase
  /\ o.order_phase < PhaseMax
  /\ o.unfilled_ratio_x64 > 0
  /\ o.filled_amount <= o.total_amount
  /\ o.settle_base <= o.total_amount
  /\ get_unfilled_amount(o) <= o.settle_base
  /\ o.order_phase = t.order_phase =>
       /\ o.filled_amount = 0
       /\ o.settle_base = o.total_amount
       /\ o.settled_output = 0
       /\ o.unfilled_ratio_x64 = Q64
  /\ o.order_phase + 1 = t.order_phase =>
       (o.settle_base * t.unfilled_ratio_x64) \div o.unfilled_ratio_x64
         <= get_unfilled_amount(o)

\* Every open order fits the tick, in whatever order it was filled, settled and
\* partly cancelled: settle_filled_order never divides by zero, and neither its
\* subtractions nor those of decrease_amount can underflow.
OrderShape == \A i \in OpenIds : fits(order[i], tick)

\* The two errors the code calls impossible stay so: settling an open order
\* never meets InvalidOrderPhase or an overflow, and a settled order with
\* something unfilled never belongs to a cohort that is gone (OrderAlreadyFilled,
\* limit_order.rs:215).
NeverStranded ==
  \A i \in OpenIds :
    LET s == settle_filled_order(order[i], tick)
    IN s.ok /\ ~already_filled(s.order, tick)

\* Once order_phase saturates at u64::MAX no untouched cohort can exist, so the
\* saturating_add in match_limit_order never merges two cohorts.
SaturatesEmpty ==
  /\ tick.order_phase <= PhaseMax
  /\ tick.order_phase = PhaseMax => tick.orders_amount = 0

\* initialized_tick_count counts the initialized ticks of the array, and the
\* bitmap bit is set exactly when there is one: otherwise a swap does not find
\* the array (open_limit_order.rs:164).
CountExact ==
  /\ count = (IF others THEN 1 ELSE 0) + (IF has_limit_orders(tick) THEN 1 ELSE 0)
  /\ bit = (count > 0)

\* All that is unfilled at the tick is on offer to swaps coming from one side,
\* the side on which the price is: nothing is matched in the wrong token.
OneSided ==
  \A i \in OpenIds :
    get_unfilled_amount(settle_filled_order(order[i], tick).order) > 0
      => order[i].zero_for_one = (tick_current < 0)

\* The vaults hold enough of each token to settle and cancel every open order
\* at once (settle_filled_order, decrease_amount): what swaps paid, rounded up,
\* covers what orders are paid, rounded down, across cohorts, partial fills,
\* cancellations and the dust kept back at inexact fills.  Each fill rounds the
\* ratio down, by up to amount / Q64 of a unit of an order: that the dust makes
\* up for it depends on amounts that are small beside Q64, as in the runs.
ClaimsCovered == \A k \in 0 .. 1 : vault[k] >= claims(k)

\* What a swap reads of the tick is what its orders are: it is counted in its array
\* while somebody waits there, everything on offer is on the price's side, and
\* the cohorts hold all that their orders may still take back.
TickExact == TypeOK /\ CountExact /\ OneSided /\ RefundsInFull

\* Closing an order (close_limit_order) forfeits at most the output of the one
\* unit that settle_filled_order keeps back at an inexact fill.
CloseForfeitsDust ==
  [][\A i \in OpenIds :
       order'[i] = NoOrder =>
         pending(i) <= get_limit_order_output(1, order[i].zero_for_one) + 1]_vars

\* Phases and what an order knows to be filled never go back, whatever the
\* order of swaps, settlements and partial cancellations.
fills_grow ==
  /\ tick'.order_phase >= tick.order_phase
  /\ \A i \in OpenIds : order'[i].open =>
       /\ order'[i].order_phase = order[i].order_phase
       /\ order'[i].filled_amount >= order[i].filled_amount

FillsMonotone == [][fills_grow]_vars
=============================================================================
