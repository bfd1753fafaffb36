-------------------------- MODULE LimitOrderProofs --------------------------
(***************************************************************************)
(* Proofs about LimitOrder, for every price, fixed-point unit, bound and   *)
(* number of orders.  The inductive invariant is TypeOK, OrderShape and    *)
(* SaturatesEmpty together: an order's subtractions stay in Nat only       *)
(* because it fits its tick, and it keeps fitting when the phase grows     *)
(* only because no order can be opened in a saturated phase.               *)
(***************************************************************************)
EXTENDS LimitOrder, SumTheorems, TLAPS

(***************************************************************************)
(* Arithmetic.                                                             *)
(***************************************************************************)
\* Integer division by a positive number, as mul_div_floor uses it.
LEMMA DivBounds ==
  ASSUME NEW a \in Nat, NEW d \in Nat, d > 0
  PROVE  /\ a \div d \in Nat
         /\ d * (a \div d) <= a
         /\ a < d * (a \div d) + d
  OBVIOUS

\* A quotient is at most b when the dividend is at most b * d.
LEMMA DivLe ==
  ASSUME NEW a \in Nat, NEW b \in Nat, NEW d \in Nat, d > 0, a <= b * d
  PROVE  a \div d <= b
  BY DivBounds

\* Division is monotone in the dividend.
LEMMA DivMono ==
  ASSUME NEW a \in Nat, NEW b \in Nat, NEW d \in Nat, d > 0, a <= b
  PROVE  a \div d <= b \div d
  BY DivBounds

\* Multiplication is monotone.
LEMMA MulMono ==
  ASSUME NEW a \in Nat, NEW b \in Nat, NEW c \in Nat, b <= c
  PROVE  a * b \in Nat /\ a * c \in Nat /\ a * b <= a * c
  OBVIOUS

\* Scaling by a fraction m / n with m <= n never increases (mul_div_floor in
\* match_limit_order).
LEMMA ScaleLe ==
  ASSUME NEW r \in Nat, NEW m \in Nat, NEW n \in Nat, n > 0, m <= n
  PROVE  mul_div_floor(r, m, n) \in Nat /\ mul_div_floor(r, m, n) <= r
<1>1. r * m \in Nat /\ r * n \in Nat /\ r * m <= r * n
  BY MulMono
<1>2. (r * m) \div n \in Nat /\ (r * m) \div n <= r
  BY <1>1, DivBounds, DivLe
<1> QED
  BY <1>2 DEF mul_div_floor

\* The output of a limit order is a natural number (get_limit_order_output).
LEMMA OutputNat ==
  ASSUME NEW a \in Nat, NEW z \in BOOLEAN
  PROVE  get_limit_order_output(a, z) \in Nat
<1>1. /\ a * PriceLo \in Nat /\ a * Q64 \in Nat
      /\ Q64 \in Nat /\ Q64 > 0 /\ PriceHi \in Nat /\ PriceHi > 0
  BY PriceAssumption
<1>2. (a * PriceLo) \div Q64 \in Nat /\ (a * Q64) \div PriceHi \in Nat
  BY <1>1, DivBounds
<1> QED
  BY <1>2 DEF get_limit_order_output, mul_div_floor

(***************************************************************************)
(* Settling an order.                                                      *)
(***************************************************************************)
\* An order with its fill recorded (settle_filled_order).
filled_to(o, f, x) == [o EXCEPT !.filled_amount = f, !.settled_output = x]

\* Recording a fill keeps the type of an order and its other fields.
LEMMA FilledTo ==
  ASSUME NEW o \in OrderState, NEW f \in Nat, NEW x \in Nat
  PROVE  /\ filled_to(o, f, x) \in OrderState
         /\ filled_to(o, f, x).order_phase = o.order_phase
         /\ filled_to(o, f, x).total_amount = o.total_amount
         /\ filled_to(o, f, x).filled_amount = f
         /\ filled_to(o, f, x).settle_base = o.settle_base
         /\ filled_to(o, f, x).unfilled_ratio_x64 = o.unfilled_ratio_x64
  BY DEF OrderState, filled_to

\* Likewise for an order whose cohort is entirely filled.
LEMMA OrderFinish ==
  ASSUME NEW o \in OrderState
  PROVE  LET p == [o EXCEPT !.filled_amount = o.total_amount, !.settle_base = 0,
                            !.settled_output = 0]
         IN /\ p \in OrderState
            /\ p.order_phase = o.order_phase /\ p.total_amount = o.total_amount
            /\ p.filled_amount = o.total_amount /\ p.settle_base = 0
            /\ p.settled_output = 0 /\ p.unfilled_ratio_x64 = o.unfilled_ratio_x64
  BY DEF OrderState

\* A settled order is an order that fits the tick, of the same phase, side and
\* total, with no less filled; settling meets no error (settle_filled_order).
LEMMA SettleFits ==
  ASSUME NEW o \in OrderState, NEW t \in TickState, fits(o, t)
  PROVE  LET s == settle_filled_order(o, t)
         IN /\ s.ok
            /\ s.order \in OrderState
            /\ s.payout \in Nat
            /\ fits(s.order, t)
            /\ s.order.order_phase = o.order_phase
            /\ s.order.total_amount = o.total_amount
            /\ s.order.filled_amount >= o.filled_amount
            /\ ~already_filled(s.order, t)
            /\ t.unfilled_ratio_x64 = 0 /\ o.order_phase # t.order_phase
                 => get_unfilled_amount(s.order) = 0
<1> DEFINE s == settle_filled_order(o, t)
<1>0. /\ o.order_phase \in Nat /\ t.order_phase \in Nat /\ o.total_amount \in Nat
      /\ o.filled_amount \in Nat /\ o.settle_base \in Nat /\ o.settled_output \in Nat
      /\ o.unfilled_ratio_x64 \in Nat /\ t.unfilled_ratio_x64 \in Nat
      /\ o.zero_for_one \in BOOLEAN /\ PhaseMax \in Nat /\ o.open = TRUE
  BY BoundAssumption DEF OrderState, TickState
<1>1. CASE o.settle_base = 0
  <2>1. s = unpaid(o)
    BY <1>1 DEF settle_filled_order
  <2>2. get_unfilled_amount(o) = 0
    BY <1>0, <1>1 DEF fits, get_unfilled_amount
  <2> QED
    BY <2>1, <2>2, <1>0 DEF unpaid, already_filled
<1>2. CASE o.settle_base # 0 /\ o.order_phase = t.order_phase
  <2>1. s = unpaid(o)
    BY <1>2 DEF settle_filled_order
  <2> QED
    BY <2>1, <1>2, <1>0 DEF unpaid, already_filled
<1>3. CASE o.settle_base # 0 /\ o.order_phase + 1 = t.order_phase
  <2> DEFINE numerator == o.settle_base * t.unfilled_ratio_x64
             ideal == numerator \div o.unfilled_ratio_x64
             filled == saturating_sub(o.settle_base, ideal)
             effective == IF numerator % o.unfilled_ratio_x64 = 0 THEN filled ELSE filled - 1
             out == get_limit_order_output(effective, o.zero_for_one)
  <2>1. phase_after(o.order_phase, 1) = t.order_phase /\ o.order_phase # t.order_phase
    BY <1>0, <1>3 DEF phase_after, fits
  <2>2. s = settle_part_filled(o, t)
    BY <2>1, <1>3 DEF settle_filled_order
  <2>3. numerator \in Nat /\ ideal \in Nat /\ o.unfilled_ratio_x64 > 0
    BY <1>0, DivBounds DEF fits
  <2>4. ideal <= get_unfilled_amount(o)
    BY <1>3 DEF fits
  <2>5. CASE filled = 0
    <3>1. s = unpaid(o)
      BY <2>2, <2>5 DEF settle_part_filled
    <3>2. ideal # 0
      BY <2>5, <2>3, <1>3, <1>0 DEF saturating_sub
    <3>3. t.unfilled_ratio_x64 # 0
      BY <3>2, <1>0, <2>3
    <3> QED
      BY <3>1, <3>3, <2>1, <1>0 DEF unpaid, already_filled
  <2>6. CASE filled # 0
    <3>1. ideal < o.settle_base /\ filled \in Nat /\ filled > 0
      BY <2>6, <2>3, <1>0 DEF saturating_sub
    <3>2. effective \in Nat
      BY <3>1
    <3>3. out \in Nat
      BY <3>2, <1>0, OutputNat
    <3>4. s = [ok |-> ideal <= o.total_amount,
               order |-> [o EXCEPT !.filled_amount = o.total_amount - ideal,
                                   !.settled_output = out],
               payout |-> saturating_sub(out, o.settled_output)]
      BY <2>2, <2>6 DEF settle_part_filled
    <3>5. ideal <= o.total_amount /\ o.total_amount - ideal >= o.filled_amount
      BY <3>1, <2>3, <2>4, <1>0 DEF fits, get_unfilled_amount
    <3> DEFINE f == o.total_amount - ideal
    <3>6. f \in Nat
      BY <3>5, <2>3, <1>0
    <3> DEFINE p == filled_to(o, f, out)
    <3>7. /\ s.ok = (ideal <= o.total_amount)
          /\ s.order = p
          /\ s.payout = saturating_sub(out, o.settled_output)
      BY <3>4 DEF filled_to
    <3> HIDE DEF s, ideal, out, f
    <3>8. /\ p \in OrderState
          /\ p.order_phase = o.order_phase
          /\ p.total_amount = o.total_amount
          /\ p.filled_amount = f
          /\ p.settle_base = o.settle_base
          /\ p.unfilled_ratio_x64 = o.unfilled_ratio_x64
      BY <3>6, <3>3, FilledTo
    <3> HIDE DEF p
    <3>81. s.payout \in Nat
      BY <3>7, <3>3, <1>0 DEF saturating_sub
    <3>83. s.ok
      BY <3>7, <3>5, Zenon
    <3>82. /\ s.order \in OrderState
           /\ s.order.order_phase = o.order_phase
           /\ s.order.total_amount = o.total_amount
           /\ s.order.filled_amount = f
           /\ s.order.settle_base = o.settle_base
           /\ s.order.unfilled_ratio_x64 = o.unfilled_ratio_x64
      BY <3>7, <3>8
    <3>9. get_unfilled_amount(s.order) = ideal
      BY <3>82, <2>3, <1>0 DEF get_unfilled_amount, f
    <3>10. fits(s.order, t)
      BY <3>82, <3>9, <3>5, <3>1, <2>1, <2>3, <1>0 DEF fits, ideal, f
    <3>11. t.unfilled_ratio_x64 = 0 => ideal = 0
      BY <2>3, <1>0 DEF ideal
    <3> QED
      BY <3>5, <3>81, <3>83, <3>82, <3>9, <3>10, <3>11, <2>1 DEF already_filled, s, f
  <2> QED
    BY <2>5, <2>6
<1>4. CASE o.settle_base # 0 /\ o.order_phase + 2 <= t.order_phase
  <2>1. /\ phase_after(o.order_phase, 1) # t.order_phase
        /\ o.order_phase # t.order_phase
        /\ phase_after(o.order_phase, 2) <= t.order_phase
    BY <1>0, <1>4 DEF phase_after, fits
  <2>2. s = settle_fully_filled(o)
    BY <2>1, <1>4 DEF settle_filled_order
  <2>3. get_limit_order_output(o.settle_base, o.zero_for_one) \in Nat
    BY <1>0, OutputNat
  <2>4. s.ok /\ s.payout \in Nat
    BY <2>2, <2>3, <1>0 DEF settle_fully_filled, saturating_sub
  <2>41. s.order = [o EXCEPT !.filled_amount = o.total_amount,
                             !.settle_base = 0, !.settled_output = 0]
    BY <2>2 DEF settle_fully_filled
  <2>5. /\ s.order \in OrderState
        /\ s.order.order_phase = o.order_phase
        /\ s.order.total_amount = o.total_amount
        /\ s.order.filled_amount = o.total_amount
        /\ s.order.settle_base = 0
        /\ s.order.unfilled_ratio_x64 = o.unfilled_ratio_x64
    <3> HIDE DEF s
    <3> QED BY <2>41, OrderFinish
  <2>6. get_unfilled_amount(s.order) = 0
    BY <2>5, <1>0 DEF get_unfilled_amount
  <2>7. fits(s.order, t)
    BY <2>5, <2>6, <1>4, <1>0 DEF fits
  <2> QED
    BY <2>4, <2>5, <2>6, <2>7, <1>0 DEF already_filled, fits
<1>5. o.order_phase <= t.order_phase
  BY DEF fits
<1> QED
  BY <1>0, <1>1, <1>2, <1>3, <1>4, <1>5

(***************************************************************************)
(* Decreasing an order.                                                    *)
(***************************************************************************)
\* An order fits by the tick's phase and ratio alone.
LEMMA FitsFrame ==
  ASSUME NEW o, NEW t, NEW u, fits(o, t),
         u.order_phase = t.order_phase, u.unfilled_ratio_x64 = t.unfilled_ratio_x64
  PROVE  fits(o, u)
  BY DEF fits

\* The fields of an order from which `d` was taken (decrease_amount).
LEMMA AfterDecrease ==
  ASSUME NEW o \in OrderState, NEW t \in TickState, NEW d \in Nat,
         o.filled_amount + d <= o.total_amount
  PROVE  LET p == after_decrease(o, t, d)
         IN /\ p \in OrderState
            /\ p.order_phase = o.order_phase
            /\ p.total_amount = o.total_amount - d
            /\ p.filled_amount = o.filled_amount
            /\ o.order_phase # t.order_phase =>
                 /\ p.settle_base = o.total_amount - d - o.filled_amount
                 /\ p.unfilled_ratio_x64 = t.unfilled_ratio_x64
            /\ o.order_phase = t.order_phase =>
                 /\ p.settle_base = o.total_amount - d
                 /\ p.settled_output = o.settled_output
                 /\ p.unfilled_ratio_x64 = o.unfilled_ratio_x64
<1>0. /\ o.total_amount - d \in Nat
      /\ o.total_amount - d - o.filled_amount \in Nat
      /\ t.unfilled_ratio_x64 \in Nat
  BY DEF OrderState, TickState
<1>1. CASE o.order_phase = t.order_phase
  BY <1>0, <1>1 DEF after_decrease, OrderState
<1>2. CASE o.order_phase # t.order_phase
  BY <1>0, <1>2 DEF after_decrease, OrderState
<1> QED
  BY <1>1, <1>2

\* A decrease that succeeds leaves an order that fits the tick it leaves, and
\* takes no more than the cohort has (decrease_amount).
LEMMA DecreaseFits ==
  ASSUME NEW o \in OrderState, NEW t \in TickState, fits(o, t), NEW amount \in Nat,
         decrease_amount(o, t, amount).ok
  PROVE  LET r == decrease_amount(o, t, amount)
         IN /\ r.order \in OrderState
            /\ r.order.order_phase = o.order_phase
            /\ r.order.filled_amount >= o.filled_amount
            /\ r.tick \in TickState
            /\ r.tick.order_phase = t.order_phase
            /\ r.tick.unfilled_ratio_x64 = t.unfilled_ratio_x64
            /\ r.tick.orders_amount <= t.orders_amount
            /\ fits(r.order, t)
            /\ r.payout \in Nat
            /\ r.decrease \in Nat
<1> DEFINE s == settle_filled_order(o, t)
           q == s.order
           d == IF get_unfilled_amount(q) = 0 THEN 0 ELSE real_decrease(q, t, amount)
           r == decrease_amount(o, t, amount)
<1>1. /\ s.ok /\ q \in OrderState /\ s.payout \in Nat /\ fits(q, t)
      /\ q.order_phase = o.order_phase
      /\ q.filled_amount >= o.filled_amount
      /\ ~already_filled(q, t)
      /\ t.unfilled_ratio_x64 = 0 /\ o.order_phase # t.order_phase
           => get_unfilled_amount(q) = 0
  BY SettleFits
<1>2. CASE d = 0
  <2>1. r.order = q /\ r.tick = t /\ r.payout = s.payout /\ r.decrease = 0
    BY <1>2 DEF decrease_amount
  <2> QED
    BY <2>1, <1>1 DEF TickState
<1>3. CASE d # 0
  <2> DEFINE p == after_decrease(q, t, d)
             u == tick_after_decrease(q, t, d)
  <2>1. /\ r.order = p /\ r.tick = u
        /\ r.payout = s.payout /\ r.decrease = d
        /\ o.order_phase = t.order_phase => d <= t.orders_amount
    BY <1>3 DEF decrease_amount
  <2> HIDE DEF s, q, r, d
  <2>2. /\ q.total_amount \in Nat /\ q.filled_amount \in Nat
        /\ q.order_phase \in Nat /\ t.order_phase \in Nat
        /\ t.part_filled_orders_remaining \in Nat /\ t.orders_amount \in Nat
        /\ t.unfilled_ratio_x64 \in Nat
    BY <1>1 DEF OrderState, TickState
  <2>3. get_unfilled_amount(q) \in Nat /\ get_unfilled_amount(q) # 0
        /\ d = real_decrease(q, t, amount)
    BY <1>1, <1>3, <2>2 DEF d, fits, get_unfilled_amount
  <2>4. /\ d \in Nat /\ d <= get_unfilled_amount(q)
        /\ o.order_phase # t.order_phase => d <= t.part_filled_orders_remaining
    BY <2>2, <2>3, <1>1 DEF real_decrease, least
  <2>5. q.filled_amount + d <= q.total_amount
    BY <2>2, <2>4 DEF get_unfilled_amount
  <2>6. /\ p \in OrderState
        /\ p.order_phase = q.order_phase
        /\ p.total_amount = q.total_amount - d
        /\ p.filled_amount = q.filled_amount
        /\ q.order_phase # t.order_phase =>
             /\ p.settle_base = q.total_amount - d - q.filled_amount
             /\ p.unfilled_ratio_x64 = t.unfilled_ratio_x64
        /\ q.order_phase = t.order_phase =>
             /\ p.settle_base = q.total_amount - d
             /\ p.settled_output = q.settled_output
             /\ p.unfilled_ratio_x64 = q.unfilled_ratio_x64
    BY <1>1, <2>4, <2>5, AfterDecrease
  <2>7. /\ u \in TickState
        /\ u.order_phase = t.order_phase
        /\ u.unfilled_ratio_x64 = t.unfilled_ratio_x64
        /\ u.orders_amount <= t.orders_amount
    <3>1. CASE o.order_phase = t.order_phase
      BY <3>1, <2>1, <2>2, <2>4, <1>1 DEF tick_after_decrease, TickState
    <3>2. CASE o.order_phase # t.order_phase
      BY <3>2, <2>2, <2>4, <1>1 DEF tick_after_decrease, TickState
    <3> QED
      BY <3>1, <3>2
  <2> HIDE DEF p, u
  <2>8. get_unfilled_amount(p) = q.total_amount - d - q.filled_amount
    BY <2>6, <2>2, <2>4 DEF get_unfilled_amount
  <2>9. fits(p, t)
    <3>1. CASE o.order_phase = t.order_phase
      BY <3>1, <1>1, <2>2, <2>4, <2>5, <2>6, <2>8 DEF fits
    <3>2. CASE o.order_phase # t.order_phase
      <4>1. t.unfilled_ratio_x64 > 0
        BY <3>2, <1>1, <2>2, <2>3
      <4>2. \A n \in Nat : (n * t.unfilled_ratio_x64) \div t.unfilled_ratio_x64 <= n
        BY <4>1, <2>2, DivLe
      <4>3. p.settle_base \in Nat
        BY <2>6 DEF OrderState
      <4> QED
        BY <3>2, <4>1, <4>2, <4>3, <1>1, <2>2, <2>4, <2>5, <2>6, <2>8 DEF fits
    <3> QED
      BY <3>1, <3>2
  <2> QED
    BY <1>1, <2>1, <2>4, <2>6, <2>7, <2>9 DEF r
<1> QED
  BY <1>2, <1>3

(***************************************************************************)
(* Matching.                                                               *)
(***************************************************************************)
\* Integer division of integers.
LEMMA DivInt ==
  ASSUME NEW a \in Int, NEW d \in Nat, d > 0
  PROVE  a \div d \in Int
  OBVIOUS

\* What get_limit_order_output and get_limit_order_input return is an integer.
LEMMA PricedInt ==
  ASSUME NEW a \in Int, NEW z \in BOOLEAN
  PROVE  /\ get_limit_order_output(a, z) \in Int
         /\ get_limit_order_input(a, z) \in Int
<1>1. /\ Q64 \in Nat /\ Q64 > 0 /\ PriceLo \in Nat /\ PriceLo > 0
      /\ PriceHi \in Nat /\ PriceHi > 0
  BY PriceAssumption
<1>2. /\ a * PriceLo \in Int /\ a * Q64 \in Int
      /\ a * PriceHi + Q64 - 1 \in Int /\ a * Q64 + PriceLo - 1 \in Int
  BY <1>1
<1>3. /\ (a * PriceLo) \div Q64 \in Int /\ (a * Q64) \div PriceHi \in Int
      /\ (a * PriceHi + Q64 - 1) \div Q64 \in Int
      /\ (a * Q64 + PriceLo - 1) \div PriceLo \in Int
  BY <1>1, <1>2, DivInt
<1> QED
  BY <1>3 DEF get_limit_order_output, get_limit_order_input, mul_div_floor, mul_div_ceil

\* A match never takes more than the tick has unfilled, in either mode and
\* whichever token carries the fee (match_limit_order).
LEMMA MatchBounded ==
  ASSUME NEW t \in TickState, NEW a \in Nat, NEW z \in BOOLEAN, NEW b \in BOOLEAN,
         NEW f \in FeeRates, NEW n \in BOOLEAN
  PROVE  LET m == match_amounts(t, a, z, b, f, n)
         IN /\ m.amount_in \in Int
            /\ m.gross_out \in Int
            /\ m.gross_out <= limit_order_unfilled_amount(t)
<1> DEFINE total == limit_order_unfilled_amount(t)
           mi == base_input_amounts(t, a, z, f, n)
           mo == base_output_amounts(t, a, z, f, n)
<1>1. total \in Nat
  BY DEF limit_order_unfilled_amount, TickState
<1>2. f \in Nat /\ FeeDenom \in Nat /\ FeeDenom > 0 /\ FeeDenom - f \in Nat /\ FeeDenom - f > 0
  BY FeeAssumption
<1>3. mi.amount_in \in Int /\ mi.gross_out \in Int /\ mi.gross_out <= total
  <2> DEFINE fee == IF n THEN fee_of(a, f) ELSE 0
             got == get_limit_order_output(a - fee, z)
             owed == get_limit_order_input(total, ~z)
  <2>1. a * f + FeeDenom - 1 \in Int
    BY <1>2
  <2>2. fee \in Int
    BY <1>2, <2>1, DivInt DEF fee_of, mul_div_ceil
  <2>3. a - fee \in Int
    <3> HIDE DEF fee
    <3> QED BY <2>2
  <2>4. got \in Int
    BY <2>3, PricedInt
  <2>5. owed \in Int
    <3>1. total \in Int /\ (~z) \in BOOLEAN
      BY <1>1
    <3> HIDE DEF total
    <3> QED BY <3>1, PricedInt
  <2>6. CASE got > total
    <3>1. mi.amount_in = owed /\ mi.gross_out = total
      BY <2>6 DEF base_input_amounts
    <3> QED
      BY <3>1, <2>5, <1>1
  <2>7. CASE ~(got > total)
    <3>1. mi.amount_in = a - fee /\ mi.gross_out = got
      BY <2>7 DEF base_input_amounts
    <3> HIDE DEF got, fee, mi, total
    <3> QED
      BY <3>1, <2>3, <2>4, <2>7, <1>1
  <2> QED
    BY <2>6, <2>7
<1>4. mo.amount_in \in Int /\ mo.gross_out \in Int /\ mo.gross_out <= total
  <2> DEFINE net == least(a, total)
             up == mul_div_ceil(net, FeeDenom, FeeDenom - f)
             gross == IF n THEN net ELSE least(up, total)
             owed == get_limit_order_input(gross, ~z)
  <2>1. net \in Nat /\ net <= total
    BY <1>1 DEF least
  <2>2. net * FeeDenom + (FeeDenom - f) - 1 \in Int
    BY <2>1, <1>2
  <2>3. up \in Int
    BY <2>2, <1>2, DivInt DEF mul_div_ceil
  <2>4. gross \in Int /\ gross <= total
    <3> HIDE DEF net, up, total
    <3> QED BY <2>1, <2>3, <1>1 DEF least
  <2>5. owed \in Int
    <3> HIDE DEF gross
    <3> QED BY <2>4, PricedInt
  <2>6. mo.amount_in = owed /\ mo.gross_out = gross
    BY DEF base_output_amounts
  <2> HIDE DEF owed, gross, mo, total
  <2> QED
    BY <2>4, <2>5, <2>6
<1>5. LET m == match_amounts(t, a, z, b, f, n)
      IN \/ m.amount_in = mi.amount_in /\ m.gross_out = mi.gross_out
         \/ m.amount_in = mo.amount_in /\ m.gross_out = mo.gross_out
  BY DEF match_amounts
<1> QED
  <2> HIDE DEF mi, mo
  <2> QED BY <1>3, <1>4, <1>5

\* Consuming what a match takes only lowers the ratio within a phase, and a new
\* phase starts from at most the whole cohort (match_limit_order).
LEMMA ConsumeTick ==
  ASSUME NEW t \in TickState, NEW out \in Nat, out <= limit_order_unfilled_amount(t),
         t.order_phase <= PhaseMax, t.order_phase = PhaseMax => t.orders_amount = 0
  PROVE  LET u == consume(t, out)
         IN /\ u \in TickState
            /\ u.order_phase <= PhaseMax
            /\ \/ /\ u.order_phase = t.order_phase
                  /\ u.unfilled_ratio_x64 <= t.unfilled_ratio_x64
                  /\ u.orders_amount = t.orders_amount
               \/ /\ u.order_phase = t.order_phase + 1
                  /\ u.unfilled_ratio_x64 <= Q64
                  /\ u.orders_amount = 0
<1> DEFINE part == t.part_filled_orders_remaining
           from == least(part, out)
           rest == out - from
           scaled == IF from > 0 THEN mul_div_floor(t.unfilled_ratio_x64, part - from, part)
                     ELSE t.unfilled_ratio_x64
           u == consume(t, out)
<1>1. /\ part \in Nat /\ t.orders_amount \in Nat /\ t.order_phase \in Nat
      /\ t.unfilled_ratio_x64 \in Nat /\ Q64 \in Nat /\ PhaseMax \in Nat
  BY PriceAssumption, BoundAssumption DEF TickState
<1>2. from \in Nat /\ from <= part /\ from <= out /\ rest \in Nat /\ part - from \in Nat
  BY <1>1 DEF least
<1>3. CASE rest = 0
  <2>1. scaled \in Nat /\ scaled <= t.unfilled_ratio_x64
    <3>1. CASE from > 0
      <4>1. part > 0 /\ part - from <= part
        BY <3>1, <1>1, <1>2
      <4> HIDE DEF from, part
      <4> QED BY <4>1, <3>1, <1>1, <1>2, ScaleLe
    <3>2. CASE ~(from > 0)
      BY <3>2, <1>1
    <3> QED BY <3>1, <3>2
  <2>2. u = [t EXCEPT !.part_filled_orders_remaining = part - from,
                      !.unfilled_ratio_x64 = scaled]
    BY <1>3 DEF consume
  <2> HIDE DEF scaled, from
  <2>3. /\ u \in TickState
        /\ u.order_phase = t.order_phase
        /\ u.unfilled_ratio_x64 = scaled
        /\ u.orders_amount = t.orders_amount
    <3> HIDE DEF u
    <3> QED BY <2>1, <2>2, <1>1, <1>2 DEF TickState
  <2> QED
    BY <2>1, <2>3
<1>4. CASE rest # 0
  <2> DEFINE left == t.orders_amount - rest
             ratio == mul_div_floor(Q64, left, t.orders_amount)
  <2>1. rest <= t.orders_amount /\ left \in Nat /\ t.orders_amount > 0
    BY <1>4, <1>1, <1>2 DEF least, limit_order_unfilled_amount
  <2>2. ratio \in Nat /\ ratio <= Q64
    <3>1. left <= t.orders_amount
      BY <2>1, <1>1, <1>2
    <3> HIDE DEF left
    <3> QED BY <3>1, <2>1, <1>1, ScaleLe
  <2>3. phase_after(t.order_phase, 1) = t.order_phase + 1 /\ t.order_phase + 1 <= PhaseMax
    BY <2>1, <1>1 DEF phase_after
  <2>4. u = [order_phase |-> t.order_phase + 1, orders_amount |-> 0,
             part_filled_orders_remaining |-> left, unfilled_ratio_x64 |-> ratio]
    BY <1>4, <2>3 DEF consume
  <2> HIDE DEF left, ratio
  <2>5. /\ u \in TickState
        /\ u.order_phase = t.order_phase + 1
        /\ u.unfilled_ratio_x64 = ratio
        /\ u.orders_amount = 0
    <3> HIDE DEF u
    <3> QED BY <2>1, <2>2, <2>4, <1>1 DEF TickState
  <2> QED
    BY <2>2, <2>3, <2>5
<1> QED
  BY <1>3, <1>4

\* Every order still fits the tick after a match (match_limit_order).
LEMMA ConsumeFits ==
  ASSUME NEW o \in OrderState, NEW t \in TickState, NEW u \in TickState, fits(o, t),
         \/ u.order_phase = t.order_phase /\ u.unfilled_ratio_x64 <= t.unfilled_ratio_x64
         \/ u.order_phase = t.order_phase + 1 /\ u.unfilled_ratio_x64 <= Q64
  PROVE  fits(o, u)
<1>1. /\ o.order_phase \in Nat /\ t.order_phase \in Nat /\ u.order_phase \in Nat
      /\ o.settle_base \in Nat /\ t.unfilled_ratio_x64 \in Nat
      /\ u.unfilled_ratio_x64 \in Nat /\ o.unfilled_ratio_x64 \in Nat
      /\ o.unfilled_ratio_x64 > 0 /\ Q64 \in Nat
      /\ o.total_amount \in Nat /\ o.filled_amount \in Nat
  BY PriceAssumption DEF OrderState, TickState, fits
<1>2. CASE u.order_phase = t.order_phase /\ u.unfilled_ratio_x64 <= t.unfilled_ratio_x64
  <2>1. /\ o.settle_base * u.unfilled_ratio_x64 \in Nat
        /\ o.settle_base * t.unfilled_ratio_x64 \in Nat
        /\ o.settle_base * u.unfilled_ratio_x64 <= o.settle_base * t.unfilled_ratio_x64
    BY <1>1, <1>2, MulMono
  <2>2. (o.settle_base * u.unfilled_ratio_x64) \div o.unfilled_ratio_x64
          <= (o.settle_base * t.unfilled_ratio_x64) \div o.unfilled_ratio_x64
    BY <2>1, <1>1, DivMono
  <2>3. /\ (o.settle_base * u.unfilled_ratio_x64) \div o.unfilled_ratio_x64 \in Nat
        /\ (o.settle_base * t.unfilled_ratio_x64) \div o.unfilled_ratio_x64 \in Nat
    BY <2>1, <1>1, DivBounds
  <2>4. get_unfilled_amount(o) \in Int
    BY <1>1 DEF get_unfilled_amount
  <2> QED
    BY <2>2, <2>3, <2>4, <1>1, <1>2 DEF fits
<1>3. CASE u.order_phase = t.order_phase + 1 /\ u.unfilled_ratio_x64 <= Q64
  <2>1. o.order_phase = t.order_phase =>
          (o.settle_base * u.unfilled_ratio_x64) \div o.unfilled_ratio_x64 <= o.settle_base
    <3>1. o.settle_base * u.unfilled_ratio_x64 \in Nat
          /\ o.settle_base * u.unfilled_ratio_x64 <= o.settle_base * Q64
      BY <1>1, <1>3, MulMono
    <3> QED
      BY <3>1, <1>1, DivLe DEF fits
  <2>2. o.order_phase = t.order_phase => get_unfilled_amount(o) = o.settle_base
    BY <1>1 DEF fits, get_unfilled_amount
  <2> QED
    BY <2>1, <2>2, <1>1, <1>3 DEF fits
<1> QED
  BY <1>2, <1>3

(***************************************************************************)
(* The inductive invariant.                                                *)
(***************************************************************************)
\* No account exists yet for a nonce that was not used (open_limit_order).
NonceFresh == \A i \in Ids : i >= order_nonce => order[i] = NoOrder

IInv == TypeOK /\ OrderShape /\ SaturatesEmpty /\ NonceFresh

\* The count of initialized ticks and the bit keep their types.
LEMMA RecountType ==
  ASSUME count \in Nat, bit \in BOOLEAN, NEW x \in BOOLEAN, NEW y \in BOOLEAN, recount(x, y)
  PROVE  count' \in Nat /\ bit' \in BOOLEAN
<1>1. \/ UNCHANGED <<count, bit>>
      \/ count_up
      \/ count_down
  BY Zenon DEF recount
<1>2. count' \in Nat
  BY <1>1 DEF count_up, count_down
<1>3. bit' \in BOOLEAN
  BY <1>1, Zenon DEF count_up, count_down
<1> QED
  BY <1>2, <1>3

\* A step that replaces one open order by one that fits, and the tick by one of
\* the same phase and ratio, preserves what IInv says of orders; so does one
\* that leaves the orders alone.
LEMMA ReplaceOrder ==
  ASSUME IInv, tick' \in TickState,
         tick'.order_phase = tick.order_phase,
         tick'.unfilled_ratio_x64 = tick.unfilled_ratio_x64,
         tick'.order_phase = PhaseMax => tick'.orders_amount = 0,
         NEW i \in Ids, order[i].open, NEW o \in OrderState,
         fits(o, tick), o.order_phase = order[i].order_phase,
         o.filled_amount >= order[i].filled_amount,
         order' = [order EXCEPT ![i] = o], order_nonce' = order_nonce
  PROVE  /\ order' \in [Ids -> OrderState \cup {NoOrder}]
         /\ OrderShape' /\ SaturatesEmpty' /\ NonceFresh' /\ fills_grow
<1>1. order \in [Ids -> OrderState \cup {NoOrder}]
  BY DEF IInv, TypeOK
<1>2. order' \in [Ids -> OrderState \cup {NoOrder}]
  BY <1>1
<1>3. \A j \in Ids : j # i => order'[j] = order[j]
  BY <1>1
<1>4. order'[i] = o
  BY <1>1
<1>5. ASSUME NEW j \in Ids, order'[j].open PROVE fits(order'[j], tick')
  <2>1. fits(order'[j], tick)
    BY <1>3, <1>4, <1>5 DEF IInv, OrderShape, OpenIds
  <2> QED
    BY <2>1, FitsFrame
<1>6. OrderShape'
  BY <1>5 DEF OrderShape, OpenIds
<1>7. SaturatesEmpty'
  BY DEF IInv, SaturatesEmpty
<1>8. ASSUME NEW j \in Ids, order[j].open
      PROVE  /\ order'[j].order_phase = order[j].order_phase
             /\ order'[j].filled_amount >= order[j].filled_amount
  <2>1. CASE j = i
    BY <2>1, <1>4
  <2>2. CASE j # i
    <3>1. order[j] \in OrderState
      BY <1>1, <1>8 DEF NoOrder
    <3>2. order[j].filled_amount \in Nat
      BY <3>1 DEF OrderState
    <3>3. order'[j] = order[j]
      BY <2>2, <1>3
    <3> QED
      BY <3>2, <3>3
  <2> QED
    BY <2>1, <2>2
<1>9. fills_grow
  <2>1. tick'.order_phase >= tick.order_phase
    BY DEF TickState
  <2> QED
    BY <2>1, <1>8 DEF fills_grow, OpenIds
<1>10. NonceFresh'
  <2>1. ASSUME NEW j \in Ids, j >= order_nonce PROVE order'[j] = NoOrder
    <3>1. order[j] = NoOrder /\ j # i
      BY <2>1 DEF IInv, NonceFresh, NoOrder
    <3> QED
      BY <3>1, <1>3
  <2> QED
    BY <2>1 DEF NonceFresh
<1> QED
  BY <1>2, <1>6, <1>7, <1>9, <1>10

\* An open order is a LimitOrderState that fits the tick.
LEMMA OpenOrder ==
  ASSUME IInv, NEW i \in Ids, order[i].open
  PROVE  order[i] \in OrderState /\ fits(order[i], tick)
  BY DEF IInv, TypeOK, OrderShape, OpenIds, NoOrder

\* open_limit_order preserves the invariant.
LEMMA OpenStep ==
  ASSUME IInv, NEW z \in BOOLEAN, NEW a \in Amounts, open_limit_order(z, a)
  PROVE  IInv' /\ fills_grow
<1> DEFINE o == initialize(z, a, tick.order_phase)
<1>1. /\ tick \in TickState /\ order \in [Ids -> OrderState \cup {NoOrder}]
      /\ order_nonce \in Nat /\ vault \in [0 .. 1 -> Int]
      /\ a \in Nat /\ a > 0 /\ Q64 \in Nat /\ Q64 > 0 /\ PhaseMax \in Nat
      /\ MaxOrders \in Nat
  BY PriceAssumption, BoundAssumption DEF IInv, TypeOK, Amounts
<1>2. /\ tick.order_phase < PhaseMax
      /\ order_nonce \in Ids
      /\ order' = [order EXCEPT ![order_nonce] = o]
      /\ tick' = [tick EXCEPT !.orders_amount = @ + a]
  BY <1>1 DEF open_limit_order, accepts_orders, Ids
<1>3. /\ tick' \in TickState
      /\ tick'.order_phase = tick.order_phase
      /\ tick'.unfilled_ratio_x64 = tick.unfilled_ratio_x64
  BY <1>1, <1>2 DEF TickState
<1>4. o \in OrderState /\ fits(o, tick)
  <2>1. tick.order_phase \in Nat
    BY <1>1 DEF TickState
  <2> QED
    BY <1>1, <1>2, <2>1 DEF initialize, OrderState, fits, get_unfilled_amount
<1> HIDE DEF o
<1>5. order' \in [Ids -> OrderState \cup {NoOrder}]
  BY <1>1, <1>2, <1>4
<1>6. TypeOK'
  <2>1. vault' \in [0 .. 1 -> Int]
    BY <1>1 DEF open_limit_order, sold
  <2>2. count' \in Nat /\ bit' \in BOOLEAN
    <3>1. has_limit_orders(tick) \in BOOLEAN
      BY DEF has_limit_orders
    <3> QED
      BY <3>1, RecountType DEF open_limit_order, IInv, TypeOK
  <2> QED
    BY <1>1, <1>3, <1>5, <2>1, <2>2 DEF open_limit_order, IInv, TypeOK
<1>7. OrderShape'
  <2>1. ASSUME NEW j \in Ids, order'[j].open PROVE fits(order'[j], tick')
    <3>1. fits(order'[j], tick)
      BY <1>1, <1>2, <1>4, <2>1 DEF IInv, OrderShape, OpenIds
    <3> QED
      BY <3>1, <1>3, FitsFrame
  <2> QED
    BY <2>1 DEF OrderShape, OpenIds
<1>8. SaturatesEmpty'
  BY <1>1, <1>2, <1>3 DEF SaturatesEmpty, TickState
<1>9. NonceFresh'
  <2>1. order_nonce' = order_nonce + 1
    BY DEF open_limit_order
  <2> QED
    BY <1>1, <1>2, <2>1 DEF IInv, NonceFresh, Ids
<1>10. fills_grow
  <2>1. ASSUME NEW j \in Ids, order[j].open
        PROVE  /\ order'[j].order_phase = order[j].order_phase
               /\ order'[j].filled_amount >= order[j].filled_amount
    <3>1. j # order_nonce
      BY <1>1, <1>2, <2>1 DEF IInv, NonceFresh, NoOrder, Ids
    <3>2. order'[j] = order[j]
      BY <1>1, <1>2, <3>1
    <3>3. order[j].filled_amount \in Nat
      BY <2>1, OpenOrder DEF OrderState
    <3> QED
      BY <3>2, <3>3
  <2>2. tick'.order_phase >= tick.order_phase
    BY <1>1, <1>3 DEF TickState
  <2> QED
    BY <2>1, <2>2 DEF fills_grow, OpenIds
<1> QED
  BY <1>6, <1>7, <1>8, <1>9, <1>10 DEF IInv

\* The fields of an increased order (increase_amount).
LEMMA IncreaseAmount ==
  ASSUME NEW p \in OrderState, NEW a \in Nat
  PROVE  LET o == increase_amount(p, a)
         IN /\ o \in OrderState
            /\ o.order_phase = p.order_phase
            /\ o.filled_amount = p.filled_amount
            /\ o.total_amount = p.total_amount + a
            /\ o.settle_base = p.settle_base + a
            /\ o.settled_output = p.settled_output
            /\ o.unfilled_ratio_x64 = p.unfilled_ratio_x64
<1> DEFINE x == p.total_amount + a
           y == p.settle_base + a
<1>1. x \in Nat /\ y \in Nat
  BY DEF OrderState
<1>2. increase_amount(p, a) = [p EXCEPT !.total_amount = x, !.settle_base = y]
  BY DEF increase_amount
<1> HIDE DEF x, y
<1>3. LET o == increase_amount(p, a)
      IN /\ o \in OrderState
         /\ o.order_phase = p.order_phase
         /\ o.filled_amount = p.filled_amount
         /\ o.total_amount = x
         /\ o.settle_base = y
         /\ o.settled_output = p.settled_output
         /\ o.unfilled_ratio_x64 = p.unfilled_ratio_x64
  BY <1>1, <1>2 DEF OrderState
<1> QED
  BY <1>3 DEF x, y

\* increase_limit_order preserves the invariant.
LEMMA IncreaseStep ==
  ASSUME IInv, NEW i \in Ids, NEW a \in Amounts, increase_limit_order(i, a)
  PROVE  IInv' /\ fills_grow
<1> DEFINE o == increase_amount(order[i], a)
<1>1. /\ tick \in TickState /\ vault \in [0 .. 1 -> Int] /\ a \in Nat
      /\ order \in [Ids -> OrderState \cup {NoOrder}]
  BY BoundAssumption DEF IInv, TypeOK, Amounts
<1>2. /\ order[i].open
      /\ order[i].order_phase = tick.order_phase
      /\ order' = [order EXCEPT ![i] = o]
      /\ tick' = [tick EXCEPT !.orders_amount = @ + a]
      /\ order_nonce' = order_nonce
  BY DEF increase_limit_order
<1>3. order[i] \in OrderState /\ fits(order[i], tick)
  BY <1>2, OpenOrder
<1>4. /\ tick' \in TickState
      /\ tick'.order_phase = tick.order_phase
      /\ tick'.unfilled_ratio_x64 = tick.unfilled_ratio_x64
      /\ tick.order_phase \in Nat
  BY <1>1, <1>2 DEF TickState
<1>5. /\ o \in OrderState
      /\ o.order_phase = order[i].order_phase
      /\ o.filled_amount = order[i].filled_amount
      /\ o.total_amount = order[i].total_amount + a
      /\ o.settle_base = order[i].settle_base + a
      /\ o.settled_output = order[i].settled_output
      /\ o.unfilled_ratio_x64 = order[i].unfilled_ratio_x64
  BY <1>1, <1>3, IncreaseAmount
<1>6. /\ order[i].total_amount \in Nat /\ order[i].filled_amount \in Nat
      /\ order[i].settle_base \in Nat
  BY <1>3 DEF OrderState
<1> HIDE DEF o
<1>7. fits(o, tick)
  BY <1>1, <1>2, <1>3, <1>4, <1>5, <1>6 DEF fits, get_unfilled_amount
<1>8. tick'.order_phase = PhaseMax => tick'.orders_amount = 0
  <2>1. tick.order_phase < PhaseMax
    BY <1>2, <1>3 DEF fits
  <2> QED
    BY <2>1, <1>4, BoundAssumption
<1>9. o.filled_amount >= order[i].filled_amount
  BY <1>5, <1>6
<1>10. /\ order' \in [Ids -> OrderState \cup {NoOrder}]
       /\ OrderShape' /\ SaturatesEmpty' /\ NonceFresh' /\ fills_grow
  BY <1>2, <1>4, <1>5, <1>7, <1>8, <1>9, ReplaceOrder
<1>11. vault' \in [0 .. 1 -> Int]
  BY <1>1 DEF increase_limit_order, sold
<1>12. TypeOK'
  BY <1>4, <1>10, <1>11 DEF increase_limit_order, IInv, TypeOK
<1> QED
  BY <1>10, <1>12 DEF IInv

\* What is paid to an owner changes both vaults by integers.
LEMMA PayOwner ==
  ASSUME vault \in [0 .. 1 -> Int], NEW z \in BOOLEAN, NEW x \in Nat, NEW y \in Nat
  PROVE  pay_owner(z, x, y) \in [0 .. 1 -> Int]
  BY DEF pay_owner, sold, bought

\* decrease_limit_order preserves the invariant.
LEMMA DecreaseStep ==
  ASSUME IInv, NEW i \in Ids, NEW a \in Amounts, decrease_limit_order(i, a)
  PROVE  IInv' /\ fills_grow
<1> DEFINE r == decrease_amount(order[i], tick, a)
<1>1. /\ tick \in TickState /\ vault \in [0 .. 1 -> Int] /\ a \in Nat
      /\ order \in [Ids -> OrderState \cup {NoOrder}]
  BY BoundAssumption DEF IInv, TypeOK, Amounts
<1>2. /\ order[i].open /\ r.ok
      /\ order' = [order EXCEPT ![i] = r.order]
      /\ tick' = r.tick
      /\ recount(has_limit_orders(tick), has_limit_orders(r.tick))
      /\ vault' = pay_owner(order[i].zero_for_one, r.decrease, r.payout)
      /\ UNCHANGED <<order_nonce, tick_current, status, others>>
  BY DEF decrease_limit_order
<1>3. order[i] \in OrderState /\ fits(order[i], tick)
  BY <1>2, OpenOrder
<1>4. /\ r.order \in OrderState
      /\ r.order.order_phase = order[i].order_phase
      /\ r.order.filled_amount >= order[i].filled_amount
      /\ r.tick \in TickState
      /\ r.tick.order_phase = tick.order_phase
      /\ r.tick.unfilled_ratio_x64 = tick.unfilled_ratio_x64
      /\ r.tick.orders_amount <= tick.orders_amount
      /\ fits(r.order, tick)
      /\ r.payout \in Nat
      /\ r.decrease \in Nat
  BY <1>1, <1>2, <1>3, DecreaseFits
<1> HIDE DEF r
<1>5. tick'.order_phase = PhaseMax => tick'.orders_amount = 0
  BY <1>1, <1>2, <1>4 DEF IInv, SaturatesEmpty, TickState
<1>6. /\ order' \in [Ids -> OrderState \cup {NoOrder}]
      /\ OrderShape' /\ SaturatesEmpty' /\ NonceFresh' /\ fills_grow
  BY <1>2, <1>4, <1>5, ReplaceOrder
<1>7. vault' \in [0 .. 1 -> Int]
  <2>1. order[i].zero_for_one \in BOOLEAN
    BY <1>3 DEF OrderState
  <2> QED
    BY <1>1, <1>2, <1>4, <2>1, PayOwner
<1>8. count' \in Nat /\ bit' \in BOOLEAN
  <2>1. has_limit_orders(tick) \in BOOLEAN /\ has_limit_orders(r.tick) \in BOOLEAN
    BY DEF has_limit_orders
  <2> QED
    BY <2>1, <1>2, RecountType DEF IInv, TypeOK
<1>9. TypeOK'
  BY <1>2, <1>4, <1>6, <1>7, <1>8 DEF IInv, TypeOK
<1> QED
  BY <1>6, <1>9 DEF IInv

\* settle_limit_order preserves the invariant.
LEMMA SettleStep ==
  ASSUME IInv, NEW i \in Ids, settle_limit_order(i)
  PROVE  IInv' /\ fills_grow
<1> DEFINE s == settle_filled_order(order[i], tick)
<1>1. tick \in TickState /\ vault \in [0 .. 1 -> Int]
  BY DEF IInv, TypeOK
<1>2. /\ order[i].open
      /\ order' = [order EXCEPT ![i] = s.order]
      /\ vault' = pay_owner(order[i].zero_for_one, 0, s.payout)
      /\ UNCHANGED <<tick, order_nonce, tick_current, status, others, count, bit>>
  BY DEF settle_limit_order
<1>3. order[i] \in OrderState /\ fits(order[i], tick)
  BY <1>2, OpenOrder
<1>4. /\ s.order \in OrderState /\ s.payout \in Nat
      /\ fits(s.order, tick)
      /\ s.order.order_phase = order[i].order_phase
      /\ s.order.filled_amount >= order[i].filled_amount
  BY <1>1, <1>3, SettleFits
<1> HIDE DEF s
<1>5. tick'.order_phase = PhaseMax => tick'.orders_amount = 0
  BY <1>2 DEF IInv, SaturatesEmpty
<1>6. /\ order' \in [Ids -> OrderState \cup {NoOrder}]
      /\ OrderShape' /\ SaturatesEmpty' /\ NonceFresh' /\ fills_grow
  BY <1>1, <1>2, <1>4, <1>5, ReplaceOrder
<1>7. vault' \in [0 .. 1 -> Int]
  <2>1. order[i].zero_for_one \in BOOLEAN
    BY <1>3 DEF OrderState
  <2> QED
    BY <1>1, <1>2, <1>4, <2>1, PayOwner
<1>8. TypeOK'
  BY <1>2, <1>6, <1>7 DEF IInv, TypeOK
<1> QED
  BY <1>6, <1>8 DEF IInv

\* close_limit_order preserves the invariant.
LEMMA CloseStep ==
  ASSUME IInv, NEW i \in Ids, close_limit_order(i)
  PROVE  IInv' /\ fills_grow
<1>1. /\ order \in [Ids -> OrderState \cup {NoOrder}]
      /\ order' = [order EXCEPT ![i] = NoOrder]
      /\ UNCHANGED <<tick, order_nonce, tick_current, status, others, count, bit, vault>>
  BY DEF IInv, TypeOK, close_limit_order
<1>2. /\ order' \in [Ids -> OrderState \cup {NoOrder}]
      /\ \A j \in Ids : order'[j] = order[j] \/ order'[j] = NoOrder
  BY <1>1
<1>3. TypeOK'
  BY <1>1, <1>2 DEF IInv, TypeOK
<1>4. OrderShape'
  BY <1>1, <1>2 DEF IInv, OrderShape, OpenIds, NoOrder
<1>5. SaturatesEmpty' /\ NonceFresh'
  BY <1>1, <1>2 DEF IInv, SaturatesEmpty, NonceFresh
<1>6. fills_grow
  <2>1. ASSUME NEW j \in Ids, order[j].open, order'[j].open
        PROVE  /\ order'[j].order_phase = order[j].order_phase
               /\ order'[j].filled_amount >= order[j].filled_amount
    <3>1. order'[j] = order[j]
      BY <1>2, <2>1 DEF NoOrder
    <3>2. order[j].filled_amount \in Nat
      BY <2>1, OpenOrder DEF OrderState
    <3> QED
      BY <3>1, <3>2
  <2>2. tick'.order_phase >= tick.order_phase
    BY <1>1 DEF IInv, TypeOK, TickState
  <2> QED
    BY <2>1, <2>2 DEF fills_grow, OpenIds
<1> QED
  BY <1>3, <1>4, <1>5, <1>6 DEF IInv

\* A match at the tick preserves the invariant (swap_internal).
LEMMA SwapStep ==
  ASSUME IInv, NEW z \in BOOLEAN, NEW a \in Amounts, NEW b \in BOOLEAN,
         NEW f \in FeeRates, NEW n \in BOOLEAN, swap_at_tick(z, a, b, f, n)
  PROVE  IInv' /\ fills_grow
<1> DEFINE m == match_amounts(tick, a, z, b, f, n)
           t == consume(tick, m.gross_out)
<1>1. /\ tick \in TickState /\ vault \in [0 .. 1 -> Int] /\ a \in Nat
      /\ order \in [Ids -> OrderState \cup {NoOrder}]
  BY BoundAssumption DEF IInv, TypeOK, Amounts
<1>2. /\ m.gross_out > 0
      /\ tick' = t
      /\ recount(TRUE, has_limit_orders(t))
      /\ tick_current' = side_after(z, t)
      /\ vault' = [vault EXCEPT ![sold(z)] = @ + m.amount_in, ![bought(z)] = @ - m.gross_out]
      /\ UNCHANGED <<order, order_nonce, status, others>>
  BY DEF swap_at_tick
<1>3. /\ m.amount_in \in Int
      /\ m.gross_out \in Int
      /\ m.gross_out <= limit_order_unfilled_amount(tick)
  BY <1>1, MatchBounded
<1> HIDE DEF m
<1>4. /\ t \in TickState
      /\ t.order_phase <= PhaseMax
      /\ \/ /\ t.order_phase = tick.order_phase
            /\ t.unfilled_ratio_x64 <= tick.unfilled_ratio_x64
            /\ t.orders_amount = tick.orders_amount
         \/ /\ t.order_phase = tick.order_phase + 1
            /\ t.unfilled_ratio_x64 <= Q64
            /\ t.orders_amount = 0
  BY <1>1, <1>2, <1>3, ConsumeTick DEF IInv, SaturatesEmpty
<1> HIDE DEF t
<1>5. OrderShape'
  <2>1. ASSUME NEW i \in Ids, order[i].open PROVE fits(order[i], t)
    BY <2>1, <1>1, <1>4, OpenOrder, ConsumeFits
  <2> QED
    BY <2>1, <1>2 DEF OrderShape, OpenIds
<1>6. SaturatesEmpty' /\ NonceFresh'
  BY <1>2, <1>4 DEF IInv, SaturatesEmpty, NonceFresh
<1>7. TypeOK'
  <2>1. vault' \in [0 .. 1 -> Int]
    BY <1>1, <1>2, <1>3 DEF sold, bought
  <2>2. count' \in Nat /\ bit' \in BOOLEAN
    <3>1. TRUE \in BOOLEAN /\ has_limit_orders(t) \in BOOLEAN
      BY DEF has_limit_orders
    <3> QED
      BY <3>1, <1>2, RecountType DEF IInv, TypeOK
  <2>3. tick_current' \in -1 .. 1
    BY <1>2 DEF side_after
  <2> QED
    BY <1>1, <1>2, <1>4, <2>1, <2>2, <2>3 DEF IInv, TypeOK
<1>8. fills_grow
  <2>1. tick'.order_phase >= tick.order_phase
    BY <1>1, <1>2, <1>4 DEF TickState
  <2>2. \A i \in Ids : order[i].open => order[i].filled_amount \in Nat
    BY OpenOrder DEF OrderState
  <2> QED
    BY <1>2, <2>1, <2>2 DEF fills_grow, OpenIds
<1> QED
  BY <1>5, <1>6, <1>7, <1>8 DEF IInv

\* A step that changes neither the tick nor any order keeps what IInv says of
\* them.
LEMMA FrameStep ==
  ASSUME IInv, UNCHANGED <<tick, order, order_nonce>>, TypeOK'
  PROVE  IInv' /\ fills_grow
<1>1. OrderShape' /\ SaturatesEmpty' /\ NonceFresh'
  BY DEF IInv, OrderShape, OpenIds, SaturatesEmpty, NonceFresh
<1>2. \A i \in Ids : order[i].open => order[i].filled_amount \in Nat
  BY OpenOrder DEF OrderState
<1>3. tick'.order_phase >= tick.order_phase
  BY DEF IInv, TypeOK, TickState
<1>4. fills_grow
  BY <1>2, <1>3 DEF fills_grow, OpenIds
<1> QED
  BY <1>1, <1>4 DEF IInv

(***************************************************************************)
(* The theorems.                                                           *)
(***************************************************************************)
\* The invariant holds initially.
LEMMA InitInv == Init => IInv
<1> SUFFICES ASSUME Init PROVE IInv
  OBVIOUS
<1>1. TypeOK
  <2>1. tick \in TickState
    BY DEF Init, TickState
  <2>2. order \in [Ids -> OrderState \cup {NoOrder}]
    BY DEF Init
  <2>3. others \in BOOLEAN /\ bit \in BOOLEAN
    BY DEF Init
  <2>4. tick_current \in -1 .. 1 /\ count \in Nat /\ order_nonce \in Nat
    BY DEF Init
  <2>5. status \subseteq {"LimitOrder", "Swap"} /\ vault \in [0 .. 1 -> Int]
    BY DEF Init
  <2> QED
    BY <2>1, <2>2, <2>3, <2>4, <2>5 DEF TypeOK
<1>2. \A i \in Ids : order[i] = NoOrder /\ ~order[i].open
  BY DEF Init, NoOrder
<1>3. OrderShape
  BY <1>2 DEF OrderShape, OpenIds
<1>4. SaturatesEmpty /\ NonceFresh
  BY <1>2, BoundAssumption DEF Init, SaturatesEmpty, NonceFresh
<1> QED
  BY <1>1, <1>3, <1>4 DEF IInv

\* Every step preserves it, and never takes a phase or a fill back.
LEMMA NextInv == IInv /\ Next => IInv' /\ fills_grow
<1> SUFFICES ASSUME IInv, Next PROVE IInv' /\ fills_grow
  OBVIOUS
<1>1. CASE \E z \in BOOLEAN, a \in Amounts : open_limit_order(z, a)
  BY <1>1, OpenStep
<1>2. CASE \E i \in Ids, a \in Amounts : increase_limit_order(i, a)
  BY <1>2, IncreaseStep
<1>3. CASE \E i \in Ids, a \in Amounts : decrease_limit_order(i, a)
  BY <1>3, DecreaseStep
<1>4. CASE \E i \in Ids : settle_limit_order(i)
  BY <1>4, SettleStep
<1>5. CASE \E i \in Ids : close_limit_order(i)
  BY <1>5, CloseStep
<1>6. CASE \E z \in BOOLEAN, a \in Amounts, b \in BOOLEAN, f \in FeeRates, n \in BOOLEAN :
             swap_at_tick(z, a, b, f, n)
  BY <1>6, SwapStep
<1>7. CASE \E to \in -1 .. 1 : move_price(to)
  <2>1. TypeOK' /\ UNCHANGED <<tick, order, order_nonce>>
    BY <1>7 DEF move_price, IInv, TypeOK
  <2> QED
    BY <2>1, FrameStep
<1>8. CASE flip_other_tick
  <2>1. UNCHANGED <<tick, order, order_nonce, tick_current, status, vault>>
    BY <1>8 DEF flip_other_tick
  <2>2. count_up \/ count_down
    BY <1>8, Zenon DEF flip_other_tick
  <2>3. count' \in Nat
    BY <2>2 DEF count_up, count_down, IInv, TypeOK
  <2>4. bit' \in BOOLEAN
    BY <2>2, Zenon DEF count_up, count_down, IInv, TypeOK
  <2>5. others' \in BOOLEAN
    BY <1>8 DEF flip_other_tick
  <2>6. TypeOK'
    BY <2>1, <2>3, <2>4, <2>5 DEF IInv, TypeOK
  <2> QED
    BY <2>1, <2>6, FrameStep
<1>9. CASE \E st \in Statuses : update_pool_status(st)
  <2>1. TypeOK' /\ UNCHANGED <<tick, order, order_nonce>>
    BY <1>9, BoundAssumption DEF update_pool_status, IInv, TypeOK
  <2> QED
    BY <2>1, FrameStep
<1> QED
  BY <1>1, <1>2, <1>3, <1>4, <1>5, <1>6, <1>7, <1>8, <1>9 DEF Next

\* A stuttering step too.
LEMMA StutterInv == IInv /\ UNCHANGED vars => IInv'
<1> SUFFICES ASSUME IInv, UNCHANGED vars PROVE IInv'
  OBVIOUS
<1>1. TypeOK' /\ UNCHANGED <<tick, order, order_nonce>>
  BY DEF vars, IInv, TypeOK
<1> QED
  BY <1>1, FrameStep

\* The invariant holds in every reachable state.
THEOREM Invariance == Spec => []IInv
<1>1. IInv /\ [Next]_vars => IInv'
  BY NextInv, StutterInv
<1> QED
  BY InitInv, <1>1, PTL DEF Spec

\* Every field keeps the type of the account field it models: no amount, count
\* or phase is ever taken below zero by any instruction.
THEOREM TypeCorrect == Spec => []TypeOK
<1>1. IInv => TypeOK
  BY DEF IInv
<1> QED
  BY <1>1, Invariance, PTL

\* Every open order fits the tick in every reachable state.
THEOREM ShapeCorrect == Spec => []OrderShape
<1>1. IInv => OrderShape
  BY DEF IInv
<1> QED
  BY <1>1, Invariance, PTL

\* When order_phase saturates there is no cohort left that could be merged.
THEOREM SaturationSafe == Spec => []SaturatesEmpty
<1>1. IInv => SaturatesEmpty
  BY DEF IInv
<1> QED
  BY <1>1, Invariance, PTL

\* Settling an open order never fails, and the branch of decrease_amount that
\* the code calls impossible to trigger is never taken.
THEOREM SettlementTotal == Spec => []NeverStranded
<1>1. IInv => NeverStranded
  <2> SUFFICES ASSUME IInv, NEW i \in Ids, order[i].open
               PROVE  /\ settle_filled_order(order[i], tick).ok
                      /\ ~already_filled(settle_filled_order(order[i], tick).order, tick)
    BY DEF NeverStranded, OpenIds
  <2>1. order[i] \in OrderState /\ fits(order[i], tick) /\ tick \in TickState
    BY OpenOrder DEF IInv, TypeOK
  <2> QED
    BY <2>1, SettleFits
<1> QED
  BY <1>1, Invariance, PTL

\* No step takes back a phase or a fill that an order has recorded.
THEOREM FillsNeverUndone == Spec => FillsMonotone
<1>1. IInv /\ [Next]_vars => [fills_grow]_vars
  BY NextInv
<1> QED
  BY <1>1, Invariance, PTL DEF Spec, FillsMonotone

(***************************************************************************)
(* The second part: the cohorts of a tick.  What the tick says of its      *)
(* orders is true of them together, for any number of orders.              *)
(*                                                                         *)
(* orders_amount is the sum of the orders that wait.  Of the cohort that   *)
(* is being filled the tick keeps part_filled_orders_remaining, and an     *)
(* order its share of it, base * ratio / its own ratio, of which it may    *)
(* take back the integer part.  That the shares are covered survives a     *)
(* fill only if it is stated of the shares themselves and not of their     *)
(* integer parts: Backed states it over a common denominator.              *)
(***************************************************************************)
\* What an order has unfilled once it is settled.
left(o, t) ==
  IF o.order_phase = t.order_phase THEN o.total_amount
  ELSE IF o.order_phase + 1 = t.order_phase
  THEN (o.settle_base * t.unfilled_ratio_x64) \div o.unfilled_ratio_x64
  ELSE 0

waiting == [i \in Ids |-> IF order[i].open /\ order[i].order_phase = tick.order_phase
                          THEN order[i].total_amount ELSE 0]

Cohort == {i \in Ids : order[i].open /\ order[i].order_phase + 1 = tick.order_phase}

WaitingExact == tick.orders_amount = SumFunctionOnSet(waiting, Ids)

\* s[i] / D bounds settle_base / unfilled_ratio_x64 of order i.
Covers(D, s) ==
  /\ \A i \in Cohort : order[i].settle_base * D <= s[i] * order[i].unfilled_ratio_x64
  /\ tick.unfilled_ratio_x64 * SumFunctionOnSet(s, Ids) <= tick.part_filled_orders_remaining * D

Backed == \E D \in Nat \ {0} : \E s \in [Ids -> Nat] : Covers(D, s)

AmountsFit == \A i \in OpenIds : order[i].total_amount <= U64Max

CohortInv == WaitingExact /\ Backed /\ AmountsFit

(***************************************************************************)
(* Orders, one at a time.                                                  *)
(***************************************************************************)
\* The fields that the lemmas below speak of are numbers.
LEMMA FieldsNat ==
  ASSUME NEW o \in OrderState, NEW t \in TickState
  PROVE  /\ o.open = TRUE /\ o.zero_for_one \in BOOLEAN
         /\ o.order_phase \in Nat /\ o.total_amount \in Nat /\ o.filled_amount \in Nat
         /\ o.settle_base \in Nat /\ o.unfilled_ratio_x64 \in Nat /\ o.settled_output \in Nat
         /\ t.order_phase \in Nat /\ t.orders_amount \in Nat
         /\ t.part_filled_orders_remaining \in Nat /\ t.unfilled_ratio_x64 \in Nat
BY DEF OrderState, TickState

\* A settlement leaves unfilled what the order's share of its cohort says, and
\* neither the base nor the ratio of an order of the cohort changes
\* (settle_filled_order).
LEMMA SettleLeft ==
  ASSUME NEW o \in OrderState, NEW t \in TickState, fits(o, t), t.order_phase <= PhaseMax
  PROVE  LET q == settle_filled_order(o, t).order
         IN /\ left(o, t) \in Nat
            /\ get_unfilled_amount(q) = left(o, t)
            /\ q.zero_for_one = o.zero_for_one
            /\ o.order_phase = t.order_phase => q = o
            /\ o.order_phase + 1 = t.order_phase =>
                 /\ q.settle_base = o.settle_base
                 /\ q.unfilled_ratio_x64 = o.unfilled_ratio_x64
<1> DEFINE s == settle_filled_order(o, t)
           q == s.order
<1>0. /\ o.order_phase \in Nat /\ t.order_phase \in Nat /\ o.total_amount \in Nat
      /\ o.filled_amount \in Nat /\ o.settle_base \in Nat /\ o.settled_output \in Nat
      /\ o.unfilled_ratio_x64 \in Nat /\ t.unfilled_ratio_x64 \in Nat
      /\ o.zero_for_one \in BOOLEAN /\ PhaseMax \in Nat
  BY FieldsNat, BoundAssumption
<1>1. CASE o.order_phase = t.order_phase
  <2>1. q = o
    BY <1>1 DEF settle_filled_order, unpaid
  <2>2. get_unfilled_amount(o) = o.total_amount
    BY <1>0, <1>1 DEF fits, get_unfilled_amount
  <2> QED BY <1>0, <1>1, <2>1, <2>2 DEF left
<1>2. CASE o.order_phase + 1 = t.order_phase
  <2> DEFINE numerator == o.settle_base * t.unfilled_ratio_x64
             ideal == numerator \div o.unfilled_ratio_x64
  <2>1. /\ numerator \in Nat /\ ideal \in Nat /\ left(o, t) = ideal
        /\ o.order_phase # t.order_phase
    BY <1>0, <1>2, DivBounds DEF left, fits
  <2>2. /\ ideal <= get_unfilled_amount(o) /\ get_unfilled_amount(o) <= o.settle_base
        /\ get_unfilled_amount(o) = o.total_amount - o.filled_amount
    BY <1>0, <1>2 DEF fits, get_unfilled_amount
  <2>3. CASE o.settle_base = 0
    <3>1. q = o
      BY <2>3 DEF settle_filled_order, unpaid
    <3>2. get_unfilled_amount(o) = ideal
      BY <1>0, <2>1, <2>2, <2>3
    <3> QED BY <2>1, <3>1, <3>2
  <2>4. CASE o.settle_base # 0
    <3>1. s = settle_part_filled(o, t)
      <4>1. phase_after(o.order_phase, 1) = t.order_phase
        BY <1>0, <1>2 DEF phase_after, fits
      <4> QED BY <4>1, <2>1, <2>4 DEF settle_filled_order
    <3> DEFINE filled == saturating_sub(o.settle_base, ideal)
               effective == IF numerator % o.unfilled_ratio_x64 = 0 THEN filled ELSE filled - 1
               out == get_limit_order_output(effective, o.zero_for_one)
    <3>2. filled = o.settle_base - ideal
      BY <1>0, <2>1, <2>2 DEF saturating_sub
    <3>3. CASE filled = 0
      <4>1. s = unpaid(o)
        BY <3>1, <3>3 DEF settle_part_filled
      <4>2. get_unfilled_amount(o) = ideal
        <5> HIDE DEF ideal, filled
        <5> QED BY <1>0, <2>1, <2>2, <3>2, <3>3
      <4> QED BY <4>1, <4>2, <2>1 DEF unpaid
    <3>4. CASE filled # 0
      <4> DEFINE f == o.total_amount - ideal
                 p == [o EXCEPT !.filled_amount = f, !.settled_output = out]
      <4>1. q = p
        BY <3>1, <3>4 DEF settle_part_filled
      <4> HIDE DEF ideal, out
      <4>2. f \in Int /\ o.total_amount - f = ideal
        BY <1>0, <2>1
      <4> HIDE DEF f
      <4>3. /\ p.filled_amount = f /\ p.total_amount = o.total_amount
            /\ p.zero_for_one = o.zero_for_one /\ p.settle_base = o.settle_base
            /\ p.unfilled_ratio_x64 = o.unfilled_ratio_x64
        BY DEF OrderState
      <4> HIDE DEF p
      <4> QED BY <4>1, <4>2, <4>3, <2>1 DEF get_unfilled_amount
    <3> QED BY <3>3, <3>4
  <2> QED BY <2>3, <2>4
<1>3. CASE o.order_phase # t.order_phase /\ o.order_phase + 1 # t.order_phase
  <2>1. o.order_phase + 2 <= t.order_phase /\ left(o, t) = 0
    BY <1>0, <1>3 DEF fits, left
  <2>2. CASE o.settle_base = 0
    <3>1. q = o
      BY <2>2 DEF settle_filled_order, unpaid
    <3>2. get_unfilled_amount(o) = 0
      BY <1>0, <2>2 DEF fits, get_unfilled_amount
    <3> QED BY <2>1, <3>1, <3>2, <1>3
  <2>3. CASE o.settle_base # 0
    <3>1. s = settle_fully_filled(o)
      <4>1. /\ phase_after(o.order_phase, 1) # t.order_phase
            /\ phase_after(o.order_phase, 2) <= t.order_phase
        BY <1>0, <2>1 DEF phase_after
      <4> QED BY <4>1, <2>3, <1>3 DEF settle_filled_order
    <3>2. q = [o EXCEPT !.filled_amount = o.total_amount, !.settle_base = 0, !.settled_output = 0]
      BY <3>1 DEF settle_fully_filled
    <3>3. q.filled_amount = q.total_amount /\ q.total_amount \in Nat
          /\ q.zero_for_one = o.zero_for_one
      BY <3>2 DEF OrderState
    <3> HIDE DEF q
    <3>4. get_unfilled_amount(q) = 0
      BY <3>3 DEF get_unfilled_amount
    <3> QED BY <3>3, <3>4, <2>1, <1>3 DEF q
  <2> QED BY <2>2, <2>3
<1> QED BY <1>1, <1>2, <1>3

\* What a decrease that succeeds takes from the order and from its cohort, and
\* the segment it begins (decrease_amount).
LEMMA DecreaseParts ==
  ASSUME NEW o \in OrderState, NEW t \in TickState, fits(o, t), t.order_phase <= PhaseMax,
         NEW amount \in Nat, decrease_amount(o, t, amount).ok
  PROVE  LET r == decrease_amount(o, t, amount)
             d == r.decrease
         IN /\ d \in Nat /\ d <= left(o, t)
            /\ r.order.zero_for_one = o.zero_for_one
            /\ r.order.total_amount = o.total_amount - d
            /\ o.order_phase = t.order_phase =>
                 /\ r.tick.orders_amount = t.orders_amount - d
                 /\ r.tick.part_filled_orders_remaining = t.part_filled_orders_remaining
            /\ o.order_phase # t.order_phase =>
                 /\ r.tick.orders_amount = t.orders_amount
                 /\ d <= t.part_filled_orders_remaining
                 /\ r.tick.part_filled_orders_remaining = t.part_filled_orders_remaining - d
            /\ o.order_phase + 1 = t.order_phase =>
                 \/ /\ d = 0 /\ r.order.settle_base = o.settle_base
                    /\ r.order.unfilled_ratio_x64 = o.unfilled_ratio_x64
                 \/ /\ r.order.settle_base = left(o, t) - d
                    /\ r.order.unfilled_ratio_x64 = t.unfilled_ratio_x64
<1> DEFINE s == settle_filled_order(o, t)
           q == s.order
           d == IF get_unfilled_amount(q) = 0 THEN 0 ELSE real_decrease(q, t, amount)
           r == decrease_amount(o, t, amount)
<1>1. /\ q \in OrderState /\ fits(q, t) /\ q.order_phase = o.order_phase
      /\ q.total_amount = o.total_amount /\ ~already_filled(q, t)
  BY SettleFits
<1>2. /\ left(o, t) \in Nat /\ get_unfilled_amount(q) = left(o, t)
      /\ q.zero_for_one = o.zero_for_one
      /\ o.order_phase + 1 = t.order_phase =>
           /\ q.settle_base = o.settle_base /\ q.unfilled_ratio_x64 = o.unfilled_ratio_x64
  BY SettleLeft
<1>3. /\ t.orders_amount \in Nat /\ t.part_filled_orders_remaining \in Nat
      /\ q.total_amount \in Nat /\ q.filled_amount \in Nat
      /\ o.order_phase \in Nat /\ t.order_phase \in Nat
  BY <1>1, FieldsNat
<1> HIDE DEF q
<1>4. /\ d \in Nat /\ d <= left(o, t)
      /\ o.order_phase # t.order_phase => d <= t.part_filled_orders_remaining
  BY <1>1, <1>2, <1>3 DEF real_decrease, least
<1> HIDE DEF d
<1>5. CASE d = 0
  <2>1. r.order = q /\ r.tick = t /\ r.decrease = 0
    BY <1>5 DEF decrease_amount, q, d
  <2> QED BY <2>1, <1>1, <1>2, <1>3, <1>4, <1>5
<1>6. CASE d # 0
  <2> DEFINE p == after_decrease(q, t, d)
             u == tick_after_decrease(q, t, d)
  <2>1. r.order = p /\ r.tick = u /\ r.decrease = d
    BY <1>6 DEF decrease_amount, q, d
  <2>2. q.total_amount - q.filled_amount = left(o, t)
    BY <1>2 DEF get_unfilled_amount
  <2>3. q.filled_amount + d <= q.total_amount
    BY <1>2, <1>3, <1>4, <2>2
  <2>4. /\ p.total_amount = q.total_amount - d
        /\ q.order_phase # t.order_phase =>
             /\ p.settle_base = q.total_amount - d - q.filled_amount
             /\ p.unfilled_ratio_x64 = t.unfilled_ratio_x64
    BY <1>1, <1>4, <2>3, AfterDecrease
  <2>5. p.zero_for_one = o.zero_for_one
    BY <1>1, <1>2 DEF after_decrease, OrderState
  <2>6. /\ o.order_phase = t.order_phase =>
             /\ u.orders_amount = t.orders_amount - d
             /\ u.part_filled_orders_remaining = t.part_filled_orders_remaining
        /\ o.order_phase # t.order_phase =>
             /\ u.orders_amount = t.orders_amount
             /\ u.part_filled_orders_remaining = t.part_filled_orders_remaining - d
    BY <1>1, <1>3, <1>4 DEF tick_after_decrease, TickState
  <2>7. q.total_amount - d - q.filled_amount = left(o, t) - d
    BY <1>2, <1>3, <1>4, <2>2
  <2>8. o.order_phase + 1 = t.order_phase => o.order_phase # t.order_phase
    BY <1>3
  <2> HIDE DEF p, u
  <2> QED BY <1>1, <1>4, <2>1, <2>4, <2>5, <2>6, <2>7, <2>8
<1> QED BY <1>5, <1>6

(***************************************************************************)
(* The sums.                                                               *)
(***************************************************************************)
\* What waits is a number for every order, and there are finitely many.
LEMMA WaitingNat ==
  ASSUME IInv
  PROVE  /\ waiting \in [Ids -> Nat] /\ IsFiniteSet(Ids)
         /\ \A i \in Ids : waiting[i] = IF order[i].open /\ order[i].order_phase = tick.order_phase
                                        THEN order[i].total_amount ELSE 0
<1>1. \A i \in Ids : order[i].open => order[i].total_amount \in Nat
  BY OpenOrder DEF OrderState
<1>2. IsFiniteSet(Ids)
  BY BoundAssumption, FS_Interval DEF Ids
<1> QED BY <1>1, <1>2 DEF waiting

\* One order of the waiting cohort changes, and orders_amount with it.
LEMMA WaitingStep ==
  ASSUME IInv, IInv', WaitingExact, NEW i \in Ids,
         \A j \in Ids : j # i => waiting'[j] = waiting[j],
         tick'.orders_amount = (tick.orders_amount - waiting[i]) + waiting'[i]
  PROVE  WaitingExact'
<1> DEFINE f == waiting
           e == waiting'
<1>1. f \in [Ids -> Nat] /\ IsFiniteSet(Ids)
  BY WaitingNat
<1>2. e \in [Ids -> Nat]
  <2>1. order' \in [Ids -> OrderState \cup {NoOrder}]
    BY DEF IInv, TypeOK
  <2>2. \A j \in Ids : order'[j].open => order'[j].total_amount \in Nat
    <3>1. \A j \in Ids : order'[j].open => order'[j] \in OrderState
      BY <2>1 DEF NoOrder
    <3> QED BY <3>1 DEF OrderState
  <2> QED BY <2>2 DEF waiting
<1>3. \A j \in Ids : f[j] \in Int /\ e[j] \in Int
  BY <1>1, <1>2
<1>4. \A j \in Ids : j # i => f[j] = e[j]
  OBVIOUS
<1>5. tick'.orders_amount = (tick.orders_amount - f[i]) + e[i]
  OBVIOUS
<1>6. tick.orders_amount = SumFunctionOnSet(f, Ids)
  BY DEF WaitingExact
<1> HIDE DEF f, e
<1>7. SumFunctionOnSet(e, Ids) = (SumFunctionOnSet(f, Ids) - f[i]) + e[i]
  BY <1>1, <1>3, <1>4, SumUpdate
<1>8. tick'.orders_amount = SumFunctionOnSet(e, Ids)
  BY <1>5, <1>6, <1>7
<1> QED BY <1>8 DEF WaitingExact, e

\* An order that waits is part of orders_amount.
LEMMA WaitingBounds ==
  ASSUME IInv, WaitingExact, NEW i \in Ids, order[i].open, order[i].order_phase = tick.order_phase
  PROVE  order[i].total_amount <= tick.orders_amount
<1> DEFINE f == waiting
<1>1. f \in [Ids -> Nat] /\ IsFiniteSet(Ids) /\ f[i] = order[i].total_amount
      /\ tick.orders_amount = SumFunctionOnSet(f, Ids)
  BY WaitingNat DEF WaitingExact
<1> HIDE DEF f
<1>2. \A j \in Ids : f[j] \in Nat
  BY <1>1
<1>3. f[i] <= SumFunctionOnSet(f, Ids)
  BY <1>1, <1>2, SumNat
<1> QED BY <1>1, <1>3

\* A share's integer part, over the common denominator.
LEMMA ShareBounds ==
  ASSUME NEW b \in Nat, NEW r \in Nat, NEW x \in Nat, x > 0, NEW D \in Nat, NEW s \in Nat,
         b * D <= s * x
  PROVE  ((b * r) \div x) * D <= r * s
<1> DEFINE k == (b * r) \div x
<1>1. b * r \in Nat /\ k \in Nat /\ x * k <= b * r
  BY DivBounds
<1> HIDE DEF k
<1>2. (x * k) * D <= (b * r) * D
  BY <1>1
<1>3. (b * r) * D = r * (b * D) /\ r * (b * D) <= r * (s * x)
  <2>1. b * D \in Nat /\ s * x \in Nat
    OBVIOUS
  <2>2. r * (b * D) <= r * (s * x)
    BY <2>1, MulMono
  <2>3. (b * r) * D = r * (b * D)
    OBVIOUS
  <2> QED BY <2>2, <2>3
<1>4. x * (k * D) <= x * (r * s)
  <2>1. (x * k) * D = x * (k * D) /\ r * (s * x) = x * (r * s)
    BY <1>1
  <2> QED BY <1>1, <1>2, <1>3, <2>1
<1>5. k * D \in Nat /\ r * s \in Nat
  BY <1>1
<1> DEFINE y == k * D
           z == r * s
<1>6. y \in Nat /\ z \in Nat /\ x * y <= x * z
  BY <1>4, <1>5
<1> HIDE DEF y, z
<1>7. y <= z
  <2>1. SUFFICES ASSUME z + 1 <= y PROVE FALSE
    BY <1>6
  <2>2. x * (z + 1) <= x * y /\ x * (z + 1) = x * z + x
    BY <1>6, <2>1, MulMono
  <2> QED BY <1>6, <2>2
<1> QED BY <1>7 DEF y, z, k

\* What an order of the cohort may take back is there.
LEMMA CohortBounds ==
  ASSUME IInv, Backed, NEW i \in Cohort
  PROVE  left(order[i], tick) <= tick.part_filled_orders_remaining
<1> DEFINE o == order[i]
           P == tick.part_filled_orders_remaining
           R == tick.unfilled_ratio_x64
<1>1. PICK D \in Nat \ {0} : \E s \in [Ids -> Nat] : Covers(D, s)
  BY DEF Backed
<1>2. PICK s \in [Ids -> Nat] : Covers(D, s)
  BY <1>1
<1>3. /\ i \in Ids /\ o \in OrderState /\ tick \in TickState /\ fits(o, tick)
      /\ o.order_phase + 1 = tick.order_phase
  BY OpenOrder DEF Cohort, IInv, TypeOK
<1>4. /\ o.settle_base \in Nat /\ o.unfilled_ratio_x64 \in Nat /\ o.unfilled_ratio_x64 > 0
      /\ P \in Nat /\ R \in Nat /\ o.order_phase \in Nat
  BY <1>3, FieldsNat DEF fits
<1>5. left(o, tick) = (o.settle_base * R) \div o.unfilled_ratio_x64
  BY <1>3, <1>4 DEF left
<1>6. s[i] \in Nat /\ o.settle_base * D <= s[i] * o.unfilled_ratio_x64
  BY <1>2, <1>3 DEF Covers
<1>7. R * SumFunctionOnSet(s, Ids) <= P * D
  BY <1>2 DEF Covers
<1> HIDE DEF o, P, R
<1> DEFINE k == left(o, tick)
<1>8. k * D <= R * s[i]
  BY <1>4, <1>5, <1>6, ShareBounds
<1>9. SumFunctionOnSet(s, Ids) \in Nat /\ s[i] <= SumFunctionOnSet(s, Ids)
  <2>1. IsFiniteSet(Ids) /\ \A j \in Ids : s[j] \in Nat
    BY WaitingNat
  <2> QED BY <1>3, <2>1, SumNat
<1>10. R * s[i] <= R * SumFunctionOnSet(s, Ids) /\ R * s[i] \in Nat
       /\ R * SumFunctionOnSet(s, Ids) \in Nat
  BY <1>4, <1>6, <1>9, MulMono
<1>11. k \in Nat
  <2>1. o.settle_base * R \in Nat
    BY <1>4
  <2> QED BY <1>4, <1>5, <2>1, DivBounds
<1> HIDE DEF k
<1>12. k * D \in Nat /\ P * D \in Nat
  BY <1>4, <1>11
<1>13. k * D <= P * D
  BY <1>7, <1>8, <1>10, <1>12
<1>14. k <= P
  <2>1. SUFFICES ASSUME P + 1 <= k PROVE FALSE
    BY <1>4, <1>11
  <2>2. D * (P + 1) <= D * k /\ D * (P + 1) = P * D + D /\ D * k = k * D
    BY <1>4, <1>11, <2>1, MulMono
  <2> QED BY <1>12, <1>13, <2>2
<1> QED BY <1>14 DEF k, o, P

(***************************************************************************)
(* The actions.                                                            *)
(***************************************************************************)
\* The cohort that is being filled is as it was, or has lost orders.
LEMMA BackedKept ==
  ASSUME Backed,
         tick'.unfilled_ratio_x64 = tick.unfilled_ratio_x64,
         tick'.part_filled_orders_remaining = tick.part_filled_orders_remaining,
         \A j \in Cohort' : /\ j \in Cohort /\ order'[j].settle_base = order[j].settle_base
                            /\ order'[j].unfilled_ratio_x64 = order[j].unfilled_ratio_x64
  PROVE  Backed'
<1>1. PICK D \in Nat \ {0} : \E s \in [Ids -> Nat] : Covers(D, s)
  BY DEF Backed
<1>2. PICK s \in [Ids -> Nat] : Covers(D, s)
  BY <1>1
<1>3. Covers(D, s)'
  BY <1>2 DEF Covers
<1> QED BY <1>3 DEF Backed

\* open_limit_order: a new order waits.
LEMMA OpenCohort ==
  ASSUME IInv, IInv', CohortInv, NEW z \in BOOLEAN, NEW a \in Amounts, open_limit_order(z, a)
  PROVE  CohortInv'
<1> DEFINE i == order_nonce
           o == initialize(z, a, tick.order_phase)
<1>1. /\ tick \in TickState /\ order \in [Ids -> OrderState \cup {NoOrder}]
      /\ order_nonce \in Nat /\ a \in Nat /\ MaxOrders \in Nat /\ U64Max \in Nat
  BY BoundAssumption DEF IInv, TypeOK, Amounts
<1>2. /\ i \in Ids /\ order' = [order EXCEPT ![i] = o]
      /\ tick' = [tick EXCEPT !.orders_amount = @ + a]
      /\ tick.orders_amount + a <= U64Max
  BY <1>1 DEF open_limit_order, Ids
<1>3. order[i] = NoOrder /\ ~order[i].open
  BY <1>1, <1>2 DEF IInv, NonceFresh, NoOrder
<1>4. /\ tick'.order_phase = tick.order_phase
      /\ tick'.orders_amount = tick.orders_amount + a
      /\ tick'.part_filled_orders_remaining = tick.part_filled_orders_remaining
      /\ tick'.unfilled_ratio_x64 = tick.unfilled_ratio_x64
      /\ tick.orders_amount \in Nat /\ tick.order_phase \in Nat
  BY <1>1, <1>2 DEF TickState
<1>5. o.open /\ o.order_phase = tick.order_phase /\ o.total_amount = a
  BY DEF initialize
<1> HIDE DEF o
<1>6. order'[i] = o /\ \A j \in Ids : j # i => order'[j] = order[j]
  BY <1>1, <1>2
<1>7. WaitingExact'
  <2>1. waiting[i] = 0 /\ waiting'[i] = a /\ \A j \in Ids : j # i => waiting'[j] = waiting[j]
    BY <1>2, <1>3, <1>4, <1>5, <1>6 DEF waiting
  <2>2. tick'.orders_amount = (tick.orders_amount - waiting[i]) + waiting'[i]
    BY <1>1, <1>4, <2>1
  <2> HIDE DEF i
  <2> QED BY <1>2, <2>1, <2>2, WaitingStep DEF CohortInv
<1>8. Backed'
  <2>1. \A j \in Cohort' : j # i /\ j \in Cohort
    BY <1>4, <1>5, <1>6 DEF Cohort
  <2> QED BY <1>4, <1>6, <2>1, BackedKept DEF CohortInv, Cohort
<1>9. AmountsFit'
  <2>1. a <= U64Max
    BY <1>1, <1>2, <1>4
  <2> QED BY <1>5, <1>6, <2>1 DEF CohortInv, AmountsFit, OpenIds
<1> QED BY <1>7, <1>8, <1>9 DEF CohortInv

\* increase_limit_order: an order that waits grows.
LEMMA IncreaseCohort ==
  ASSUME IInv, IInv', CohortInv, NEW i \in Ids, NEW a \in Amounts, increase_limit_order(i, a)
  PROVE  CohortInv'
<1> DEFINE o == increase_amount(order[i], a)
<1>1. /\ tick \in TickState /\ order \in [Ids -> OrderState \cup {NoOrder}] /\ a \in Nat
      /\ U64Max \in Nat
  BY BoundAssumption DEF IInv, TypeOK, Amounts
<1>2. /\ order[i].open /\ order[i].order_phase = tick.order_phase
      /\ order' = [order EXCEPT ![i] = o]
      /\ tick' = [tick EXCEPT !.orders_amount = @ + a]
      /\ order[i].total_amount + a <= U64Max
  BY DEF increase_limit_order
<1>3. order[i] \in OrderState
  BY <1>2, OpenOrder
<1>4. /\ tick'.order_phase = tick.order_phase
      /\ tick'.orders_amount = tick.orders_amount + a
      /\ tick'.part_filled_orders_remaining = tick.part_filled_orders_remaining
      /\ tick'.unfilled_ratio_x64 = tick.unfilled_ratio_x64
      /\ tick.orders_amount \in Nat /\ tick.order_phase \in Nat
  BY <1>1, <1>2 DEF TickState
<1>5. /\ o.open /\ o.order_phase = tick.order_phase
      /\ o.total_amount = order[i].total_amount + a /\ order[i].total_amount \in Nat
  <2>1. o \in OrderState /\ o.order_phase = order[i].order_phase
        /\ o.total_amount = order[i].total_amount + a
    BY <1>1, <1>3, IncreaseAmount
  <2> HIDE DEF o
  <2> QED BY <1>1, <1>2, <1>3, <2>1, FieldsNat
<1> HIDE DEF o
<1>6. order'[i] = o /\ \A j \in Ids : j # i => order'[j] = order[j]
  BY <1>1, <1>2
<1>7. WaitingExact'
  <2>1. /\ waiting[i] = order[i].total_amount /\ waiting'[i] = order[i].total_amount + a
        /\ \A j \in Ids : j # i => waiting'[j] = waiting[j]
    BY <1>2, <1>4, <1>5, <1>6 DEF waiting
  <2>2. tick'.orders_amount = (tick.orders_amount - waiting[i]) + waiting'[i]
    BY <1>1, <1>4, <1>5, <2>1
  <2> QED BY <2>1, <2>2, WaitingStep DEF CohortInv
<1>8. Backed'
  <2>1. \A j \in Cohort' : j # i /\ j \in Cohort
    BY <1>4, <1>5, <1>6 DEF Cohort
  <2> QED BY <1>4, <1>6, <2>1, BackedKept DEF CohortInv, Cohort
<1>9. AmountsFit'
  BY <1>2, <1>5, <1>6 DEF CohortInv, AmountsFit, OpenIds
<1> QED BY <1>7, <1>8, <1>9 DEF CohortInv

\* settle_limit_order: the order's place in its cohort is the same.
LEMMA SettleCohort ==
  ASSUME IInv, IInv', CohortInv, NEW i \in Ids, settle_limit_order(i)
  PROVE  CohortInv'
<1> DEFINE q == settle_filled_order(order[i], tick).order
<1>1. /\ tick \in TickState /\ order \in [Ids -> OrderState \cup {NoOrder}]
      /\ tick.order_phase <= PhaseMax /\ tick.order_phase \in Nat /\ tick.orders_amount \in Nat
  BY DEF IInv, TypeOK, SaturatesEmpty, TickState
<1>2. order[i].open /\ order' = [order EXCEPT ![i] = q] /\ tick' = tick
  BY DEF settle_limit_order
<1>3. order[i] \in OrderState /\ fits(order[i], tick)
  BY <1>2, OpenOrder
<1>4. /\ q \in OrderState /\ q.order_phase = order[i].order_phase
      /\ q.total_amount = order[i].total_amount
      /\ order[i].order_phase + 1 = tick.order_phase =>
           /\ q.settle_base = order[i].settle_base
           /\ q.unfilled_ratio_x64 = order[i].unfilled_ratio_x64
  BY <1>1, <1>3, SettleFits, SettleLeft
<1> HIDE DEF q
<1>5. q.open /\ order[i].total_amount \in Nat
  BY <1>1, <1>3, <1>4, FieldsNat
<1>6. order'[i] = q /\ \A j \in Ids : j # i => order'[j] = order[j]
  BY <1>1, <1>2
<1>7. WaitingExact'
  <2>1. waiting' = waiting
    BY <1>2, <1>4, <1>5, <1>6 DEF waiting
  <2> QED BY <1>2, <2>1 DEF CohortInv, WaitingExact
<1>8. Backed'
  <2>1. \A j \in Cohort' : /\ j \in Cohort /\ order'[j].settle_base = order[j].settle_base
                           /\ order'[j].unfilled_ratio_x64 = order[j].unfilled_ratio_x64
    BY <1>2, <1>4, <1>6 DEF Cohort
  <2> QED BY <1>2, <2>1, BackedKept DEF CohortInv
<1>9. AmountsFit'
  BY <1>2, <1>4, <1>6 DEF CohortInv, AmountsFit, OpenIds
<1> QED BY <1>7, <1>8, <1>9 DEF CohortInv

\* close_limit_order: an order with nothing unfilled leaves.
LEMMA CloseCohort ==
  ASSUME IInv, IInv', CohortInv, NEW i \in Ids, close_limit_order(i)
  PROVE  CohortInv'
<1>1. /\ order \in [Ids -> OrderState \cup {NoOrder}]
      /\ order' = [order EXCEPT ![i] = NoOrder] /\ tick' = tick
      /\ order[i].open /\ get_unfilled_amount(order[i]) = 0
  BY DEF IInv, TypeOK, close_limit_order, closable
<1>2. order[i] \in OrderState /\ fits(order[i], tick) /\ tick \in TickState
  BY <1>1, OpenOrder DEF IInv, TypeOK
<1>3. /\ ~order'[i].open /\ \A j \in Ids : j # i => order'[j] = order[j]
      /\ order'[i] = NoOrder
  BY <1>1 DEF NoOrder
<1>4. order[i].order_phase = tick.order_phase => order[i].total_amount = 0
  <2>1. order[i].total_amount \in Nat /\ order[i].filled_amount \in Nat
    BY <1>2, FieldsNat
  <2> QED BY <1>1, <1>2, <2>1 DEF fits, get_unfilled_amount
<1>5. WaitingExact'
  <2>1. waiting' = waiting
    BY <1>1, <1>3, <1>4 DEF waiting
  <2> QED BY <1>1, <2>1 DEF CohortInv, WaitingExact
<1>6. Backed'
  <2>1. \A j \in Cohort' : j # i /\ j \in Cohort
    BY <1>1, <1>3 DEF Cohort
  <2> QED BY <1>1, <1>3, <2>1, BackedKept DEF CohortInv, Cohort
<1>7. AmountsFit'
  BY <1>3 DEF CohortInv, AmountsFit, OpenIds
<1> QED BY <1>5, <1>6, <1>7 DEF CohortInv

\* The shares once an order begins a new segment: over the denominator D * r the
\* others keep theirs and the order has b of what it could take back, b + d.
LEMMA NewSegment ==
  ASSUME IsFiniteSet(Ids), NEW s \in [Ids -> Nat], NEW i \in Ids, NEW D \in Nat, NEW r \in Nat,
         NEW P \in Nat, NEW b \in Nat, NEW d \in Nat, d <= P,
         r * SumFunctionOnSet(s, Ids) <= P * D, (b + d) * D <= r * s[i],
         NEW f \in [Ids -> Nat], f[i] = b * D, \A j \in Ids : j # i => f[j] = r * s[j]
  PROVE  SumFunctionOnSet(f, Ids) <= (P - d) * D
<1> DEFINE e == [j \in Ids |-> r * s[j]]
           S == SumFunctionOnSet(s, Ids)
<1>1. /\ \A j \in Ids : s[j] \in Int /\ s[j] \in Nat
      /\ \A j \in Ids : e[j] = r * s[j] /\ e[j] \in Int /\ f[j] \in Int
      /\ \A j \in Ids : j # i => e[j] = f[j]
      /\ e[i] = r * s[i]
  OBVIOUS
<1> HIDE DEF e
<1>2. S \in Nat
  BY <1>1, SumNat
<1>3. SumFunctionOnSet(e, Ids) = r * S
  BY <1>1, SumScale
<1>4. SumFunctionOnSet(f, Ids) = (SumFunctionOnSet(e, Ids) - e[i]) + f[i]
  BY <1>1, SumUpdate
<1> HIDE DEF S
<1>5. r * S \in Nat /\ r * s[i] \in Nat /\ b * D \in Nat /\ P * D \in Nat /\ d * D \in Nat
  BY <1>1, <1>2
<1>6. (b + d) * D = b * D + d * D /\ (P - d) * D = P * D - d * D
  OBVIOUS
<1>7. r * S <= P * D
  BY DEF S
<1>8. (r * S - r * s[i]) + b * D <= P * D - d * D
  BY <1>5, <1>6, <1>7
<1> QED BY <1>1, <1>3, <1>4, <1>6, <1>8

\* decrease_limit_order: what leaves the order leaves its cohort.
LEMMA DecreaseCohort ==
  ASSUME IInv, IInv', CohortInv, NEW i \in Ids, NEW a \in Amounts, decrease_limit_order(i, a)
  PROVE  CohortInv'
<1> DEFINE r == decrease_amount(order[i], tick, a)
           o == order[i]
           p == r.order
           d == r.decrease
           P == tick.part_filled_orders_remaining
           R == tick.unfilled_ratio_x64
<1>1. /\ tick \in TickState /\ order \in [Ids -> OrderState \cup {NoOrder}] /\ a \in Nat
      /\ tick.order_phase <= PhaseMax /\ U64Max \in Nat
  BY BoundAssumption DEF IInv, TypeOK, SaturatesEmpty, Amounts
<1>2. order[i].open /\ r.ok /\ order' = [order EXCEPT ![i] = p] /\ tick' = r.tick
  BY DEF decrease_limit_order
<1>3. o \in OrderState /\ fits(o, tick)
  BY <1>2, OpenOrder
<1>4. /\ p \in OrderState /\ p.order_phase = o.order_phase
      /\ tick'.order_phase = tick.order_phase /\ tick'.unfilled_ratio_x64 = R
  BY <1>1, <1>2, <1>3, DecreaseFits
<1>5. /\ d \in Nat /\ d <= left(o, tick) /\ left(o, tick) \in Nat
      /\ p.total_amount = o.total_amount - d
      /\ o.order_phase = tick.order_phase =>
           /\ tick'.orders_amount = tick.orders_amount - d
           /\ tick'.part_filled_orders_remaining = P
      /\ o.order_phase # tick.order_phase =>
           /\ tick'.orders_amount = tick.orders_amount /\ d <= P
           /\ tick'.part_filled_orders_remaining = P - d
      /\ o.order_phase + 1 = tick.order_phase =>
           \/ d = 0 /\ p.settle_base = o.settle_base /\ p.unfilled_ratio_x64 = o.unfilled_ratio_x64
           \/ p.settle_base = left(o, tick) - d /\ p.unfilled_ratio_x64 = R
  BY <1>1, <1>2, <1>3, DecreaseParts, SettleLeft
<1> HIDE DEF r, p, d
<1>6. order'[i] = p /\ \A j \in Ids : j # i => order'[j] = order[j]
  BY <1>1, <1>2
<1>7. /\ p.open /\ o.open /\ o.total_amount \in Nat /\ o.order_phase \in Nat
      /\ tick.order_phase \in Nat /\ tick.orders_amount \in Nat /\ P \in Nat /\ R \in Nat
      /\ o.settle_base \in Nat /\ o.unfilled_ratio_x64 \in Nat /\ o.unfilled_ratio_x64 > 0
  BY <1>1, <1>3, <1>4, FieldsNat DEF fits
<1>8. WaitingExact'
  <2>1. /\ waiting[i] = IF o.order_phase = tick.order_phase THEN o.total_amount ELSE 0
        /\ waiting'[i] = IF o.order_phase = tick.order_phase THEN o.total_amount - d ELSE 0
        /\ \A j \in Ids : j # i => waiting'[j] = waiting[j]
    BY <1>4, <1>5, <1>6, <1>7 DEF waiting
  <2>2. tick'.orders_amount = (tick.orders_amount - waiting[i]) + waiting'[i]
    BY <1>5, <1>7, <2>1
  <2> QED BY <2>1, <2>2, WaitingStep DEF CohortInv
<1>9. AmountsFit'
  <2>1. o.total_amount <= U64Max
    BY <1>2 DEF CohortInv, AmountsFit, OpenIds
  <2>2. p.total_amount <= U64Max
    BY <1>1, <1>5, <1>7, <2>1
  <2> QED BY <1>6, <2>2 DEF CohortInv, AmountsFit, OpenIds
<1>10. ASSUME o.order_phase + 1 # tick.order_phase PROVE Backed'
  <2>1. \A j \in Cohort' : j # i /\ j \in Cohort
    BY <1>4, <1>6, <1>10 DEF Cohort
  <2>2. tick'.part_filled_orders_remaining = P
    <3>1. CASE o.order_phase = tick.order_phase
      BY <1>5, <3>1
    <3>2. CASE o.order_phase # tick.order_phase
      <4>1. left(o, tick) = 0
        BY <1>10, <3>2 DEF left
      <4> QED BY <1>5, <1>7, <3>2, <4>1
    <3> QED BY <3>1, <3>2
  <2> QED BY <1>4, <1>6, <2>1, <2>2, BackedKept DEF CohortInv, Cohort
<1>11. ASSUME d = 0, p.settle_base = o.settle_base, p.unfilled_ratio_x64 = o.unfilled_ratio_x64,
              o.order_phase + 1 = tick.order_phase
       PROVE  Backed'
  <2>1. \A j \in Cohort' : /\ j \in Cohort /\ order'[j].settle_base = order[j].settle_base
                           /\ order'[j].unfilled_ratio_x64 = order[j].unfilled_ratio_x64
    BY <1>4, <1>6, <1>7, <1>11 DEF Cohort
  <2>2. tick'.part_filled_orders_remaining = P
    BY <1>5, <1>7, <1>11
  <2> QED BY <1>4, <2>1, <2>2, BackedKept DEF CohortInv
<1>12. ASSUME p.settle_base = left(o, tick) - d, p.unfilled_ratio_x64 = R,
              o.order_phase + 1 = tick.order_phase
       PROVE  Backed'
  <2>1. PICK D \in Nat \ {0} : \E s \in [Ids -> Nat] : Covers(D, s)
    BY DEF CohortInv, Backed
  <2>2. PICK s \in [Ids -> Nat] : Covers(D, s)
    BY <2>1
  <2> DEFINE b == left(o, tick) - d
             e == [j \in Ids |-> IF j = i THEN b * D ELSE R * s[j]]
             E == D * R
  <2>3. b \in Nat /\ b + d = left(o, tick) /\ s[i] \in Nat
    BY <1>5
  <2>4. i \in Cohort
    BY <1>2, <1>12 DEF Cohort
  <2>5. (b + d) * D <= R * s[i]
    <3>1. left(o, tick) = (o.settle_base * R) \div o.unfilled_ratio_x64
      BY <1>7, <1>12 DEF left
    <3>2. o.settle_base * D <= s[i] * o.unfilled_ratio_x64
      BY <2>2, <2>4 DEF Covers
    <3>3. ((o.settle_base * R) \div o.unfilled_ratio_x64) * D <= R * s[i]
      BY <1>7, <2>3, <3>2, ShareBounds
    <3> QED BY <2>3, <3>1, <3>3
  <2>6. R * SumFunctionOnSet(s, Ids) <= P * D
    BY <2>2 DEF Covers
  <2>7. IsFiniteSet(Ids)
    BY WaitingNat
  <2>8. d <= P
    BY <1>5, <1>7, <1>12
  <2> HIDE DEF b
  <2>9. SumFunctionOnSet(e, Ids) <= (P - d) * D
    <3>1. e \in [Ids -> Nat] /\ e[i] = b * D /\ \A j \in Ids : j # i => e[j] = R * s[j]
      BY <1>7, <2>3
    <3>2. D \in Nat /\ R \in Nat /\ P \in Nat /\ d \in Nat /\ b \in Nat
      BY <1>5, <1>7, <2>3
    <3> HIDE DEF P, R, e
    <3> QED BY <2>5, <2>6, <2>7, <2>8, <3>1, <3>2, NewSegment, ZenonT(60)
  <2>10. R > 0
    <3>1. fits(order'[i], tick')
      BY <1>6, <1>7 DEF IInv, OrderShape, OpenIds
    <3> QED BY <1>6, <1>12, <3>1 DEF fits
  <2>11. E \in Nat \ {0}
    BY <1>7, <2>10
  <2>12. e \in [Ids -> Nat] /\ e[i] = b * D /\ \A j \in Ids : j # i => e[j] = R * s[j]
    BY <1>7, <2>3
  <2> HIDE DEF e
  <2>13. ASSUME NEW j \in Cohort'
         PROVE  order'[j].settle_base * E <= e[j] * order'[j].unfilled_ratio_x64
    <3>1. CASE j = i
      <4>1. b * (D * R) <= (b * D) * R
        BY <1>7, <2>3
      <4> QED BY <1>6, <1>12, <2>12, <3>1, <4>1 DEF b
    <3>2. CASE j # i
      <4>1. j \in Cohort /\ order'[j] = order[j] /\ j \in Ids
        BY <1>4, <1>6, <3>2 DEF Cohort
      <4> DEFINE x == order[j].settle_base
                 y == order[j].unfilled_ratio_x64
      <4>2. x \in Nat /\ y \in Nat /\ s[j] \in Nat /\ x * D <= s[j] * y
        <5>1. order[j] \in OrderState
          BY <4>1, OpenOrder DEF Cohort
        <5> QED BY <1>1, <2>2, <4>1, <5>1, FieldsNat DEF Covers
      <4> HIDE DEF x, y
      <4>3. R * (x * D) <= R * (s[j] * y)
        <5>1. x * D \in Nat /\ s[j] * y \in Nat
          BY <4>2
        <5> QED BY <1>7, <4>2, <5>1, MulMono
      <4>4. x * (D * R) = R * (x * D) /\ (R * s[j]) * y = R * (s[j] * y)
        BY <1>7, <4>2
      <4>5. x * E <= (R * s[j]) * y
        BY <4>3, <4>4
      <4> QED BY <2>12, <3>2, <4>1, <4>5 DEF x, y
    <3> QED BY <3>1, <3>2
  <2>14. R * SumFunctionOnSet(e, Ids) <= (P - d) * E
    <3>1. SumFunctionOnSet(e, Ids) \in Nat
      BY <2>7, <2>12, SumNat
    <3>2. (P - d) * D \in Nat
      BY <1>5, <1>7, <2>8
    <3> DEFINE S == SumFunctionOnSet(e, Ids)
               Q == (P - d) * D
    <3>3. S \in Nat /\ Q \in Nat /\ S <= Q
      BY <2>9, <3>1, <3>2
    <3>4. R * S <= R * Q
      <4> HIDE DEF S, Q
      <4> QED BY <1>7, <3>3, MulMono
    <3>5. R * Q = (P - d) * E
      BY <1>5, <1>7, <2>8
    <3> QED BY <3>4, <3>5
  <2>15. tick'.part_filled_orders_remaining = P - d
    BY <1>5, <1>7, <1>12
  <2> HIDE DEF E
  <2>16. PICK F \in Nat \ {0} : F = E
    BY <2>11
  <2>17. PICK g \in [Ids -> Nat] : g = e
    BY <2>12
  <2>18. Covers(F, g)'
    BY <1>4, <2>13, <2>14, <2>15, <2>16, <2>17 DEF Covers
  <2> QED BY <2>18 DEF Backed
<1> QED BY <1>5, <1>8, <1>9, <1>10, <1>11, <1>12 DEF CohortInv

\* What a match takes from the cohorts, and the ratio it leaves, which is
\* rounded down (match_limit_order).
LEMMA ConsumeParts ==
  ASSUME NEW t \in TickState, NEW out \in Nat, out <= limit_order_unfilled_amount(t),
         t.order_phase <= PhaseMax, t.order_phase = PhaseMax => t.orders_amount = 0
  PROVE  LET u == consume(t, out)
         IN \/ /\ u.order_phase = t.order_phase /\ u.orders_amount = t.orders_amount
               /\ u.part_filled_orders_remaining = t.part_filled_orders_remaining
               /\ u.unfilled_ratio_x64 = t.unfilled_ratio_x64
            \/ /\ u.order_phase = t.order_phase /\ u.orders_amount = t.orders_amount
               /\ t.part_filled_orders_remaining > 0
               /\ u.unfilled_ratio_x64 * t.part_filled_orders_remaining
                    <= t.unfilled_ratio_x64 * u.part_filled_orders_remaining
            \/ /\ u.order_phase = t.order_phase + 1 /\ u.orders_amount = 0
               /\ u.unfilled_ratio_x64 * t.orders_amount
                    <= Q64 * u.part_filled_orders_remaining
<1> DEFINE part == t.part_filled_orders_remaining
           from == least(part, out)
           rest == out - from
           scaled == IF from > 0 THEN mul_div_floor(t.unfilled_ratio_x64, part - from, part)
                     ELSE t.unfilled_ratio_x64
           u == consume(t, out)
<1>1. /\ part \in Nat /\ t.orders_amount \in Nat /\ t.order_phase \in Nat
      /\ t.unfilled_ratio_x64 \in Nat /\ Q64 \in Nat /\ PhaseMax \in Nat
  BY PriceAssumption, BoundAssumption DEF TickState
<1>2. from \in Nat /\ from <= part /\ from <= out /\ rest \in Nat /\ part - from \in Nat
  BY <1>1 DEF least
<1>3. CASE rest = 0
  <2>1. u = [t EXCEPT !.part_filled_orders_remaining = part - from,
                      !.unfilled_ratio_x64 = scaled]
    BY <1>3 DEF consume
  <2> HIDE DEF from
  <2>2. /\ u.order_phase = t.order_phase /\ u.orders_amount = t.orders_amount
        /\ u.part_filled_orders_remaining = part - from /\ u.unfilled_ratio_x64 = scaled
    <3> HIDE DEF scaled, u
    <3> QED BY <2>1 DEF TickState
  <2>3. CASE from > 0
    <3> DEFINE a == t.unfilled_ratio_x64 * (part - from)
    <3>1. a \in Nat /\ part > 0
      BY <1>1, <1>2, <2>3
    <3>2. scaled = a \div part
      BY <2>3 DEF mul_div_floor
    <3> HIDE DEF a, scaled
    <3>3. part * (a \div part) <= a /\ a \div part \in Nat
      BY <1>1, <3>1, DivBounds
    <3>4. scaled * part <= a
      BY <1>1, <3>1, <3>2, <3>3
    <3> QED BY <2>2, <3>1, <3>4 DEF a
  <2>4. CASE ~(from > 0)
    BY <1>1, <1>2, <2>2, <2>4
  <2> QED BY <2>3, <2>4
<1>4. CASE rest # 0
  <2> DEFINE kept == t.orders_amount - rest
             a == Q64 * kept
  <2>1. rest <= t.orders_amount /\ kept \in Nat /\ t.orders_amount > 0
    BY <1>4, <1>1, <1>2 DEF least, limit_order_unfilled_amount
  <2>2. phase_after(t.order_phase, 1) = t.order_phase + 1
    BY <2>1, <1>1 DEF phase_after
  <2>3. u = [order_phase |-> t.order_phase + 1, orders_amount |-> 0,
             part_filled_orders_remaining |-> kept, unfilled_ratio_x64 |-> a \div t.orders_amount]
    BY <1>4, <2>2 DEF consume, mul_div_floor
  <2>4. a \in Nat
    BY <1>1, <2>1
  <2> HIDE DEF a
  <2>5. t.orders_amount * (a \div t.orders_amount) <= a /\ a \div t.orders_amount \in Nat
    BY <1>1, <2>1, <2>4, DivBounds
  <2>6. (a \div t.orders_amount) * t.orders_amount <= a
    BY <1>1, <2>1, <2>4, <2>5
  <2> HIDE DEF kept, rest, from
  <2>7. /\ u.order_phase = t.order_phase + 1 /\ u.orders_amount = 0
        /\ u.part_filled_orders_remaining = kept
        /\ u.unfilled_ratio_x64 = a \div t.orders_amount
    BY <2>3
  <2> QED BY <2>6, <2>7 DEF a
<1> QED BY <1>3, <1>4

\* The shares stay covered when the ratio falls no less than what is left.
LEMMA Lowered ==
  ASSUME NEW S \in Nat, NEW D \in Nat, NEW P \in Nat, NEW R \in Nat, NEW p \in Nat, NEW r \in Nat,
         P > 0, r * P <= R * p, R * S <= P * D
  PROVE  r * S <= p * D
<1>1. S * (r * P) <= S * (R * p)
  <2>1. r * P \in Nat /\ R * p \in Nat
    OBVIOUS
  <2> QED BY <2>1, MulMono
<1>2. p * (R * S) <= p * (P * D)
  <2>1. R * S \in Nat /\ P * D \in Nat
    OBVIOUS
  <2> QED BY <2>1, MulMono
<1> DEFINE y == r * S
           z == p * D
<1>3. /\ S * (r * P) = P * y /\ S * (R * p) = p * (R * S) /\ p * (P * D) = P * z
      /\ y \in Nat /\ z \in Nat
  OBVIOUS
<1>4. P * y <= P * z
  BY <1>1, <1>2, <1>3
<1> HIDE DEF y, z
<1>5. y <= z
  <2>1. SUFFICES ASSUME z + 1 <= y PROVE FALSE
    BY <1>3
  <2>2. P * (z + 1) <= P * y /\ P * (z + 1) = P * z + P
    BY <1>3, <2>1, MulMono
  <2>3. P * y \in Nat /\ P * z \in Nat
    BY <1>3
  <2> QED BY <1>4, <2>2, <2>3
<1> QED BY <1>5 DEF y, z

\* A match: the older cohort is taken from, and the one that waited may follow.
LEMMA SwapCohort ==
  ASSUME IInv, IInv', CohortInv, NEW z \in BOOLEAN, NEW a \in Amounts, NEW b \in BOOLEAN,
         NEW f \in FeeRates, NEW n \in BOOLEAN, swap_at_tick(z, a, b, f, n)
  PROVE  CohortInv'
<1> DEFINE m == match_amounts(tick, a, z, b, f, n)
           P == tick.part_filled_orders_remaining
           R == tick.unfilled_ratio_x64
           p == tick'.part_filled_orders_remaining
           r == tick'.unfilled_ratio_x64
<1>1. /\ tick \in TickState /\ a \in Nat /\ tick.order_phase <= PhaseMax
      /\ tick.order_phase = PhaseMax => tick.orders_amount = 0
  BY BoundAssumption DEF IInv, TypeOK, SaturatesEmpty, Amounts
<1>2. m.gross_out > 0 /\ tick' = consume(tick, m.gross_out) /\ order' = order
  BY DEF swap_at_tick
<1>3. m.gross_out \in Nat /\ m.gross_out <= limit_order_unfilled_amount(tick)
  BY <1>1, <1>2, MatchBounded
<1> HIDE DEF m
<1>4. \/ /\ tick'.order_phase = tick.order_phase /\ tick'.orders_amount = tick.orders_amount
         /\ p = P /\ r = R
      \/ /\ tick'.order_phase = tick.order_phase /\ tick'.orders_amount = tick.orders_amount
         /\ P > 0 /\ r * P <= R * p
      \/ /\ tick'.order_phase = tick.order_phase + 1 /\ tick'.orders_amount = 0
         /\ r * tick.orders_amount <= Q64 * p
  BY <1>1, <1>2, <1>3, ConsumeParts
<1>5. /\ P \in Nat /\ R \in Nat /\ p \in Nat /\ r \in Nat /\ tick.orders_amount \in Nat
      /\ tick.order_phase \in Nat
  <2>1. tick' \in TickState
    BY DEF IInv, TypeOK
  <2> QED BY <1>1, <2>1 DEF TickState
<1>6. AmountsFit'
  BY <1>2 DEF CohortInv, AmountsFit, OpenIds
<1>7. ASSUME tick'.order_phase = tick.order_phase, tick'.orders_amount = tick.orders_amount,
             (p = P /\ r = R) \/ (P > 0 /\ r * P <= R * p)
      PROVE  WaitingExact' /\ Backed'
  <2>1. waiting' = waiting /\ Cohort' = Cohort
    BY <1>2, <1>7 DEF waiting, Cohort
  <2>2. PICK D \in Nat \ {0} : \E s \in [Ids -> Nat] : Covers(D, s)
    BY DEF CohortInv, Backed
  <2>3. PICK s \in [Ids -> Nat] : Covers(D, s)
    BY <2>2
  <2> DEFINE S == SumFunctionOnSet(s, Ids)
  <2>4. S \in Nat
    <3>1. IsFiniteSet(Ids) /\ \A j \in Ids : s[j] \in Nat
      BY WaitingNat
    <3> QED BY <3>1, SumNat
  <2>5. R * S <= P * D
    BY <2>3 DEF Covers
  <2>6. r * S <= p * D
    <3> HIDE DEF S, P, R, p, r
    <3>1. CASE p = P /\ r = R
      BY <2>5, <3>1
    <3>2. CASE P > 0 /\ r * P <= R * p
      BY <1>5, <2>4, <2>5, <3>2, Lowered
    <3> QED BY <1>7, <3>1, <3>2
  <2>7. Covers(D, s)'
    BY <1>2, <2>1, <2>3, <2>6 DEF Covers
  <2> QED BY <1>7, <2>1, <2>7 DEF CohortInv, WaitingExact, Backed
<1>8. ASSUME tick'.order_phase = tick.order_phase + 1, tick'.orders_amount = 0,
             r * tick.orders_amount <= Q64 * p
      PROVE  WaitingExact' /\ Backed'
  <2>1. \A j \in Ids : order[j].open => /\ order[j] \in OrderState /\ fits(order[j], tick)
                                        /\ order[j].order_phase \in Nat
                                        /\ order[j].order_phase <= tick.order_phase
    BY <1>1, OpenOrder, FieldsNat DEF fits
  <2>2. WaitingExact'
    <3> DEFINE e == waiting'
    <3>1. \A j \in Ids : e[j] = 0
      BY <1>2, <1>5, <1>8, <2>1 DEF waiting
    <3>2. IsFiniteSet(Ids)
      BY WaitingNat
    <3> HIDE DEF e
    <3>3. SumFunctionOnSet(e, Ids) = 0
      BY <3>1, <3>2, SumZero
    <3> QED BY <1>8, <3>3 DEF WaitingExact, e
  <2>3. PICK D \in Nat \ {0} : D = Q64
    BY PriceAssumption
  <2>4. PICK s \in [Ids -> Nat] : s = waiting
    BY WaitingNat
  <2>5. r * SumFunctionOnSet(s, Ids) <= p * D
    BY <1>5, <1>8, <2>3, <2>4 DEF CohortInv, WaitingExact
  <2>6. ASSUME NEW j \in Cohort'
        PROVE  order'[j].settle_base * D <= s[j] * order'[j].unfilled_ratio_x64
    <3>1. /\ j \in Ids /\ order'[j] = order[j] /\ order[j].open
          /\ order[j].order_phase = tick.order_phase
      <4>1. /\ j \in Ids /\ order'[j] = order[j] /\ order[j].open
            /\ order[j].order_phase + 1 = tick.order_phase + 1
        BY <1>2, <1>8 DEF Cohort
      <4> QED BY <1>5, <2>1, <4>1
    <3>2. /\ order[j].settle_base = order[j].total_amount /\ order[j].unfilled_ratio_x64 = Q64
          /\ order[j].total_amount \in Nat
      BY <1>1, <2>1, <3>1, FieldsNat DEF fits
    <3>3. s[j] = order[j].total_amount
      BY <2>4, <3>1, WaitingNat
    <3>4. order[j].total_amount * D <= order[j].total_amount * Q64
      BY <2>3, <3>2
    <3> QED BY <3>1, <3>2, <3>3, <3>4
  <2>7. Covers(D, s)'
    BY <2>5, <2>6 DEF Covers
  <2> QED BY <2>2, <2>7 DEF Backed
<1> HIDE DEF P, R, p, r
<1>9. WaitingExact' /\ Backed'
  BY <1>4, <1>7, <1>8, Zenon
<1> QED BY <1>6, <1>9 DEF CohortInv

(***************************************************************************)
(* The side and the count.                                                 *)
(***************************************************************************)
Sided ==
  \A i \in Ids : order[i].open /\ left(order[i], tick) > 0
                   => (order[i].zero_for_one <=> tick_current < 0)

\* Sided is OneSided, by what a settlement leaves.
LEMMA SidedIsOneSided ==
  ASSUME IInv
  PROVE  Sided <=> OneSided
<1>1. ASSUME NEW i \in Ids, order[i].open
      PROVE  /\ get_unfilled_amount(settle_filled_order(order[i], tick).order)
                  = left(order[i], tick)
             /\ order[i].zero_for_one \in BOOLEAN
  <2>1. /\ order[i] \in OrderState /\ fits(order[i], tick) /\ tick \in TickState
        /\ tick.order_phase <= PhaseMax
    BY <1>1, OpenOrder DEF IInv, TypeOK, SaturatesEmpty
  <2> QED BY <2>1, SettleLeft, FieldsNat
<1>2. ASSUME NEW i \in Ids, order[i].open
      PROVE  (order[i].zero_for_one = (tick_current < 0))
               <=> (order[i].zero_for_one <=> tick_current < 0)
  <2>1. order[i].zero_for_one \in BOOLEAN /\ (tick_current < 0) \in BOOLEAN
    BY <1>1, <1>2
  <2> QED BY <2>1, Zenon
<1> QED BY <1>1, <1>2 DEF Sided, OneSided, OpenIds

\* Without orders at the tick nothing is left of any.
LEMMA Emptied ==
  ASSUME IInv, CohortInv, ~has_limit_orders(tick), NEW i \in Ids, order[i].open
  PROVE  left(order[i], tick) = 0
<1>1. /\ order[i] \in OrderState /\ fits(order[i], tick) /\ tick \in TickState
      /\ tick.order_phase <= PhaseMax
  BY OpenOrder DEF IInv, TypeOK, SaturatesEmpty
<1>2. left(order[i], tick) \in Nat
  BY <1>1, SettleLeft
<1>3. tick.orders_amount = 0 /\ tick.part_filled_orders_remaining = 0
  BY <1>1 DEF TickState, has_limit_orders
<1>4. CASE order[i].order_phase = tick.order_phase
  <2>1. left(order[i], tick) = order[i].total_amount
    BY <1>4 DEF left
  <2>2. order[i].total_amount <= tick.orders_amount
    BY <1>4, WaitingBounds DEF CohortInv
  <2> QED BY <1>2, <1>3, <2>1, <2>2
<1>5. CASE order[i].order_phase + 1 = tick.order_phase
  <2>1. left(order[i], tick) <= tick.part_filled_orders_remaining
    BY <1>5, CohortBounds DEF CohortInv, Cohort
  <2> QED BY <1>2, <1>3, <2>1
<1> QED BY <1>4, <1>5 DEF left

\* The same of every order, and of the next state.
LEMMA EmptiedAll ==
  IInv /\ CohortInv /\ ~has_limit_orders(tick)
    => \A i \in Ids : order[i].open => left(order[i], tick) = 0
BY Emptied

LEMMA EmptiedNext ==
  IInv' /\ CohortInv' /\ ~has_limit_orders(tick')
    => \A i \in Ids : order'[i].open => left(order'[i], tick') = 0
<1>1. (IInv /\ CohortInv /\ ~has_limit_orders(tick)
         => \A i \in Ids : order[i].open => left(order[i], tick) = 0)'
  BY EmptiedAll, PTL
<1> QED BY <1>1

\* A step that keeps the price on its side and leaves something only of orders
\* that had something left.
LEMMA SideStep ==
  ASSUME Sided, tick_current' < 0 <=> tick_current < 0,
         \A j \in Ids : order'[j].open /\ left(order'[j], tick') > 0 =>
           /\ order[j].open /\ left(order[j], tick) > 0
           /\ order'[j].zero_for_one = order[j].zero_for_one
  PROVE  Sided'
BY DEF Sided

\* The bit and the count after a recount at this tick.
LEMMA RecountExact ==
  ASSUME count \in Nat, bit \in BOOLEAN, others \in BOOLEAN, CountExact, others' = others,
         recount(has_limit_orders(tick), has_limit_orders(tick'))
  PROVE  CountExact'
<1> DEFINE x == has_limit_orders(tick)
           y == has_limit_orders(tick')
           n == IF others THEN 1 ELSE 0
<1>1. x \in BOOLEAN /\ y \in BOOLEAN
  BY DEF has_limit_orders
<1>2. /\ count = n + (IF x THEN 1 ELSE 0) /\ (bit <=> count > 0)
      /\ n \in {0, 1}
  BY DEF CountExact
<1>3. recount(x, y)
  OBVIOUS
<1> HIDE DEF x, y, n
<1>4. \/ (x <=> y) /\ count' = count /\ bit' = bit
      \/ ~x /\ y /\ count' = count + 1 /\ bit' = (IF count = 0 THEN ~bit ELSE bit)
      \/ x /\ ~y /\ count > 0 /\ count' = count - 1 /\ bit' = (IF count = 1 THEN ~bit ELSE bit)
  BY <1>1, <1>3, Zenon DEF recount, count_up, count_down
<1>5. count' = n + (IF y THEN 1 ELSE 0)
  BY <1>1, <1>2, <1>4
<1>6. bit' <=> count' > 0
  <2>1. CASE (x <=> y) /\ count' = count /\ bit' = bit
    BY <1>2, <2>1
  <2>2. CASE ~x /\ y /\ count' = count + 1 /\ bit' = (IF count = 0 THEN ~bit ELSE bit)
    <3>1. bit' <=> (IF count = 0 THEN ~bit ELSE bit)
      BY <2>2, Zenon
    <3> QED BY <1>2, <2>2, <3>1
  <2>3. CASE x /\ ~y /\ count > 0 /\ count' = count - 1 /\ bit' = (IF count = 1 THEN ~bit ELSE bit)
    <3>1. bit' <=> (IF count = 1 THEN ~bit ELSE bit)
      BY <2>3, Zenon
    <3> QED BY <1>2, <2>3, <3>1
  <2> QED BY <1>4, <2>1, <2>2, <2>3
<1>7. bit' \in BOOLEAN
  BY <1>4, Zenon
<1>8. bit' = (count' > 0)
  BY <1>6, <1>7
<1> QED BY <1>5, <1>8 DEF CountExact, y, n

TickInv == IInv /\ CohortInv /\ CountExact /\ Sided

\* An order changes in its place and the ratio and the phase do not.
LEMMA SameLeft ==
  ASSUME NEW o, NEW t, NEW u, u.order_phase = t.order_phase,
         u.unfilled_ratio_x64 = t.unfilled_ratio_x64
  PROVE  left(o, u) = left(o, t)
BY DEF left

\* open_limit_order counts the tick and sells on the price's side.
LEMMA OpenTick ==
  ASSUME TickInv, IInv', NEW z \in BOOLEAN, NEW a \in Amounts, open_limit_order(z, a)
  PROVE  CountExact' /\ Sided'
<1> DEFINE i == order_nonce
           o == initialize(z, a, tick.order_phase)
<1>1. /\ tick \in TickState /\ order \in [Ids -> OrderState \cup {NoOrder}]
      /\ order_nonce \in Nat /\ a \in Nat /\ a > 0 /\ MaxOrders \in Nat
      /\ count \in Nat /\ bit \in BOOLEAN /\ others \in BOOLEAN /\ tick_current \in Int
  BY BoundAssumption DEF TickInv, IInv, TypeOK, Amounts
<1>2. /\ i \in Ids /\ order' = [order EXCEPT ![i] = o]
      /\ tick' = [tick EXCEPT !.orders_amount = @ + a]
      /\ recount(has_limit_orders(tick), TRUE)
      /\ others' = others /\ tick_current' = tick_current
  <2>1. /\ order_nonce < MaxOrders /\ order' = [order EXCEPT ![i] = o]
        /\ tick' = [tick EXCEPT !.orders_amount = @ + a]
        /\ recount(has_limit_orders(tick), TRUE)
        /\ others' = others /\ tick_current' = tick_current
    BY Zenon DEF open_limit_order
  <2>2. i \in Ids
    BY <1>1, <2>1 DEF Ids
  <2> QED BY <2>1, <2>2, Zenon
<1>s. z <=> tick_current < 0
  <2>1. IF z THEN tick_current < 0 ELSE tick_current > 0
    BY DEF open_limit_order, check_tick_index
  <2> QED BY <1>1, <2>1
<1>3. /\ tick'.order_phase = tick.order_phase
      /\ tick'.unfilled_ratio_x64 = tick.unfilled_ratio_x64
      /\ tick'.orders_amount = tick.orders_amount + a /\ tick.orders_amount \in Nat
  BY <1>1, <1>2 DEF TickState
<1>4. CountExact'
  <2>1. has_limit_orders(tick') = TRUE
    BY <1>1, <1>3 DEF has_limit_orders
  <2>2. recount(has_limit_orders(tick), has_limit_orders(tick'))
    BY <1>2, <2>1, Zenon
  <2> QED BY <1>1, <1>2, <2>2, RecountExact DEF TickInv
<1>5. o.zero_for_one = z
  BY DEF initialize
<1> HIDE DEF o
<1>6. order'[i] = o /\ \A j \in Ids : j # i => order'[j] = order[j]
  BY <1>1, <1>2
<1>7. ASSUME NEW j \in Ids, order'[j].open, left(order'[j], tick') > 0
      PROVE  order'[j].zero_for_one <=> tick_current' < 0
  <2>1. CASE j = i
    BY <1>2, <1>s, <1>5, <1>6, <2>1
  <2>2. CASE j # i
    <3>1. order'[j] = order[j] /\ left(order[j], tick) > 0
      BY <1>3, <1>6, <1>7, <2>2, SameLeft
    <3> QED BY <1>2, <1>7, <3>1 DEF TickInv, Sided
  <2> QED BY <2>1, <2>2
<1> QED BY <1>4, <1>7 DEF Sided

\* increase_limit_order grows an order that has something left.
LEMMA IncreaseTick ==
  ASSUME TickInv, IInv', ~TopUpEmptied, NEW i \in Ids, NEW a \in Amounts,
         increase_limit_order(i, a)
  PROVE  CountExact' /\ Sided'
<1> DEFINE o == increase_amount(order[i], a)
<1>1. /\ tick \in TickState /\ order \in [Ids -> OrderState \cup {NoOrder}]
      /\ a \in Nat
  BY BoundAssumption DEF TickInv, IInv, TypeOK, Amounts
<1>2. /\ order[i].open /\ order[i].order_phase = tick.order_phase
      /\ order' = [order EXCEPT ![i] = o]
      /\ tick' = [tick EXCEPT !.orders_amount = @ + a]
      /\ get_unfilled_amount(order[i]) > 0
      /\ UNCHANGED <<tick_current, others, count, bit>>
  BY DEF increase_limit_order
<1>3. /\ tick'.order_phase = tick.order_phase
      /\ tick'.unfilled_ratio_x64 = tick.unfilled_ratio_x64
      /\ tick'.orders_amount = tick.orders_amount + a /\ tick.orders_amount \in Nat
      /\ tick'.part_filled_orders_remaining = tick.part_filled_orders_remaining
  BY <1>1, <1>2 DEF TickState
<1>4. order[i] \in OrderState /\ fits(order[i], tick)
  BY <1>2, OpenOrder DEF TickInv
<1>5. order[i].total_amount > 0 /\ order[i].total_amount \in Nat
  <2>1. order[i].total_amount \in Nat /\ order[i].filled_amount \in Nat
    BY <1>1, <1>4, FieldsNat
  <2> QED BY <1>2, <2>1 DEF get_unfilled_amount
<1>6. left(order[i], tick) > 0
  BY <1>2, <1>5 DEF left
<1>7. CountExact'
  <2>1. order[i].total_amount <= tick.orders_amount
    BY <1>2, WaitingBounds DEF TickInv, CohortInv
  <2>2. has_limit_orders(tick) = TRUE /\ has_limit_orders(tick') = TRUE
    BY <1>1, <1>3, <1>5, <2>1 DEF has_limit_orders
  <2> QED BY <1>2, <2>2 DEF TickInv, CountExact
<1>8. o.zero_for_one = order[i].zero_for_one
  BY <1>4 DEF increase_amount, OrderState
<1> HIDE DEF o
<1>9. order'[i] = o /\ \A j \in Ids : j # i => order'[j] = order[j]
  BY <1>1, <1>2
<1>10. ASSUME NEW j \in Ids, order'[j].open, left(order'[j], tick') > 0
       PROVE  /\ order[j].open /\ left(order[j], tick) > 0
              /\ order'[j].zero_for_one = order[j].zero_for_one
  <2>1. CASE j = i
    BY <1>2, <1>6, <1>8, <1>9, <2>1
  <2>2. CASE j # i
    BY <1>3, <1>9, <1>10, <2>2, SameLeft
  <2> QED BY <2>1, <2>2
<1>11. Sided'
  BY <1>2, <1>10, SideStep DEF TickInv
<1> QED BY <1>7, <1>11

\* decrease_limit_order uncounts a tick without orders and leaves no order more.
LEMMA DecreaseTick ==
  ASSUME TickInv, IInv', NEW i \in Ids, NEW a \in Amounts, decrease_limit_order(i, a)
  PROVE  CountExact' /\ Sided'
<1> DEFINE r == decrease_amount(order[i], tick, a)
           o == order[i]
           p == r.order
           d == r.decrease
<1>1. /\ tick \in TickState /\ order \in [Ids -> OrderState \cup {NoOrder}] /\ a \in Nat
      /\ tick.order_phase <= PhaseMax /\ count \in Nat /\ bit \in BOOLEAN /\ others \in BOOLEAN
  BY BoundAssumption DEF TickInv, IInv, TypeOK, SaturatesEmpty, Amounts
<1>2. /\ order[i].open /\ r.ok /\ order' = [order EXCEPT ![i] = p] /\ tick' = r.tick
      /\ recount(has_limit_orders(tick), has_limit_orders(tick'))
      /\ others' = others /\ tick_current' = tick_current
  BY DEF decrease_limit_order
<1>3. o \in OrderState /\ fits(o, tick)
  BY <1>2, OpenOrder DEF TickInv
<1>4. /\ p \in OrderState /\ p.order_phase = o.order_phase
      /\ tick'.order_phase = tick.order_phase
      /\ tick'.unfilled_ratio_x64 = tick.unfilled_ratio_x64
  BY <1>1, <1>2, <1>3, DecreaseFits
<1>5. /\ d \in Nat /\ d <= left(o, tick) /\ left(o, tick) \in Nat
      /\ p.total_amount = o.total_amount - d /\ p.zero_for_one = o.zero_for_one
      /\ o.order_phase + 1 = tick.order_phase =>
           \/ d = 0 /\ p.settle_base = o.settle_base /\ p.unfilled_ratio_x64 = o.unfilled_ratio_x64
           \/ /\ p.settle_base = left(o, tick) - d
              /\ p.unfilled_ratio_x64 = tick.unfilled_ratio_x64
  BY <1>1, <1>2, <1>3, DecreaseParts, SettleLeft
<1> HIDE DEF r, p, d
<1>6. order'[i] = p /\ \A j \in Ids : j # i => order'[j] = order[j]
  BY <1>1, <1>2
<1>7. CountExact'
  BY <1>1, <1>2, RecountExact DEF TickInv
<1>8. ASSUME left(p, tick') > 0 PROVE left(o, tick) > 0
  <2>1. left(p, tick') = left(p, tick)
    BY <1>4, SameLeft
  <2>2. CASE o.order_phase = tick.order_phase
    <3>1. o.total_amount \in Nat
      BY <1>1, <1>3, FieldsNat
    <3> QED BY <1>4, <1>5, <1>8, <2>1, <2>2, <3>1 DEF left
  <2>3. CASE o.order_phase # tick.order_phase /\ o.order_phase + 1 = tick.order_phase
    <3>1. CASE d = 0 /\ p.settle_base = o.settle_base
               /\ p.unfilled_ratio_x64 = o.unfilled_ratio_x64
      BY <1>4, <1>8, <2>1, <2>3, <3>1 DEF left
    <3>2. CASE /\ p.settle_base = left(o, tick) - d
               /\ p.unfilled_ratio_x64 = tick.unfilled_ratio_x64
      <4> DEFINE k == left(o, tick)
      <4>0. SUFFICES ASSUME k = 0 PROVE FALSE
        BY <1>5
      <4>1. p.settle_base = 0
        <5> HIDE DEF k
        <5> QED BY <1>5, <3>2, <4>0 DEF k
      <4>2. p.unfilled_ratio_x64 \in Nat /\ p.unfilled_ratio_x64 > 0
        <5>1. fits(order'[i], tick')
          <6>1. order'[i].open
            BY <1>4, <1>6 DEF OrderState
          <6> QED BY <6>1 DEF IInv, OrderShape, OpenIds
        <5> QED BY <1>1, <1>4, <1>6, <5>1, FieldsNat DEF fits
      <4>3. tick.unfilled_ratio_x64 \in Nat
        BY <1>1 DEF TickState
      <4>4. left(p, tick) = (0 * tick.unfilled_ratio_x64) \div p.unfilled_ratio_x64
        BY <1>4, <2>3, <4>1 DEF left
      <4>5. left(p, tick) = 0
        BY <4>2, <4>3, <4>4
      <4> QED BY <1>8, <2>1, <4>5
    <3> QED BY <1>5, <2>3, <3>1, <3>2
  <2>4. CASE o.order_phase # tick.order_phase /\ o.order_phase + 1 # tick.order_phase
    BY <1>4, <1>8, <2>1, <2>4 DEF left
  <2> QED BY <2>2, <2>3, <2>4
<1>9. ASSUME NEW j \in Ids, order'[j].open, left(order'[j], tick') > 0
      PROVE  /\ order[j].open /\ left(order[j], tick) > 0
             /\ order'[j].zero_for_one = order[j].zero_for_one
  <2>1. CASE j = i
    BY <1>2, <1>5, <1>6, <1>8, <1>9, <2>1
  <2>2. CASE j # i
    BY <1>4, <1>6, <1>9, <2>2, SameLeft
  <2> QED BY <2>1, <2>2
<1>10. Sided'
  BY <1>2, <1>9, SideStep DEF TickInv
<1> QED BY <1>7, <1>10

\* settle_limit_order and close_limit_order leave the tick and no order more.
LEMMA SettleTick ==
  ASSUME TickInv, IInv', NEW i \in Ids, settle_limit_order(i) \/ close_limit_order(i)
  PROVE  CountExact' /\ Sided'
<1> DEFINE q == settle_filled_order(order[i], tick).order
<1>1. /\ tick \in TickState /\ order \in [Ids -> OrderState \cup {NoOrder}]
      /\ tick.order_phase <= PhaseMax
  BY DEF TickInv, IInv, TypeOK, SaturatesEmpty
<1>2. /\ order[i].open /\ UNCHANGED <<tick, tick_current, others, count, bit>>
      /\ order' = [order EXCEPT ![i] = q] \/ order' = [order EXCEPT ![i] = NoOrder]
  BY DEF settle_limit_order, close_limit_order
<1>3. order[i] \in OrderState /\ fits(order[i], tick)
  BY <1>2, OpenOrder DEF TickInv
<1>4. /\ q \in OrderState /\ q.order_phase = order[i].order_phase
      /\ q.total_amount = order[i].total_amount /\ q.zero_for_one = order[i].zero_for_one
      /\ order[i].order_phase + 1 = tick.order_phase =>
           /\ q.settle_base = order[i].settle_base
           /\ q.unfilled_ratio_x64 = order[i].unfilled_ratio_x64
  BY <1>1, <1>3, SettleFits, SettleLeft
<1> HIDE DEF q
<1>5. left(q, tick) = left(order[i], tick)
  BY <1>4 DEF left
<1>6. /\ \A j \in Ids : j # i => order'[j] = order[j]
      /\ order'[i] = q \/ ~order'[i].open
  BY <1>1, <1>2 DEF NoOrder
<1>7. CountExact'
  BY <1>2 DEF TickInv, CountExact
<1>8. ASSUME NEW j \in Ids, order'[j].open, left(order'[j], tick') > 0
      PROVE  /\ order[j].open /\ left(order[j], tick) > 0
             /\ order'[j].zero_for_one = order[j].zero_for_one
  BY <1>2, <1>4, <1>5, <1>6, <1>8
<1>9. Sided'
  BY <1>2, <1>8, SideStep DEF TickInv
<1> QED BY <1>7, <1>9

\* A match lowers what is left of an order or takes all of it.
LEMMA ConsumeLeft ==
  ASSUME NEW o \in OrderState, NEW t \in TickState, NEW u \in TickState, fits(o, t),
         \/ u.order_phase = t.order_phase /\ u.unfilled_ratio_x64 <= t.unfilled_ratio_x64
         \/ u.order_phase = t.order_phase + 1,
         left(o, u) > 0
  PROVE  left(o, t) > 0
<1>1. /\ o.order_phase \in Nat /\ t.order_phase \in Nat /\ u.order_phase \in Nat
      /\ o.settle_base \in Nat /\ t.unfilled_ratio_x64 \in Nat /\ u.unfilled_ratio_x64 \in Nat
      /\ o.unfilled_ratio_x64 \in Nat /\ o.unfilled_ratio_x64 > 0 /\ o.total_amount \in Nat
  BY FieldsNat DEF fits
<1>2. CASE u.order_phase = t.order_phase /\ o.order_phase + 1 = t.order_phase
           /\ u.unfilled_ratio_x64 <= t.unfilled_ratio_x64
  <2> DEFINE x == o.settle_base * u.unfilled_ratio_x64
             y == o.settle_base * t.unfilled_ratio_x64
  <2>1. x \in Nat /\ y \in Nat /\ x <= y
    BY <1>1, <1>2, MulMono
  <2>2. left(o, u) = x \div o.unfilled_ratio_x64 /\ left(o, t) = y \div o.unfilled_ratio_x64
    BY <1>1, <1>2 DEF left
  <2> HIDE DEF x, y
  <2>3. /\ x \div o.unfilled_ratio_x64 <= y \div o.unfilled_ratio_x64
        /\ x \div o.unfilled_ratio_x64 \in Nat /\ y \div o.unfilled_ratio_x64 \in Nat
    BY <1>1, <2>1, DivMono, DivBounds
  <2> QED BY <2>2, <2>3
<1>3. CASE u.order_phase = t.order_phase /\ o.order_phase + 1 # t.order_phase
  BY <1>3 DEF left
<1>4. CASE u.order_phase = t.order_phase + 1
  <2>1. o.order_phase <= t.order_phase
    BY DEF fits
  <2>2. CASE o.order_phase = t.order_phase
    <3>1. o.settle_base = o.total_amount /\ left(o, t) = o.total_amount
      BY <2>2 DEF fits, left
    <3>2. left(o, u) = (o.settle_base * u.unfilled_ratio_x64) \div o.unfilled_ratio_x64
      BY <1>1, <1>4, <2>2 DEF left
    <3>3. CASE o.total_amount = 0
      <4>1. left(o, u) = (0 * u.unfilled_ratio_x64) \div o.unfilled_ratio_x64
        BY <3>1, <3>2, <3>3
      <4>2. left(o, u) = 0
        BY <1>1, <4>1
      <4> QED BY <4>2
    <3> QED BY <1>1, <3>1, <3>3
  <2>3. CASE o.order_phase # t.order_phase
    <3>1. left(o, u) = 0
      BY <1>1, <1>4, <2>1, <2>3 DEF left
    <3> QED BY <3>1
  <2> QED BY <2>2, <2>3
<1> QED BY <1>2, <1>3, <1>4

\* After a match the price is on the orders' side as long as any are left.
LEMMA SwapTick ==
  ASSUME TickInv, IInv', CohortInv', NEW z \in BOOLEAN, NEW a \in Amounts, NEW b \in BOOLEAN,
         NEW f \in FeeRates, NEW n \in BOOLEAN, swap_at_tick(z, a, b, f, n)
  PROVE  CountExact' /\ Sided'
<1> DEFINE m == match_amounts(tick, a, z, b, f, n)
<1>1. /\ tick \in TickState /\ a \in Nat /\ tick.order_phase <= PhaseMax
      /\ tick.order_phase = PhaseMax => tick.orders_amount = 0
      /\ count \in Nat /\ bit \in BOOLEAN /\ others \in BOOLEAN /\ tick' \in TickState
  BY BoundAssumption DEF TickInv, IInv, TypeOK, SaturatesEmpty, Amounts
<1>2. /\ m.gross_out > 0 /\ tick' = consume(tick, m.gross_out) /\ order' = order
      /\ recount(TRUE, has_limit_orders(tick')) /\ others' = others
      /\ tick_current' = side_after(z, tick') /\ has_limit_orders(tick)
  BY DEF swap_at_tick, finds_tick
<1>3. m.gross_out \in Nat /\ m.gross_out <= limit_order_unfilled_amount(tick)
  BY <1>1, <1>2, MatchBounded
<1> HIDE DEF m
<1>4. CountExact'
  <2>1. has_limit_orders(tick) = TRUE
    BY <1>2 DEF has_limit_orders
  <2>2. recount(has_limit_orders(tick), has_limit_orders(tick'))
    BY <1>2, <2>1, Zenon
  <2> QED BY <1>1, <1>2, <2>2, RecountExact DEF TickInv
<1>5. CASE ~has_limit_orders(tick')
  <2>1. \A j \in Ids : order'[j].open => left(order'[j], tick') = 0
    BY <1>5, EmptiedNext
  <2> QED BY <1>4, <2>1 DEF Sided
<1>6. CASE has_limit_orders(tick')
  <2>1. /\ z => tick_current >= 0 /\ tick_current' = 0
        /\ ~z => tick_current < 0 /\ tick_current' = -1
    BY <1>2, <1>6 DEF swap_at_tick, side_after
  <2>2. tick_current' < 0 <=> tick_current < 0
    <3>1. tick_current \in Int
      BY DEF TickInv, IInv, TypeOK
    <3> QED BY <2>1, <3>1
  <2>3. \/ tick'.order_phase = tick.order_phase
           /\ tick'.unfilled_ratio_x64 <= tick.unfilled_ratio_x64
        \/ tick'.order_phase = tick.order_phase + 1
    BY <1>1, <1>2, <1>3, ConsumeTick
  <2>4. ASSUME NEW j \in Ids, order'[j].open, left(order'[j], tick') > 0
        PROVE  /\ order[j].open /\ left(order[j], tick) > 0
               /\ order'[j].zero_for_one = order[j].zero_for_one
    <3>1. order'[j] = order[j] /\ order[j].open
      BY <1>2, <2>4
    <3>2. order[j] \in OrderState /\ fits(order[j], tick)
      BY <3>1, OpenOrder DEF TickInv
    <3>3. left(order[j], tick') > 0
      BY <2>4, <3>1
    <3> QED BY <1>1, <2>3, <3>1, <3>2, <3>3, ConsumeLeft
  <2>5. Sided'
    BY <2>2, <2>4, SideStep DEF TickInv
  <2> QED BY <1>4, <2>5
<1> QED BY <1>5, <1>6

\* move_price passes the tick only when nothing is left there, for a counted
\* tick is found.
LEMMA MoveTick ==
  ASSUME TickInv, NEW to \in -1 .. 1, move_price(to)
  PROVE  CountExact' /\ Sided'
<1>1. /\ UNCHANGED <<tick, order, others, count, bit>> /\ tick_current' = to
      /\ (to < 0) # (tick_current < 0) => ~finds_tick
  BY DEF move_price
<1>2. CountExact'
  BY <1>1 DEF TickInv, CountExact
<1>3. CASE to < 0 <=> tick_current < 0
  <2>1. \A j \in Ids : order'[j].open /\ left(order'[j], tick') > 0 =>
          /\ order[j].open /\ left(order[j], tick) > 0
          /\ order'[j].zero_for_one = order[j].zero_for_one
    BY <1>1
  <2>2. tick_current' < 0 <=> tick_current < 0
    BY <1>1, <1>3
  <2>3. Sided'
    BY <2>1, <2>2, SideStep DEF TickInv
  <2> QED BY <1>2, <2>3
<1>4. CASE ~(to < 0 <=> tick_current < 0)
  <2>1. ~finds_tick
    <3>1. (to < 0) # (tick_current < 0)
      BY <1>4, Zenon
    <3> QED BY <1>1, <3>1
  <2>2. ~has_limit_orders(tick)
    <3>1. SUFFICES ASSUME has_limit_orders(tick) PROVE FALSE
      OBVIOUS
    <3>2. bit = (count > 0) /\ count = (IF others THEN 1 ELSE 0) + 1
      BY <3>1 DEF TickInv, CountExact
    <3>3. count > 0
      BY <3>2
    <3>4. bit
      BY <3>2, <3>3
    <3> QED BY <2>1, <3>1, <3>4 DEF finds_tick
  <2>3. \A j \in Ids : order[j].open => left(order[j], tick) = 0
    BY <2>2, EmptiedAll DEF TickInv
  <2>4. Sided'
    BY <1>1, <2>3 DEF Sided
  <2> QED BY <1>2, <2>4
<1> QED BY <1>3, <1>4

\* flip_other_tick counts another tick of the array in or out.
LEMMA FlipTick ==
  ASSUME TickInv, flip_other_tick
  PROVE  CountExact' /\ Sided'
<1>1. /\ UNCHANGED <<tick, order, tick_current>> /\ others' = ~others
      /\ IF others THEN count_down ELSE count_up
  BY DEF flip_other_tick
<1>2. Sided'
  BY <1>1 DEF TickInv, Sided
<1> DEFINE h == IF has_limit_orders(tick) THEN 1 ELSE 0
<1>3. /\ h \in {0, 1} /\ count = (IF others THEN 1 ELSE 0) + h /\ (bit <=> count > 0)
      /\ others \in BOOLEAN /\ bit \in BOOLEAN
  BY DEF TickInv, IInv, TypeOK, CountExact
<1>4. h' = h
  BY <1>1
<1>5. /\ count' = (IF others' THEN 1 ELSE 0) + h' /\ bit' = (count' > 0)
  <2>1. CASE others
    <3>1. count > 0 /\ count' = count - 1 /\ bit' = (IF count = 1 THEN ~bit ELSE bit)
      BY <1>1, <2>1 DEF count_down
    <3>2. count = 1 + h /\ ~others'
      BY <1>1, <1>3, <2>1
    <3> HIDE DEF h
    <3>3. count' = h /\ bit
      BY <1>3, <3>1, <3>2
    <3>b. /\ bit' <=> (IF count = 1 THEN ~bit ELSE bit)
          /\ bit' \in BOOLEAN
      BY <1>3, <3>1, Zenon
    <3>c. bit' <=> count' > 0
      BY <1>3, <3>b, <3>2, <3>3
    <3>4. bit' = (count' > 0)
      BY <3>b, <3>c
    <3> QED BY <1>3, <1>4, <3>2, <3>3, <3>4
  <2>2. CASE ~others
    <3>1. count' = count + 1 /\ bit' = (IF count = 0 THEN ~bit ELSE bit)
      BY <1>1, <2>2 DEF count_up
    <3>o. others'
      BY <1>1, <2>2, Zenon
    <3>2. count = h /\ others'
      BY <1>3, <2>2, <3>o
    <3> HIDE DEF h
    <3>3. count' = 1 + h
      BY <1>3, <3>1, <3>2
    <3>b. /\ bit' <=> (IF count = 0 THEN ~bit ELSE bit)
          /\ bit' \in BOOLEAN
      BY <1>3, <3>1, Zenon
    <3>c. bit' <=> count' > 0
      BY <1>3, <3>b, <3>2, <3>3
    <3>4. bit' = (count' > 0)
      BY <3>b, <3>c
    <3> QED BY <1>3, <1>4, <3>2, <3>3, <3>4
  <2> QED BY <1>3, <2>1, <2>2
<1>6. CountExact'
  BY <1>5 DEF CountExact
<1> QED BY <1>2, <1>6

\* The tick and its orders are as they were.
LEMMA CohortFrame ==
  ASSUME CohortInv, UNCHANGED <<tick, order>>
  PROVE  CohortInv'
<1>1. waiting' = waiting /\ Cohort' = Cohort
  BY DEF waiting, Cohort
<1>2. WaitingExact' /\ AmountsFit'
  BY <1>1 DEF CohortInv, WaitingExact, AmountsFit, OpenIds
<1>3. Backed'
  BY <1>1, BackedKept DEF CohortInv, Cohort
<1> QED BY <1>2, <1>3 DEF CohortInv

\* A tick without orders.
LEMMA InitTick == Init => TickInv
<1> SUFFICES ASSUME Init PROVE TickInv
  OBVIOUS
<1>1. IInv
  BY InitInv
<1>2. /\ tick.orders_amount = 0 /\ tick.part_filled_orders_remaining = 0
      /\ tick.unfilled_ratio_x64 = 0 /\ \A i \in Ids : ~order[i].open
      /\ ~others /\ count = 0 /\ bit = FALSE
  BY DEF Init, NoOrder
<1>3. WaitingExact
  <2>1. IsFiniteSet(Ids) /\ \A i \in Ids : waiting[i] = 0
    BY <1>1, <1>2, WaitingNat
  <2>2. SumFunctionOnSet(waiting, Ids) = 0
    BY <2>1, SumZero
  <2> QED BY <1>2, <2>2 DEF WaitingExact
<1>4. Backed
  <2>1. PICK D \in Nat \ {0} : D = 1
    OBVIOUS
  <2>2. PICK s \in [Ids -> Nat] : s = [i \in Ids |-> 0]
    OBVIOUS
  <2>3. SumFunctionOnSet(s, Ids) = 0
    <3>1. IsFiniteSet(Ids) /\ \A i \in Ids : s[i] = 0
      BY <1>1, <2>2, WaitingNat
    <3> QED BY <3>1, SumZero
  <2>4. Covers(D, s)
    BY <1>2, <2>1, <2>3 DEF Covers, Cohort
  <2> QED BY <2>4 DEF Backed
<1>5. AmountsFit /\ Sided
  BY <1>2 DEF AmountsFit, OpenIds, Sided
<1>6. CountExact
  <2>1. ~has_limit_orders(tick)
    BY <1>2 DEF has_limit_orders
  <2>2. count = (IF others THEN 1 ELSE 0) + (IF has_limit_orders(tick) THEN 1 ELSE 0)
    BY <1>2, <2>1
  <2>3. (count > 0) = FALSE
    BY <1>2
  <2>4. bit = (count > 0)
    BY <1>2, <2>3, Zenon
  <2> QED BY <2>2, <2>4 DEF CountExact
<1> QED BY <1>1, <1>3, <1>4, <1>5, <1>6 DEF TickInv, CohortInv

\* Every instruction preserves what the tick says of its orders.
LEMMA NextTick ==
  ASSUME ~TopUpEmptied, TickInv, Next
  PROVE  TickInv'
<1>0. IInv'
  BY NextInv DEF TickInv
<1> USE DEF TickInv
<1>1. CASE \E z \in BOOLEAN, a \in Amounts : open_limit_order(z, a)
  BY <1>0, <1>1, OpenCohort, OpenTick
<1>2. CASE \E i \in Ids, a \in Amounts : increase_limit_order(i, a)
  BY <1>0, <1>2, IncreaseCohort, IncreaseTick
<1>3. CASE \E i \in Ids, a \in Amounts : decrease_limit_order(i, a)
  BY <1>0, <1>3, DecreaseCohort, DecreaseTick
<1>4. CASE \E i \in Ids : settle_limit_order(i)
  BY <1>0, <1>4, SettleCohort, SettleTick
<1>5. CASE \E i \in Ids : close_limit_order(i)
  BY <1>0, <1>5, CloseCohort, SettleTick
<1>6. CASE \E z \in BOOLEAN, a \in Amounts, b \in BOOLEAN, f \in FeeRates, n \in BOOLEAN :
             swap_at_tick(z, a, b, f, n)
  BY <1>0, <1>6, SwapCohort, SwapTick
<1>7. CASE \E to \in -1 .. 1 : move_price(to)
  <2>1. UNCHANGED <<tick, order>>
    BY <1>7 DEF move_price
  <2> QED BY <1>0, <1>7, <2>1, CohortFrame, MoveTick
<1>8. CASE flip_other_tick
  <2>1. UNCHANGED <<tick, order>>
    BY <1>8 DEF flip_other_tick
  <2> QED BY <1>0, <1>8, <2>1, CohortFrame, FlipTick
<1>9. CASE \E s \in Statuses : update_pool_status(s)
  <2>1. UNCHANGED <<tick, order, tick_current, others, count, bit>>
    BY <1>9 DEF update_pool_status
  <2>2. CountExact' /\ Sided'
    BY <2>1 DEF CountExact, Sided
  <2> QED BY <1>0, <2>1, <2>2, CohortFrame
<1> QED
  BY <1>1, <1>2, <1>3, <1>4, <1>5, <1>6, <1>7, <1>8, <1>9 DEF Next

\* What a tick's cohorts hold lets every order take back all it has unfilled.
LEMMA InFull == IInv /\ CohortInv => RefundsInFull
<1> SUFFICES ASSUME IInv, CohortInv, NEW i \in Ids, order[i].open
             PROVE  LET r == decrease_amount(order[i], tick, U64Max)
                    IN /\ r.ok
                       /\ r.decrease = get_unfilled_amount(settle_filled_order(order[i], tick).order)
  BY DEF RefundsInFull, OpenIds
<1> DEFINE o == order[i]
           s == settle_filled_order(o, tick)
           q == s.order
           u == get_unfilled_amount(q)
           d == IF u = 0 THEN 0 ELSE real_decrease(q, tick, U64Max)
           r == decrease_amount(o, tick, U64Max)
<1>1. /\ o \in OrderState /\ fits(o, tick) /\ tick \in TickState
      /\ tick.order_phase <= PhaseMax /\ U64Max \in Nat
  BY OpenOrder, BoundAssumption DEF IInv, TypeOK, SaturatesEmpty
<1>2. /\ s.ok /\ q \in OrderState /\ q.order_phase = o.order_phase
      /\ q.total_amount = o.total_amount /\ ~already_filled(q, tick) /\ fits(q, tick)
  BY <1>1, SettleFits
<1>3. u = left(o, tick) /\ u \in Nat /\ u = q.total_amount - q.filled_amount
  BY <1>1, SettleLeft DEF get_unfilled_amount
<1>4. /\ q.total_amount \in Nat /\ q.filled_amount \in Nat /\ o.total_amount \in Nat
      /\ o.order_phase \in Nat /\ tick.order_phase \in Nat
      /\ tick.orders_amount \in Nat /\ tick.part_filled_orders_remaining \in Nat
  BY <1>1, <1>2, FieldsNat
<1>5. u <= U64Max
  <2>1. o.total_amount <= U64Max
    BY DEF CohortInv, AmountsFit, OpenIds
  <2> HIDE DEF u, q, o
  <2> QED BY <1>1, <1>2, <1>3, <1>4, <2>1
<1>6. o.order_phase = tick.order_phase => u <= tick.orders_amount
  <2>1. ASSUME o.order_phase = tick.order_phase
        PROVE  u = o.total_amount /\ o.total_amount <= tick.orders_amount
    BY <1>3, <2>1, WaitingBounds DEF left, CohortInv
  <2> QED BY <2>1
<1>7. o.order_phase # tick.order_phase /\ u # 0 => u <= tick.part_filled_orders_remaining
  <2>1. ASSUME o.order_phase # tick.order_phase, u # 0
        PROVE  u <= tick.part_filled_orders_remaining
    <3>1. o.order_phase + 1 = tick.order_phase
      BY <1>3, <2>1 DEF left
    <3> QED BY <1>3, <3>1, CohortBounds DEF CohortInv, Cohort
  <2> QED BY <2>1
<1>8. d = u
  <2>1. real_decrease(q, tick, U64Max)
          = IF o.order_phase = tick.order_phase THEN least(U64Max, u)
            ELSE least(least(U64Max, u), tick.part_filled_orders_remaining)
    BY <1>2 DEF real_decrease
  <2>2. least(U64Max, u) = u
    <3> HIDE DEF u
    <3> QED BY <1>1, <1>3, <1>5 DEF least
  <2>3. CASE u = 0
    BY <2>3
  <2>4. CASE u # 0 /\ o.order_phase = tick.order_phase
    BY <2>1, <2>2, <2>4
  <2>5. CASE u # 0 /\ o.order_phase # tick.order_phase
    <3>1. least(u, tick.part_filled_orders_remaining) = u
      BY <1>7, <2>5 DEF least
    <3> QED BY <2>1, <2>2, <2>5, <3>1
  <2> QED BY <2>3, <2>4, <2>5
<1>9. CASE u = 0
  <2>1. d = 0
    BY <1>9
  <2>2. r.ok = (s.ok /\ ~already_filled(q, tick)) /\ r.decrease = 0
    BY <2>1 DEF decrease_amount
  <2> QED BY <1>2, <1>9, <2>2
<1>10. CASE u # 0
  <2> DEFINE p == after_decrease(q, tick, d)
  <2>1. d # 0
    BY <1>8, <1>10
  <2>2. /\ r.decrease = d
        /\ r.ok = (/\ s.ok /\ ~already_filled(q, tick)
                   /\ o.order_phase = tick.order_phase => d <= tick.orders_amount
                   /\ get_unfilled_amount(p) > 0 =>
                        check_limit_order_amount(get_unfilled_amount(p), o.zero_for_one))
    BY <2>1 DEF decrease_amount
  <2>3. get_unfilled_amount(p) = 0
    <3> DEFINE pd == after_decrease(q, tick, u)
    <3>1. p = pd
      BY <1>8
    <3>2. q.filled_amount + u <= q.total_amount
      <4> HIDE DEF u, q
      <4> QED BY <1>3, <1>4
    <3>3. pd.total_amount = q.total_amount - u /\ pd.filled_amount = q.filled_amount
      <4> HIDE DEF u, q
      <4> QED BY <1>1, <1>2, <1>3, <3>2, AfterDecrease
    <3>4. pd.total_amount - pd.filled_amount = 0
      <4> HIDE DEF u, q, pd
      <4> QED BY <1>3, <1>4, <3>3
    <3> QED BY <3>1, <3>4 DEF get_unfilled_amount
  <2>4. ~(get_unfilled_amount(p) > 0)
    BY <2>3
  <2>5. r.ok
    <3> HIDE DEF r, s, q, d, u, p, o
    <3> QED BY <1>2, <1>6, <1>8, <2>2, <2>4, Zenon
  <2> QED BY <1>8, <2>2, <2>5
<1> QED BY <1>9, <1>10

\* The invariant holds in every reachable state when owners do not top up an
\* order that has nothing unfilled.
LEMMA TickInvariance ==
  ASSUME ~TopUpEmptied
  PROVE  Spec => []TickInv
<1>1. TickInv /\ [Next]_vars => TickInv'
  <2>1. TickInv /\ Next => TickInv'
    BY NextTick
  <2>2. ASSUME TickInv, UNCHANGED vars PROVE TickInv'
    <3>1. UNCHANGED <<tick, order, tick_current, others, count, bit>>
      BY <2>2 DEF vars
    <3>2. IInv'
      BY <2>2, StutterInv DEF TickInv
    <3>3. CohortInv'
      BY <2>2, <3>1, CohortFrame DEF TickInv
    <3>4. CountExact' /\ Sided'
      BY <2>2, <3>1 DEF TickInv, CountExact, Sided
    <3> QED BY <3>2, <3>3, <3>4 DEF TickInv
  <2> QED BY <2>1, <2>2
<1> QED BY InitTick, <1>1, PTL DEF Spec

\* What a swap reads of the tick is what its orders are, for any number of
\* orders, amounts and prices: the tick is counted exactly while somebody waits
\* there, all that is on offer sells on the price's side, and every order can
\* take back all it has unfilled.
THEOREM TickCorrect ==
  ASSUME ~TopUpEmptied
  PROVE  Spec => []TickExact
<1>1. TickInv => TickExact
  <2>1. ASSUME TickInv PROVE TypeOK /\ CountExact /\ OneSided /\ RefundsInFull
    BY <2>1, SidedIsOneSided, InFull DEF TickInv, IInv
  <2> QED BY <2>1 DEF TickExact
<1> QED BY <1>1, TickInvariance, PTL

(***************************************************************************)
(* What closing an order forfeits.                                         *)
(***************************************************************************)
\* An order with nothing unfilled was paid for all of its segment but one unit.
paid_but_dust(o) ==
  get_unfilled_amount(o) = 0 /\ o.settle_base > 0
    => o.settled_output >= get_limit_order_output(o.settle_base - 1, o.zero_for_one)

DustInv == IInv /\ \A i \in Ids : order[i].open => paid_but_dust(order[i])

\* Output is monotone, and one more unit buys at most its own output plus one.
LEMMA OutputOfOne ==
  ASSUME NEW b \in Nat, b > 0, NEW z \in BOOLEAN
  PROVE  /\ get_limit_order_output(b - 1, z) <= get_limit_order_output(b, z)
         /\ get_limit_order_output(b, z)
              <= get_limit_order_output(b - 1, z) + get_limit_order_output(1, z) + 1
<1>1. ASSUME NEW p \in Nat, NEW e \in Nat, e > 0
      PROVE  /\ ((b - 1) * p) \div e <= (b * p) \div e
             /\ (b * p) \div e <= ((b - 1) * p) \div e + (1 * p) \div e + 1
  <2> DEFINE x == (b - 1) * p
  <2>1. x \in Nat /\ b * p = x + p /\ 1 * p = p
    <3>1. b - 1 \in Nat
      OBVIOUS
    <3> QED BY <3>1
  <2> HIDE DEF x
  <2>2. x \div e <= (x + p) \div e /\ (x + p) \div e <= x \div e + p \div e + 1
    <3> DEFINE m == x \div e
               n == p \div e
               k == (x + p) \div e
    <3>1. /\ m \in Nat /\ e * m <= x /\ x < e * m + e
          /\ n \in Nat /\ e * n <= p /\ p < e * n + e
          /\ k \in Nat /\ e * k <= x + p /\ x + p < e * k + e
      BY <1>1, <2>1, DivBounds
    <3> HIDE DEF m, n, k
    <3>2. m <= k
      <4>1. SUFFICES ASSUME k + 1 <= m PROVE FALSE
        BY <3>1
      <4>2. e * (k + 1) <= e * m /\ e * (k + 1) = e * k + e
        BY <1>1, <3>1, <4>1, MulMono
      <4>3. e * k \in Nat /\ e * m \in Nat
        BY <1>1, <3>1
      <4> QED BY <2>1, <1>1, <3>1, <4>2, <4>3
    <3>3. k <= m + n + 1
      <4>1. SUFFICES ASSUME m + n + 2 <= k PROVE FALSE
        BY <3>1
      <4>2. e * (m + n + 2) <= e * k /\ e * (m + n + 2) = e * m + e * n + e + e
        BY <1>1, <3>1, <4>1, MulMono
      <4>3. e * k \in Nat /\ e * m \in Nat /\ e * n \in Nat
        BY <1>1, <3>1
      <4> QED BY <2>1, <1>1, <3>1, <4>2, <4>3
    <3> QED BY <3>2, <3>3 DEF m, n, k
  <2> QED BY <2>1, <2>2 DEF x
<1>2. /\ Q64 \in Nat /\ Q64 > 0 /\ PriceLo \in Nat /\ PriceHi \in Nat /\ PriceHi > 0
  BY PriceAssumption
<1> QED BY <1>1, <1>2 DEF get_limit_order_output, mul_div_floor

\* settle_filled_order keeps back at most one unit of the segment.
LEMMA SettleDust ==
  ASSUME NEW o \in OrderState, NEW t \in TickState, fits(o, t), t.order_phase <= PhaseMax,
         paid_but_dust(o)
  PROVE  /\ paid_but_dust(settle_filled_order(o, t).order)
         /\ get_unfilled_amount(o) = 0 =>
              settle_filled_order(o, t).payout <= get_limit_order_output(1, o.zero_for_one) + 1
<1> DEFINE s == settle_filled_order(o, t)
           q == s.order
           z == o.zero_for_one
           b == o.settle_base
           one == get_limit_order_output(1, z)
<1>0. /\ o.order_phase \in Nat /\ t.order_phase \in Nat /\ o.total_amount \in Nat
      /\ o.filled_amount \in Nat /\ b \in Nat /\ o.settled_output \in Nat
      /\ o.unfilled_ratio_x64 \in Nat /\ t.unfilled_ratio_x64 \in Nat
      /\ z \in BOOLEAN /\ PhaseMax \in Nat /\ one \in Nat
  BY FieldsNat, BoundAssumption, OutputNat
<1> DEFINE below == get_limit_order_output(b - 1, z)
           all == get_limit_order_output(b, z)
<1>1. b > 0 => /\ below \in Nat /\ all \in Nat /\ below <= all /\ all <= below + one + 1
  <2>1. b > 0 => b - 1 \in Nat
    BY <1>0
  <2> HIDE DEF b, z
  <2> QED BY <1>0, <2>1, OutputNat, OutputOfOne
<1>2. CASE s = unpaid(o)
  BY <1>0, <1>2 DEF unpaid
<1>3. CASE b > 0 /\ s = settle_part_filled(o, t) /\ o.order_phase + 1 = t.order_phase
  <2> DEFINE numerator == b * t.unfilled_ratio_x64
             ideal == numerator \div o.unfilled_ratio_x64
             filled == saturating_sub(b, ideal)
             effective == IF numerator % o.unfilled_ratio_x64 = 0 THEN filled ELSE filled - 1
             out == get_limit_order_output(effective, z)
  <2>1. /\ numerator \in Nat /\ ideal \in Nat /\ ideal <= get_unfilled_amount(o)
        /\ get_unfilled_amount(o) <= b
    BY <1>0, <1>3, DivBounds DEF fits
  <2>2. get_unfilled_amount(o) \in Int
    BY <1>0 DEF get_unfilled_amount
  <2>3. CASE filled = 0
    <3>1. s = unpaid(o)
      BY <1>3, <2>3 DEF settle_part_filled
    <3> QED BY <1>2, <3>1
  <2>4. CASE filled # 0
    <3> DEFINE f == o.total_amount - ideal
               p == [o EXCEPT !.filled_amount = f, !.settled_output = out]
    <3>1. q = p /\ s.payout = saturating_sub(out, o.settled_output)
      BY <1>3, <2>4 DEF settle_part_filled
    <3>2. ideal = 0 => (out = all \/ out = below)
      <4> HIDE DEF ideal
      <4>1. ideal = 0 => filled = b
        BY <1>0 DEF saturating_sub
      <4> HIDE DEF filled, b
      <4> QED BY <4>1
    <3> HIDE DEF ideal, out
    <3>3. f \in Int /\ o.total_amount - f = ideal
      BY <1>0, <2>1
    <3> HIDE DEF f
    <3>4. /\ p.filled_amount = f /\ p.total_amount = o.total_amount
          /\ p.zero_for_one = z /\ p.settle_base = b
          /\ p.settled_output = out
      BY DEF OrderState
    <3>5. paid_but_dust(q)
      <4>1. SUFFICES ASSUME get_unfilled_amount(q) = 0
                     PROVE  out >= below
        BY <3>1, <3>4 DEF paid_but_dust
      <4>2. ideal = 0
        <5> HIDE DEF p
        <5> QED BY <3>1, <3>3, <3>4, <4>1 DEF get_unfilled_amount
      <4> QED BY <1>1, <1>3, <3>2, <4>2
    <3>6. get_unfilled_amount(o) = 0 => s.payout <= one + 1
      <4>1. SUFFICES ASSUME get_unfilled_amount(o) = 0 PROVE s.payout <= one + 1
        OBVIOUS
      <4>2. ideal = 0
        BY <2>1, <4>1
      <4>3. o.settled_output >= below
        BY <1>3, <4>1 DEF paid_but_dust
      <4>4. out \in Nat /\ out <= below + one + 1
        <5> HIDE DEF below, all, one, b
        <5> QED BY <1>0, <1>1, <1>3, <3>2, <4>2
      <4> HIDE DEF below, all, one, b, s
      <4> QED BY <1>0, <1>1, <1>3, <3>1, <4>3, <4>4 DEF saturating_sub
    <3> QED BY <3>5, <3>6
  <2> QED BY <2>3, <2>4
<1>4. CASE b > 0 /\ s = settle_fully_filled(o)
  <2>1. q.settle_base = 0 /\ s.payout = saturating_sub(all, o.settled_output)
    <3>1. /\ q = [o EXCEPT !.filled_amount = o.total_amount, !.settle_base = 0,
                           !.settled_output = 0]
          /\ s.payout = saturating_sub(all, o.settled_output)
      BY <1>4 DEF settle_fully_filled
    <3>2. q.settle_base = 0
      BY <3>1 DEF OrderState
    <3> QED BY <3>1, <3>2
  <2>2. paid_but_dust(q)
    BY <2>1 DEF paid_but_dust
  <2>3. get_unfilled_amount(o) = 0 => s.payout <= one + 1
    <3>1. SUFFICES ASSUME get_unfilled_amount(o) = 0 PROVE s.payout <= one + 1
      OBVIOUS
    <3>2. o.settled_output >= below
      BY <1>4, <3>1 DEF paid_but_dust
    <3> HIDE DEF below, all, one, b, s
    <3> QED BY <1>0, <1>1, <1>4, <2>1, <3>2 DEF saturating_sub
  <2> QED BY <2>2, <2>3
<1>5. \/ s = unpaid(o)
      \/ b > 0 /\ s = settle_part_filled(o, t) /\ o.order_phase + 1 = t.order_phase
      \/ b > 0 /\ s = settle_fully_filled(o)
  <2>1. CASE b = 0 \/ o.order_phase = t.order_phase
    BY <2>1 DEF settle_filled_order
  <2>2. CASE b # 0 /\ o.order_phase + 1 = t.order_phase
    <3>0. o.order_phase # t.order_phase /\ o.order_phase < PhaseMax
      BY <1>0, <2>2 DEF fits
    <3>1. phase_after(o.order_phase, 1) = t.order_phase /\ o.order_phase # t.order_phase
      BY <1>0, <2>2, <3>0 DEF phase_after
    <3> QED BY <1>0, <2>2, <3>1 DEF settle_filled_order
  <2>3. CASE b # 0 /\ o.order_phase # t.order_phase /\ o.order_phase + 1 # t.order_phase
    <3>1. o.order_phase + 2 <= t.order_phase
      BY <1>0, <2>3 DEF fits
    <3>2. /\ phase_after(o.order_phase, 1) # t.order_phase
          /\ phase_after(o.order_phase, 2) <= t.order_phase
      BY <1>0, <3>1 DEF phase_after
    <3> QED BY <1>0, <2>3, <3>2 DEF settle_filled_order
  <2> QED BY <2>1, <2>2, <2>3
<1> QED BY <1>2, <1>3, <1>4, <1>5

\* decrease_amount closes the segment of an order it empties.
LEMMA DecreaseDust ==
  ASSUME NEW o \in OrderState, NEW t \in TickState, fits(o, t), t.order_phase <= PhaseMax,
         paid_but_dust(o), NEW amount \in Nat, decrease_amount(o, t, amount).ok
  PROVE  paid_but_dust(decrease_amount(o, t, amount).order)
<1> DEFINE s == settle_filled_order(o, t)
           q == s.order
           d == IF get_unfilled_amount(q) = 0 THEN 0 ELSE real_decrease(q, t, amount)
           r == decrease_amount(o, t, amount)
<1>1. /\ q \in OrderState /\ fits(q, t) /\ q.order_phase = o.order_phase
  BY SettleFits
<1>2. paid_but_dust(q)
  BY SettleDust
<1>3. /\ q.total_amount \in Nat /\ q.filled_amount \in Nat /\ q.filled_amount <= q.total_amount
      /\ t.part_filled_orders_remaining \in Nat
      /\ q.order_phase = t.order_phase => q.filled_amount = 0
  BY <1>1, FieldsNat DEF fits
<1> HIDE DEF q
<1>4. d \in Nat /\ d <= q.total_amount - q.filled_amount
  BY <1>3 DEF real_decrease, least, get_unfilled_amount
<1> HIDE DEF d
<1>5. CASE d = 0
  <2>1. r.order = q
    BY <1>5 DEF decrease_amount, q, d
  <2> QED BY <1>2, <2>1
<1>6. CASE d # 0
  <2> DEFINE p == after_decrease(q, t, d)
  <2>1. r.order = p
    BY <1>6 DEF decrease_amount, q, d
  <2>2. q.filled_amount + d <= q.total_amount
    BY <1>3, <1>4
  <2>3. /\ p.total_amount = q.total_amount - d /\ p.filled_amount = q.filled_amount
        /\ q.order_phase # t.order_phase =>
             p.settle_base = q.total_amount - d - q.filled_amount
        /\ q.order_phase = t.order_phase => p.settle_base = q.total_amount - d
    BY <1>1, <1>4, <2>2, AfterDecrease
  <2> HIDE DEF p
  <2>4. p.settle_base = get_unfilled_amount(p)
    BY <1>3, <1>4, <2>3 DEF get_unfilled_amount
  <2>5. paid_but_dust(p)
    BY <2>4 DEF paid_but_dust
  <2> QED BY <2>1, <2>5
<1> QED BY <1>5, <1>6

\* Every instruction keeps an order paid, and only a closable one disappears.
LEMMA NextDust ==
  ASSUME DustInv, Next
  PROVE  /\ DustInv'
         /\ \A i \in Ids : order[i].open /\ order'[i] = NoOrder
                             => get_unfilled_amount(order[i]) = 0
<1>0. IInv'
  BY NextInv DEF DustInv
<1>t. /\ tick \in TickState /\ order \in [Ids -> OrderState \cup {NoOrder}]
      /\ tick.order_phase <= PhaseMax /\ order_nonce \in Nat /\ MaxOrders \in Nat
      /\ Amounts \subseteq Nat /\ \A a \in Amounts : a > 0
  BY BoundAssumption DEF DustInv, IInv, TypeOK, SaturatesEmpty, Amounts
<1>o. \A i \in Ids : order[i].open => /\ order[i] \in OrderState /\ fits(order[i], tick)
                                      /\ paid_but_dust(order[i])
  BY OpenOrder DEF DustInv
<1>n. \A p \in OrderState : p # NoOrder
  BY DEF OrderState, NoOrder
<1>r. ASSUME NEW i \in Ids, NEW p, order' = [order EXCEPT ![i] = p], p.open => paid_but_dust(p),
             order[i].open /\ p = NoOrder => get_unfilled_amount(order[i]) = 0
      PROVE  /\ DustInv'
             /\ \A j \in Ids : order[j].open /\ order'[j] = NoOrder
                                 => get_unfilled_amount(order[j]) = 0
  <2>1. order'[i] = p /\ \A j \in Ids : j # i => order'[j] = order[j]
    BY <1>t, <1>r
  <2>2. \A j \in Ids : ~(order[j].open /\ order[j] = NoOrder)
    BY DEF NoOrder
  <2>3. \A j \in Ids : order'[j].open => paid_but_dust(order'[j])
    BY <1>o, <1>r, <2>1
  <2> QED BY <1>0, <1>r, <2>1, <2>2, <2>3 DEF DustInv
<1>u. ASSUME order' = order
      PROVE  /\ DustInv'
             /\ \A j \in Ids : order[j].open /\ order'[j] = NoOrder
                                 => get_unfilled_amount(order[j]) = 0
  BY <1>0, <1>u DEF DustInv, NoOrder
<1>1. CASE \E z \in BOOLEAN, a \in Amounts : open_limit_order(z, a)
  <2>1. PICK z \in BOOLEAN, a \in Amounts : open_limit_order(z, a)
    BY <1>1
  <2> DEFINE p == initialize(z, a, tick.order_phase)
             i == order_nonce
  <2>2. i \in Ids /\ order' = [order EXCEPT ![i] = p]
    <3>1. order_nonce < MaxOrders /\ order' = [order EXCEPT ![i] = p]
      BY <2>1, Zenon DEF open_limit_order
    <3> QED BY <1>t, <3>1 DEF Ids
  <2>3. paid_but_dust(p)
    <3>1. p.total_amount = a /\ p.filled_amount = 0 /\ a \in Nat /\ a > 0
      BY <1>t DEF initialize
    <3> HIDE DEF p
    <3>2. get_unfilled_amount(p) # 0
      BY <3>1 DEF get_unfilled_amount
    <3> QED BY <3>2 DEF paid_but_dust
  <2>4. ~order[i].open
    BY <1>t, <2>2 DEF DustInv, IInv, NonceFresh, NoOrder
  <2> HIDE DEF p, i
  <2> QED BY <1>r, <2>2, <2>3, <2>4
<1>2. CASE \E i \in Ids, a \in Amounts : increase_limit_order(i, a)
  <2>1. PICK i \in Ids, a \in Amounts : increase_limit_order(i, a)
    BY <1>2
  <2> DEFINE p == increase_amount(order[i], a)
  <2>2. /\ order[i].open /\ order[i].order_phase = tick.order_phase
        /\ order' = [order EXCEPT ![i] = p] /\ a \in Nat /\ a > 0
    BY <1>t, <2>1 DEF increase_limit_order
  <2>3. /\ p \in OrderState /\ p.total_amount = order[i].total_amount + a
        /\ p.filled_amount = 0 /\ order[i].total_amount \in Nat
    <3>1. order[i].filled_amount = 0 /\ order[i].total_amount \in Nat
      BY <1>o, <1>t, <2>2, FieldsNat DEF fits
    <3> QED BY <1>o, <2>2, <3>1, IncreaseAmount
  <2> HIDE DEF p
  <2>4. get_unfilled_amount(p) # 0
    BY <2>2, <2>3 DEF get_unfilled_amount
  <2>5. paid_but_dust(p) /\ p # NoOrder
    BY <1>n, <2>3, <2>4 DEF paid_but_dust
  <2> QED BY <1>r, <2>2, <2>5
<1>3. CASE \E i \in Ids, a \in Amounts : decrease_limit_order(i, a)
  <2>1. PICK i \in Ids, a \in Amounts : decrease_limit_order(i, a)
    BY <1>3
  <2> DEFINE r == decrease_amount(order[i], tick, a)
             p == r.order
  <2>2. order[i].open /\ r.ok /\ order' = [order EXCEPT ![i] = p] /\ a \in Nat
    BY <1>t, <2>1 DEF decrease_limit_order
  <2>3. p \in OrderState /\ paid_but_dust(p)
    BY <1>o, <1>t, <2>2, DecreaseFits, DecreaseDust
  <2> HIDE DEF p, r
  <2> QED BY <1>n, <1>r, <2>2, <2>3
<1>4. CASE \E i \in Ids : settle_limit_order(i)
  <2>1. PICK i \in Ids : settle_limit_order(i)
    BY <1>4
  <2> DEFINE p == settle_filled_order(order[i], tick).order
  <2>2. order[i].open /\ order' = [order EXCEPT ![i] = p]
    BY <2>1 DEF settle_limit_order
  <2>3. p \in OrderState /\ paid_but_dust(p)
    BY <1>o, <1>t, <2>2, SettleFits, SettleDust
  <2> HIDE DEF p
  <2> QED BY <1>n, <1>r, <2>2, <2>3
<1>5. CASE \E i \in Ids : close_limit_order(i)
  <2>1. PICK i \in Ids : close_limit_order(i)
    BY <1>5
  <2>2. /\ order' = [order EXCEPT ![i] = NoOrder]
        /\ get_unfilled_amount(order[i]) = 0
    BY <2>1 DEF close_limit_order, closable
  <2>3. ~NoOrder.open
    BY DEF NoOrder
  <2> QED BY <1>r, <2>2, <2>3
<1>6. CASE \E z \in BOOLEAN, a \in Amounts, b \in BOOLEAN, f \in FeeRates, n \in BOOLEAN :
             swap_at_tick(z, a, b, f, n)
  <2>1. order' = order
    BY <1>6 DEF swap_at_tick
  <2> QED BY <1>u, <2>1
<1>7. CASE \/ \E to \in -1 .. 1 : move_price(to)
           \/ flip_other_tick
           \/ \E s \in Statuses : update_pool_status(s)
  <2>1. order' = order
    BY <1>7 DEF move_price, flip_other_tick, update_pool_status
  <2> QED BY <1>u, <2>1
<1> QED BY <1>1, <1>2, <1>3, <1>4, <1>5, <1>6, <1>7 DEF Next

\* close_limit_order takes from its owner at most the output of the one unit
\* that settle_filled_order kept back, for every price, amount and sequence of
\* fills, settlements and cancellations.
THEOREM DustBounded == Spec => CloseForfeitsDust
<1> DEFINE little == \A i \in OpenIds :
                       order'[i] = NoOrder =>
                         pending(i) <= get_limit_order_output(1, order[i].zero_for_one) + 1
<1>1. Init => DustInv
  <2>1. ASSUME Init PROVE \A i \in Ids : ~order[i].open
    BY <2>1 DEF Init, NoOrder
  <2> QED BY <2>1, InitInv DEF DustInv
<1>2. DustInv /\ [Next]_vars => DustInv'
  <2>1. DustInv /\ Next => DustInv'
    BY NextDust
  <2>2. ASSUME DustInv, UNCHANGED vars PROVE DustInv'
    <3>1. order' = order /\ IInv'
      BY <2>2, StutterInv DEF vars, DustInv
    <3> QED BY <2>2, <3>1 DEF DustInv
  <2> QED BY <2>1, <2>2
<1>3. DustInv /\ [Next]_vars => [little]_vars
  <2>1. SUFFICES ASSUME DustInv, Next, NEW i \in Ids, order[i].open, order'[i] = NoOrder
                 PROVE  pending(i) <= get_limit_order_output(1, order[i].zero_for_one) + 1
    BY DEF OpenIds
  <2>2. get_unfilled_amount(order[i]) = 0
    BY <2>1, NextDust
  <2>3. /\ order[i] \in OrderState /\ fits(order[i], tick) /\ paid_but_dust(order[i])
        /\ tick \in TickState /\ tick.order_phase <= PhaseMax
    BY <2>1, OpenOrder DEF DustInv, IInv, TypeOK, SaturatesEmpty
  <2> QED BY <2>2, <2>3, SettleDust DEF pending
<1>4. Spec => []DustInv
  BY <1>1, <1>2, PTL DEF Spec
<1>5. Spec => [][little]_vars
  BY <1>3, <1>4, PTL DEF Spec
<1> QED BY <1>5 DEF CloseForfeitsDust
=============================================================================
