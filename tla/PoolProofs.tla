----------------------------- MODULE PoolProofs -----------------------------
(***************************************************************************)
(* Proofs about Pool, for any number of positions, any table of prices and *)
(* any sizes of arrays: the liquidity of the pool and of its ticks is that *)
(* of the positions, and the search of a swap passes over no initialized   *)
(* tick.                                                                   *)
(*                                                                         *)
(* Both rest on each other: a swap that missed a tick would leave the      *)
(* liquidity of its positions as it was, and the search reads the counts   *)
(* and the bitmap that changes of liquidity and matches of orders keep.    *)
(*                                                                         *)
(* Two kinds of pools are left out, because the statement fails there (see *)
(* README): those with a dynamic fee, whose bounded step can turn around,  *)
(* and those in which a swap may be left with one unit that is all fee     *)
(* while orders rest.  The volatility, in the last part, is proved of all  *)
(* pools.                                                                  *)
(***************************************************************************)
EXTENDS Pool, SumTheorems

\* The pools the theorems are about.
StaticFee == ~FeeConfig.enabled
NothingLeftOver ==
  \/ Orders = {}
  \/ \A s \in Swaps : s.base_input /\ is_fee_on_input(s.zero_for_one) => s.trade_fee_rate = 0

(***************************************************************************)
(* The invariant.                                                          *)
(***************************************************************************)
Growths == 0 .. (Growth - 1)
OrdersOfTick ==
  [order_phase: Nat, orders_amount: Nat, part_filled_orders_remaining: Nat,
   unfilled_ratio_x64: Nat]
TickState ==
  [liquidity_gross: Nat, liquidity_net: Int, fee_growth_outside: [Tokens -> Growths],
   orders: OrdersOfTick]
PoolState ==
  [sqrt_price: Nat, tick: Ticks, liquidity: Nat, fee_growth_global: [Tokens -> Growths],
   protocol_fees: [Tokens -> Nat], fund_fees: [Tokens -> Nat], dynamic_fee: {NoFeeConfig}]
PositionState ==
  [open: {TRUE}, lower: Ticks, upper: Ticks, liquidity: Nat,
   fee_growth_inside_last: [Tokens -> Int], token_fees_owed: [Tokens -> Int]]
Rates == 0 .. (FeeDenom - 1)
SwapState ==
  [running: {TRUE}, zero_for_one: BOOLEAN, base_input: BOOLEAN, amount: Nat,
   trade_fee_rate: Rates, total_fee_rate: Rates, tick_spacing_index: Int,
   dynamic_fee: {NoFeeConfig}, limit: Nat, partial: BOOLEAN, remaining: Nat,
   calculated: Int, sqrt_price: Nat, tick: Ticks, liquidity: Nat, tick_next: Int,
   fee_growth: Growths, lp_fee: Int, protocol_fee: Nat, fund_fee: Nat,
   stage: {"search", "compute", "match", "pass"}, array: Int, contains: BOOLEAN,
   ticks: [Ticks -> TickState], count: [Arrays -> Nat], bitmap: SUBSET Arrays,
   order_in: Int, order_out: Int]

\* The liquidity of the positions pos that begin at a tick, end there or span it.
lower_of(pos, t) ==
  [p \in Positions |-> IF pos[p].open /\ pos[p].lower = t THEN pos[p].liquidity ELSE 0]
upper_of(pos, t) ==
  [p \in Positions |-> IF pos[p].open /\ pos[p].upper = t THEN pos[p].liquidity ELSE 0]
active_of(pos, t) ==
  [p \in Positions |-> IF pos[p].open /\ in_range(pos[p].lower, pos[p].upper, t)
                       THEN pos[p].liquidity ELSE 0]
Lower(pos, t) == SumFunctionOnSet(lower_of(pos, t), Positions)
Upper(pos, t) == SumFunctionOnSet(upper_of(pos, t), Positions)
Active(pos, t) == SumFunctionOnSet(active_of(pos, t), Positions)

\* Positions are accounts with a range, or do not exist.
PositionsOK(pos) ==
  /\ pos \in [Positions -> PositionState \cup {NoPosition}]
  /\ \A p \in Positions : pos[p].open => pos[p].lower < pos[p].upper

\* What a tick says of the positions is true.
SumsHold(pos, tks) ==
  \A t \in Ticks : /\ tks[t].liquidity_gross = Lower(pos, t) + Upper(pos, t)
                   /\ tks[t].liquidity_net = Lower(pos, t) - Upper(pos, t)

Initialized(tks) == {t \in Ticks : is_initialized(tks[t])}

\* Counts and bitmap are those of a set S of ticks.
in_array(S, a) == {t \in S : get_array_start_index(t) = a}
CountsHold(S, c, b) ==
  \A a \in Arrays : /\ c[a] = Cardinality(in_array(S, a))
                    /\ (a \in b) = (c[a] > 0)

\* Without orders to open there are none.
OrdersOK(tks) == Orders = {} => \A t \in Ticks : unfilled(tks[t].orders) = 0

PriceIn(t, p) == SqrtPrice[t] <= p /\ p <= SqrtPrice[t + 1]

PoolInv(pl, tks, c, b, pos) ==
  /\ pl \in PoolState /\ tks \in [Ticks -> TickState]
  /\ c \in [Arrays -> Nat] /\ b \in SUBSET Arrays
  /\ PositionsOK(pos) /\ SumsHold(pos, tks) /\ OrdersOK(tks)
  /\ CountsHold(Initialized(tks), c, b)
  /\ pl.liquidity = Active(pos, pl.tick)
  /\ pl.tick < MaxTick /\ PriceIn(pl.tick, pl.sqrt_price)
  /\ SqrtPrice[MinTick] <= pl.sqrt_price /\ pl.sqrt_price < SqrtPrice[MaxTick]

\* Where the search starts from, if the loop goes on: the array of the current
\* tick, the array above it if its first tick has just been crossed downwards,
\* or, if the pool's own array is empty, the next one.
Located(w) ==
  LET a == get_array_start_index(w.tick)
  IN IF w.contains
     THEN \/ w.array = a
          \/ w.zero_for_one /\ w.array = a + 1 /\ get_array_start_index(w.tick + 1) = a + 1
     ELSE a \notin w.bitmap /\ w.array \in next_tick_array_index(w.bitmap, a, w.zero_for_one)

\* tick_next is initialized and lies ahead, with no initialized tick before it.
Ahead(w) ==
  /\ w.tick_next \in Ticks
  /\ w.stage # "pass" => is_initialized(w.ticks[w.tick_next])
  /\ w.contains /\ w.array = get_array_start_index(w.tick_next)
  /\ IF w.zero_for_one
     THEN /\ w.tick_next <= w.tick /\ SqrtPrice[w.tick_next] <= w.sqrt_price
          /\ \A t \in Initialized(w.ticks) : ~(w.tick_next < t /\ t <= w.tick)
     ELSE /\ w.tick < w.tick_next /\ w.sqrt_price <= SqrtPrice[w.tick_next]
          /\ \A t \in Initialized(w.ticks) : ~(w.tick < t /\ t < w.tick_next)

\* A tick that a match has emptied is still counted until it is passed.
Counted(w) == Initialized(w.ticks) \cup (IF w.stage = "pass" THEN {w.tick_next} ELSE {})

SwapInv(w, pos) ==
  /\ w \in SwapState
  /\ SumsHold(pos, w.ticks) /\ OrdersOK(w.ticks)
  /\ CountsHold(Counted(w), w.count, w.bitmap)
  /\ w.liquidity = Active(pos, w.tick)
  /\ w.tick < MaxTick
  /\ w.stage \in {"search", "compute"} => PriceIn(w.tick, w.sqrt_price)
  /\ SqrtPrice[MinTick] < w.limit /\ w.limit < SqrtPrice[MaxTick]
  /\ IF w.zero_for_one THEN w.limit <= w.sqrt_price /\ w.sqrt_price < SqrtPrice[MaxTick]
     ELSE SqrtPrice[MinTick] <= w.sqrt_price /\ w.sqrt_price <= w.limit
  /\ w.total_fee_rate = w.trade_fee_rate
  /\ \/ Orders = {}
     \/ w.base_input /\ is_fee_on_input(w.zero_for_one) => w.trade_fee_rate = 0
  /\ w.stage = "search" /\ loop_continues(w) => Located(w)
  /\ w.stage # "search" => Ahead(w)
  /\ w.stage \in {"match", "pass"} => w.sqrt_price = SqrtPrice[w.tick_next]
  /\ w.stage = "pass" => w.remaining = 0 \/ unfilled(w.ticks[w.tick_next].orders) = 0

IInv ==
  /\ PoolInv(pool, ticks, count, bitmap, position)
  /\ status \subseteq AllOperations
  /\ swap.running => SwapInv(swap, position)

(***************************************************************************)
(* Prices and ticks.                                                       *)
(***************************************************************************)
\* The largest and the smallest element of a set of integers within bounds.
LEMMA Extremes ==
  ASSUME NEW a \in Int, NEW b \in Int, NEW S \in SUBSET (a .. b), S # {}
  PROVE  /\ Max(S) \in S /\ \A x \in S : Max(S) >= x
         /\ Min(S) \in S /\ \A x \in S : Min(S) <= x
<1>1. \E x \in S : \A y \in S : x >= y
  <2> DEFINE D == {b - x : x \in S}
  <2>1. D \in SUBSET Nat /\ D # {}
    OBVIOUS
  <2>2. PICK d \in D : \A e \in D : d <= e
    <3> HIDE DEF D
    <3> QED BY <2>1, SmallestElement
  <2>3. PICK x \in S : d = b - x
    BY <2>2
  <2>4. ASSUME NEW y \in S PROVE x >= y
    <3>1. b - x <= b - y
      BY <2>2, <2>3
    <3> QED BY <3>1
  <2> QED BY <2>4
<1>2. \E x \in S : \A y \in S : x <= y
  <2> DEFINE D == {x - a : x \in S}
  <2>1. D \in SUBSET Nat /\ D # {}
    OBVIOUS
  <2>2. PICK d \in D : \A e \in D : d <= e
    <3> HIDE DEF D
    <3> QED BY <2>1, SmallestElement
  <2>3. PICK x \in S : d = x - a
    BY <2>2
  <2>4. ASSUME NEW y \in S PROVE x <= y
    <3>1. x - a <= y - a
      BY <2>2, <2>3
    <3> QED BY <3>1
  <2> QED BY <2>4
<1> QED BY <1>1, <1>2 DEF Max, Min

\* Prices increase from tick to tick.
LEMMA PriceOrder ==
  /\ \A t \in Ticks : SqrtPrice[t] \in Nat /\ SqrtPrice[t] > 0 /\ t \in Int
  /\ \A t, u \in Ticks : t < u => SqrtPrice[t] < SqrtPrice[u]
<1>1. \A t \in Ticks : SqrtPrice[t] \in Nat /\ SqrtPrice[t] > 0 /\ t \in Int
  BY TickAssumption DEF Ticks
<1>2. MinTick \in Int /\ MaxTick \in Int
  BY TickAssumption
<1> DEFINE U == {n \in Nat : \A t \in Ticks : t + n + 1 \in Ticks =>
                                SqrtPrice[t] < SqrtPrice[t + n + 1]}
<1>3. 0 \in U
  <2> SUFFICES ASSUME NEW t \in Ticks, t + 0 + 1 \in Ticks
               PROVE  SqrtPrice[t] < SqrtPrice[t + 0 + 1]
    OBVIOUS
  <2>1. t \in MinTick .. (MaxTick - 1) /\ t + 0 + 1 = t + 1
    BY <1>2 DEF Ticks
  <2> QED BY <2>1, TickAssumption
<1>4. ASSUME NEW n \in Nat, n \in U PROVE n + 1 \in U
  <2> SUFFICES ASSUME NEW t \in Ticks, t + (n + 1) + 1 \in Ticks
               PROVE  SqrtPrice[t] < SqrtPrice[t + (n + 1) + 1]
    OBVIOUS
  <2> DEFINE m == t + n + 1
  <2>1. m \in MinTick .. (MaxTick - 1) /\ m \in Ticks /\ t + (n + 1) + 1 = m + 1
    BY <1>2 DEF Ticks
  <2>2. SqrtPrice[t] < SqrtPrice[m]
    BY <1>4, <2>1
  <2>3. SqrtPrice[m] < SqrtPrice[m + 1] /\ m + 1 \in Ticks
    BY <2>1, TickAssumption
  <2> HIDE DEF m
  <2>4. SqrtPrice[t] < SqrtPrice[m + 1]
    BY <1>1, <2>1, <2>2, <2>3
  <2> QED BY <2>1, <2>4
<1> HIDE DEF U
<1>5. Nat \subseteq U
  BY <1>3, <1>4, CountingInduction
<1>6. ASSUME NEW t \in Ticks, NEW u \in Ticks, t < u PROVE SqrtPrice[t] < SqrtPrice[u]
  <2> DEFINE n == u - t - 1
  <2>1. n \in Nat /\ u = t + n + 1
    BY <1>6, <1>2 DEF Ticks
  <2> QED BY <1>5, <2>1 DEF U
<1> QED BY <1>1, <1>6

\* A price of a pool lies in one tick.
LEMMA TickAtPrice ==
  ASSUME NEW p \in Nat, SqrtPrice[MinTick] <= p, p < SqrtPrice[MaxTick]
  PROVE  LET t == get_tick_at_sqrt_price(p)
         IN  /\ t \in Ticks /\ t < MaxTick /\ t + 1 \in Ticks
             /\ SqrtPrice[t] <= p /\ p < SqrtPrice[t + 1]
<1> DEFINE S == {t \in Ticks : SqrtPrice[t] <= p}
           t == Max(S)
<1>1. MinTick \in Int /\ MaxTick \in Int /\ MinTick \in Ticks /\ MaxTick \in Ticks
  BY TickAssumption DEF Ticks
<1>2. S \in SUBSET (MinTick .. MaxTick) /\ MinTick \in S
  BY <1>1 DEF Ticks
<1>3. t \in S /\ \A x \in S : t >= x
  <2> HIDE DEF S
  <2> QED BY <1>1, <1>2, Extremes
<1>4. get_tick_at_sqrt_price(p) = t
  BY DEF get_tick_at_sqrt_price
<1> HIDE DEF t
<1>5. t \in Ticks /\ SqrtPrice[t] <= p /\ t \in Int
  BY <1>1, <1>3 DEF Ticks
<1>6. t # MaxTick
  BY <1>5, <1>1, PriceOrder
<1>7. t < MaxTick /\ t + 1 \in Ticks
  BY <1>1, <1>5, <1>6 DEF Ticks
<1>8. t + 1 \notin S
  BY <1>3, <1>5
<1>9. p < SqrtPrice[t + 1]
  BY <1>7, <1>8, PriceOrder
<1> QED BY <1>4, <1>5, <1>7, <1>9

(***************************************************************************)
(* Sums of liquidity.                                                      *)
(***************************************************************************)
\* What is known of a position.
LEMMA PositionType ==
  ASSUME NEW pos, PositionsOK(pos), NEW p \in Positions
  PROVE  /\ pos[p].open \in BOOLEAN
         /\ ~pos[p].open => pos[p] = NoPosition
         /\ pos[p].open => /\ pos[p] \in PositionState
                           /\ pos[p].liquidity \in Nat
                           /\ pos[p].lower \in Ticks /\ pos[p].upper \in Ticks
                           /\ pos[p].lower \in Int /\ pos[p].upper \in Int
                           /\ pos[p].lower < pos[p].upper
<1>1. pos[p] \in PositionState \cup {NoPosition}
  BY DEF PositionsOK
<1>2. CASE pos[p] \in PositionState
  BY <1>2, PriceOrder DEF PositionState, PositionsOK
<1>3. CASE pos[p] = NoPosition
  BY <1>3 DEF NoPosition
<1> QED BY <1>1, <1>2, <1>3

\* The sums are natural numbers, and no position has more than them.
LEMMA SumsNat ==
  ASSUME NEW pos, PositionsOK(pos), NEW t \in Int
  PROVE  /\ \A p \in Positions : /\ lower_of(pos, t)[p] \in Nat
                                 /\ upper_of(pos, t)[p] \in Nat
                                 /\ active_of(pos, t)[p] \in Nat
         /\ Lower(pos, t) \in Nat /\ Upper(pos, t) \in Nat /\ Active(pos, t) \in Nat
         /\ \A p \in Positions : /\ lower_of(pos, t)[p] <= Lower(pos, t)
                                 /\ upper_of(pos, t)[p] <= Upper(pos, t)
<1>0. IsFiniteSet(Positions)
  BY InputAssumption
<1>1. \A p \in Positions : /\ lower_of(pos, t)[p] \in Nat
                           /\ upper_of(pos, t)[p] \in Nat
                           /\ active_of(pos, t)[p] \in Nat
  BY PositionType DEF lower_of, upper_of, active_of
<1>2. Lower(pos, t) \in Nat /\ \A p \in Positions : lower_of(pos, t)[p] <= Lower(pos, t)
  BY <1>0, <1>1, SumNat DEF Lower
<1>3. Upper(pos, t) \in Nat /\ \A p \in Positions : upper_of(pos, t)[p] <= Upper(pos, t)
  BY <1>0, <1>1, SumNat DEF Upper
<1>4. Active(pos, t) \in Nat
  BY <1>0, <1>1, SumNat DEF Active
<1> QED BY <1>1, <1>2, <1>3, <1>4

\* Entering a tick from below makes active what begins there and no longer what
\* ends there.
LEMMA CrossSum ==
  ASSUME NEW pos, PositionsOK(pos), NEW t \in Int
  PROVE  Active(pos, t) = Active(pos, t - 1) + Lower(pos, t) - Upper(pos, t)
<1>0. IsFiniteSet(Positions) /\ t - 1 \in Int
  BY InputAssumption
<1> DEFINE f == active_of(pos, t)
           g == active_of(pos, t - 1)
           l == lower_of(pos, t)
           u == upper_of(pos, t)
           h == [p \in Positions |-> f[p] + u[p]]
<1>1. \A p \in Positions : f[p] \in Int /\ g[p] \in Int /\ l[p] \in Int /\ u[p] \in Int
  <2>1. \A p \in Positions : f[p] \in Nat /\ l[p] \in Nat /\ u[p] \in Nat
    BY SumsNat
  <2>2. \A p \in Positions : g[p] \in Nat
    <3> DEFINE s == t - 1
    <3>1. s \in Int /\ g = active_of(pos, s)
      OBVIOUS
    <3> HIDE DEF s, g
    <3> QED BY <3>1, SumsNat
  <2> HIDE DEF f, g, l, u
  <2> QED BY <2>1, <2>2
<1>2. ASSUME NEW p \in Positions PROVE f[p] + u[p] = g[p] + l[p]
  <2>1. CASE ~pos[p].open
    BY <2>1 DEF active_of, lower_of, upper_of
  <2>2. CASE pos[p].open
    <3> DEFINE a == pos[p].lower
               b == pos[p].upper
               n == pos[p].liquidity
    <3>1. a \in Int /\ b \in Int /\ a < b /\ n \in Nat
      BY <2>2, PositionType
    <3>2. /\ f[p] = IF a <= t /\ t < b THEN n ELSE 0
          /\ g[p] = IF a <= t - 1 /\ t - 1 < b THEN n ELSE 0
          /\ l[p] = IF a = t THEN n ELSE 0
          /\ u[p] = IF b = t THEN n ELSE 0
      BY <2>2 DEF active_of, lower_of, upper_of, in_range
    <3> HIDE DEF a, b, n, f, g, l, u
    <3> QED BY <3>1, <3>2
  <2> QED BY <2>1, <2>2, PositionType
<1> HIDE DEF f, g, l, u
<1>3. SumFunctionOnSet(h, Positions) = SumFunctionOnSet(f, Positions) + SumFunctionOnSet(u, Positions)
  BY <1>0, <1>1, SumPlus
<1>4. SumFunctionOnSet(h, Positions) = SumFunctionOnSet(g, Positions) + SumFunctionOnSet(l, Positions)
  <2>1. \A p \in Positions : h[p] = g[p] + l[p]
    BY <1>2
  <2> HIDE DEF h
  <2> QED BY <1>0, <1>1, <2>1, SumPlus
<1>5. /\ SumFunctionOnSet(f, Positions) = Active(pos, t) /\ Active(pos, t) \in Int
      /\ SumFunctionOnSet(g, Positions) = Active(pos, t - 1) /\ Active(pos, t - 1) \in Int
      /\ SumFunctionOnSet(l, Positions) = Lower(pos, t) /\ Lower(pos, t) \in Int
      /\ SumFunctionOnSet(u, Positions) = Upper(pos, t) /\ Upper(pos, t) \in Int
  BY <1>0, SumsNat DEF f, g, l, u, Active, Lower, Upper
<1> QED BY <1>3, <1>4, <1>5

\* Between ticks at which no liquidity begins or ends the same is active.
LEMMA NothingBetween ==
  ASSUME NEW pos, PositionsOK(pos), NEW a \in Int, NEW b \in Int, a <= b,
         \A t \in Ticks : a < t /\ t <= b => Lower(pos, t) = 0 /\ Upper(pos, t) = 0
  PROVE  Active(pos, a) = Active(pos, b)
<1>1. ASSUME NEW p \in Positions PROVE active_of(pos, a)[p] = active_of(pos, b)[p]
  <2>1. CASE ~pos[p].open
    BY <2>1 DEF active_of
  <2>2. CASE pos[p].open
    <3> DEFINE l == pos[p].lower
               u == pos[p].upper
               n == pos[p].liquidity
    <3>1. l \in Ticks /\ u \in Ticks /\ l \in Int /\ u \in Int /\ l < u /\ n \in Nat
      BY <2>2, PositionType
    <3>2. n <= Lower(pos, l) /\ n <= Upper(pos, u)
      <4>1. lower_of(pos, l)[p] = n /\ upper_of(pos, u)[p] = n
        BY <2>2 DEF lower_of, upper_of
      <4> HIDE DEF l, u, n
      <4> QED BY <3>1, <4>1, SumsNat
    <3>3. Lower(pos, l) \in Nat /\ Upper(pos, u) \in Nat
      BY <3>1, SumsNat
    <3>4. /\ active_of(pos, a)[p] = IF l <= a /\ a < u THEN n ELSE 0
          /\ active_of(pos, b)[p] = IF l <= b /\ b < u THEN n ELSE 0
      BY <2>2 DEF active_of, in_range
    <3> HIDE DEF l, u, n
    <3>5. (a < l /\ l <= b) => n = 0
      BY <3>1, <3>2, <3>3
    <3>6. (a < u /\ u <= b) => n = 0
      BY <3>1, <3>2, <3>3
    <3> QED BY <3>1, <3>4, <3>5, <3>6
  <2> QED BY <2>1, <2>2, PositionType
<1>2. IsFiniteSet(Positions)
  BY InputAssumption
<1> QED BY <1>1, <1>2, SumEqual DEF Active

\* pos becomes qos: position p, which exists then, has d more liquidity.
Grows(pos, qos, p, lo, up, d) ==
  /\ \A q \in Positions : q # p => qos[q] = pos[q]
  /\ qos[p].open /\ qos[p].lower = lo /\ qos[p].upper = up
  /\ \/ /\ pos[p].open /\ pos[p].lower = lo /\ pos[p].upper = up
        /\ qos[p].liquidity = pos[p].liquidity + d
     \/ ~pos[p].open /\ qos[p].liquidity = d

LEMMA GrownSums ==
  ASSUME NEW pos, NEW qos, PositionsOK(pos), PositionsOK(qos), NEW p \in Positions,
         NEW lo, NEW up, NEW d \in Int, Grows(pos, qos, p, lo, up, d), NEW t \in Int
  PROVE  /\ Lower(qos, t) = Lower(pos, t) + (IF t = lo THEN d ELSE 0)
         /\ Upper(qos, t) = Upper(pos, t) + (IF t = up THEN d ELSE 0)
         /\ Active(qos, t) = Active(pos, t) + (IF in_range(lo, up, t) THEN d ELSE 0)
<1>0. IsFiniteSet(Positions)
  BY InputAssumption
<1>1. \A q \in Positions : q # p => /\ lower_of(pos, t)[q] = lower_of(qos, t)[q]
                                    /\ upper_of(pos, t)[q] = upper_of(qos, t)[q]
                                    /\ active_of(pos, t)[q] = active_of(qos, t)[q]
  BY DEF Grows, lower_of, upper_of, active_of
<1>2. /\ lower_of(qos, t)[p] = lower_of(pos, t)[p] + (IF t = lo THEN d ELSE 0)
      /\ upper_of(qos, t)[p] = upper_of(pos, t)[p] + (IF t = up THEN d ELSE 0)
      /\ active_of(qos, t)[p] = active_of(pos, t)[p] + (IF in_range(lo, up, t) THEN d ELSE 0)
  <2>1. pos[p].open => pos[p].liquidity \in Int
    BY PositionType
  <2>2. pos[p].open \in BOOLEAN
    BY PositionType
  <2>3. CASE pos[p].open
    BY <2>1, <2>3 DEF Grows, lower_of, upper_of, active_of
  <2>4. CASE ~pos[p].open
    BY <2>4 DEF Grows, lower_of, upper_of, active_of
  <2> QED BY <2>2, <2>3, <2>4
<1>3. \A q \in Positions : /\ lower_of(pos, t)[q] \in Int /\ lower_of(qos, t)[q] \in Int
                           /\ upper_of(pos, t)[q] \in Int /\ upper_of(qos, t)[q] \in Int
                           /\ active_of(pos, t)[q] \in Int /\ active_of(qos, t)[q] \in Int
  BY SumsNat
<1>4. /\ Lower(pos, t) \in Int /\ Upper(pos, t) \in Int /\ Active(pos, t) \in Int
  BY SumsNat
<1>5. Lower(qos, t) = (Lower(pos, t) - lower_of(pos, t)[p]) + lower_of(qos, t)[p]
  <2> DEFINE f == lower_of(pos, t)
             g == lower_of(qos, t)
  <2> HIDE DEF f, g
  <2>1. SumFunctionOnSet(g, Positions) = (SumFunctionOnSet(f, Positions) - f[p]) + g[p]
    BY <1>0, <1>1, <1>3, SumUpdate DEF f, g
  <2> QED BY <2>1 DEF Lower, f, g
<1>6. Upper(qos, t) = (Upper(pos, t) - upper_of(pos, t)[p]) + upper_of(qos, t)[p]
  <2> DEFINE f == upper_of(pos, t)
             g == upper_of(qos, t)
  <2> HIDE DEF f, g
  <2>1. SumFunctionOnSet(g, Positions) = (SumFunctionOnSet(f, Positions) - f[p]) + g[p]
    BY <1>0, <1>1, <1>3, SumUpdate DEF f, g
  <2> QED BY <2>1 DEF Upper, f, g
<1>7. Active(qos, t) = (Active(pos, t) - active_of(pos, t)[p]) + active_of(qos, t)[p]
  <2> DEFINE f == active_of(pos, t)
             g == active_of(qos, t)
  <2> HIDE DEF f, g
  <2>1. SumFunctionOnSet(g, Positions) = (SumFunctionOnSet(f, Positions) - f[p]) + g[p]
    BY <1>0, <1>1, <1>3, SumUpdate DEF f, g
  <2> QED BY <2>1 DEF Active, f, g
<1>8. ASSUME NEW x \in Int, NEW y \in Int, NEW z, NEW s \in Int, NEW r, z = y + s, r = (x - y) + z
      PROVE  r = x + s
  BY <1>8
<1>9. /\ (IF t = lo THEN d ELSE 0) \in Int /\ (IF t = up THEN d ELSE 0) \in Int
      /\ (IF in_range(lo, up, t) THEN d ELSE 0) \in Int
  OBVIOUS
<1> QED BY <1>2, <1>3, <1>4, <1>5, <1>6, <1>7, <1>9

(***************************************************************************)
(* Tick arrays: the counts, the bitmap and the search.                     *)
(***************************************************************************)
\* Division rounds down: it keeps the order and takes single steps.
LEMMA DivSteps ==
  ASSUME NEW d \in Nat \ {0}, NEW x \in Int, NEW y \in Int, x <= y
  PROVE  /\ x \div d \in Int /\ y \div d \in Int /\ x \div d <= y \div d
         /\ (x + 1) \div d = x \div d \/ (x + 1) \div d = x \div d + 1
OBVIOUS

\* The arrays follow the order of the ticks.
LEMMA ArrayOrder ==
  /\ \A t \in Ticks : get_array_start_index(t) \in Arrays
  /\ \A t \in Int : get_array_start_index(t) \in Int
  /\ \A t, u \in Int : t <= u => get_array_start_index(t) <= get_array_start_index(u)
  /\ \A t \in Int : \/ get_array_start_index(t + 1) = get_array_start_index(t)
                    \/ get_array_start_index(t + 1) = get_array_start_index(t) + 1
<1>0. TickArraySize \in Nat \ {0} /\ MinTick \in Int /\ MaxTick \in Int /\ Ticks \subseteq Int
  BY TickAssumption DEF Ticks
<1>1. \A t, u \in Int : t <= u => get_array_start_index(t) <= get_array_start_index(u)
  BY <1>0, DivSteps DEF get_array_start_index
<1>2. \A t \in Int : get_array_start_index(t) \in Int
  <2> SUFFICES ASSUME NEW t \in Int PROVE get_array_start_index(t) \in Int
    OBVIOUS
  <2>1. t <= t
    OBVIOUS
  <2> QED BY <2>1, <1>0, DivSteps DEF get_array_start_index
<1>3. \A t \in Int : \/ get_array_start_index(t + 1) = get_array_start_index(t)
                     \/ get_array_start_index(t + 1) = get_array_start_index(t) + 1
  <2> SUFFICES ASSUME NEW t \in Int
               PROVE  \/ get_array_start_index(t + 1) = get_array_start_index(t)
                      \/ get_array_start_index(t + 1) = get_array_start_index(t) + 1
    OBVIOUS
  <2>1. t <= t
    OBVIOUS
  <2> QED BY <2>1, <1>0, DivSteps DEF get_array_start_index
<1>4. \A t \in Ticks : get_array_start_index(t) \in Arrays
  <2> SUFFICES ASSUME NEW t \in Ticks PROVE get_array_start_index(t) \in Arrays
    OBVIOUS
  <2>1. MinTick <= t /\ t <= MaxTick /\ t \in Int
    BY <1>0 DEF Ticks
  <2> QED BY <2>1, <1>0, <1>1, <1>2 DEF Arrays
<1> QED BY <1>1, <1>2, <1>3, <1>4

LEMMA TicksFinite == IsFiniteSet(Ticks) /\ \A S \in SUBSET Ticks : IsFiniteSet(S)
<1>1. IsFiniteSet(Ticks)
  BY TickAssumption, FS_Interval DEF Ticks
<1> QED BY <1>1, FS_Subset

\* A set R of ticks is S with one tick more, or one less.
OneTick(S, R, t, add) ==
  /\ add => t \notin S /\ R = S \cup {t}
  /\ ~add => t \in S /\ R = S \ {t}

\* Counts and bitmap follow when one tick joins or leaves.
LEMMA CountsFollow ==
  ASSUME NEW S \in SUBSET Ticks, NEW R \in SUBSET Ticks, NEW c \in [Arrays -> Nat],
         NEW b \in SUBSET Arrays, CountsHold(S, c, b), NEW t \in Ticks, NEW add \in BOOLEAN,
         OneTick(S, R, t, add)
  PROVE  /\ counted(c, t, add) \in [Arrays -> Nat]
         /\ flipped_bitmap(b, c, t, add) \in SUBSET Arrays
         /\ CountsHold(R, counted(c, t, add), flipped_bitmap(b, c, t, add))
<1> DEFINE a0 == get_array_start_index(t)
           n == IF add THEN c[a0] + 1 ELSE c[a0] - 1
           b2 == flipped_bitmap(b, c, t, add)
<1>0. a0 \in Arrays
  BY ArrayOrder
<1>1. /\ \A a \in Arrays : /\ c[a] \in Nat /\ c[a] = Cardinality(in_array(S, a))
                           /\ (a \in b) <=> (c[a] > 0)
  BY DEF CountsHold
<1>2. counted(c, t, add) = [c EXCEPT ![a0] = n]
  BY <1>0 DEF counted
<1>3. \A a \in Arrays : a # a0 => in_array(R, a) = in_array(S, a)
  BY DEF in_array, OneTick
<1>4. IsFiniteSet(in_array(S, a0)) /\ IsFiniteSet(in_array(R, a0))
  <2>1. in_array(S, a0) \in SUBSET Ticks /\ in_array(R, a0) \in SUBSET Ticks
    BY DEF in_array
  <2> QED BY <2>1, TicksFinite
<1>5. Cardinality(in_array(R, a0)) = n /\ n \in Nat
  <2>1. CASE add
    <3>1. t \notin in_array(S, a0) /\ in_array(R, a0) = in_array(S, a0) \cup {t}
      BY <2>1 DEF in_array, OneTick
    <3>2. Cardinality(in_array(R, a0)) = Cardinality(in_array(S, a0)) + 1
      BY <3>1, <1>4, FS_AddElement
    <3> QED BY <3>2, <2>1, <1>0, <1>1
  <2>2. CASE ~add
    <3>1. t \in in_array(S, a0) /\ in_array(R, a0) = in_array(S, a0) \ {t}
      BY <2>2 DEF in_array, OneTick
    <3>2. Cardinality(in_array(S, a0)) = Cardinality(in_array(S, a0) \ {t}) + 1
          /\ Cardinality(in_array(S, a0) \ {t}) \in Nat
      <4> DEFINE Q == in_array(S, a0)
      <4>1. IsFiniteSet(Q) /\ t \in Q
        BY <3>1, <1>4
      <4> HIDE DEF Q
      <4>2. Cardinality(Q) = Cardinality(Q \ {t}) + 1 /\ Cardinality(Q \ {t}) \in Nat
        BY <4>1, CardinalityRemove
      <4> QED BY <4>2 DEF Q
    <3> QED BY <3>1, <3>2, <2>2, <1>0, <1>1
  <2> QED BY <2>1, <2>2
<1>6. \A a \in Arrays : (a \in b2) <=> (IF a = a0 THEN n > 0 ELSE c[a] > 0)
  <2>1. b2 = IF c[a0] = (IF add THEN 0 ELSE 1) THEN (IF a0 \in b THEN b \ {a0} ELSE b \cup {a0}) ELSE b
    BY DEF flipped_bitmap
  <2> HIDE DEF b2, a0
  <2>2. CASE add
    BY <2>1, <2>2, <1>0, <1>1
  <2>3. CASE ~add
    BY <2>1, <2>3, <1>0, <1>1, <1>5
  <2> QED BY <2>2, <2>3
<1>7. b2 \in SUBSET Arrays
  BY <1>0 DEF flipped_bitmap
<1> HIDE DEF n, a0, b2
<1>8. [c EXCEPT ![a0] = n] \in [Arrays -> Nat]
  BY <1>5
<1>9. ASSUME NEW a \in Arrays
      PROVE  /\ [c EXCEPT ![a0] = n][a] = Cardinality(in_array(R, a))
             /\ (a \in b2) = ([c EXCEPT ![a0] = n][a] > 0)
  BY <1>0, <1>1, <1>3, <1>5, <1>6
<1>10. CountsHold(R, [c EXCEPT ![a0] = n], b2)
  BY <1>9 DEF CountsHold
<1> QED BY <1>2, <1>7, <1>8, <1>10 DEF b2

\* The bitmap shows the arrays that hold ticks of S.
LEMMA BitmapShows ==
  ASSUME NEW S \in SUBSET Ticks, NEW c, NEW b, CountsHold(S, c, b), NEW a \in Arrays
  PROVE  a \in b <=> \E t \in S : get_array_start_index(t) = a
<1> DEFINE Q == in_array(S, a)
<1>1. IsFiniteSet(Q)
  <2>1. Q \in SUBSET Ticks
    BY DEF in_array
  <2> QED BY <2>1, TicksFinite
<1>2. a \in b <=> Cardinality(Q) > 0
  BY DEF CountsHold
<1>3. Cardinality(Q) = 0 <=> Q = {}
  <2> HIDE DEF Q
  <2> QED BY <1>1, FS_EmptySet
<1>4. Cardinality(Q) \in Nat
  <2> HIDE DEF Q
  <2> QED BY <1>1, FS_CardinalityType
<1>5. Q # {} <=> \E t \in S : get_array_start_index(t) = a
  BY DEF in_array
<1> HIDE DEF Q
<1> QED BY <1>2, <1>3, <1>4, <1>5

\* The bitmap's next array is the nearest one beyond a.
LEMMA NextArray ==
  ASSUME NEW b \in SUBSET Arrays, NEW a \in Int, NEW z \in BOOLEAN
  PROVE  \/ /\ next_tick_array_index(b, a, z) = {}
            /\ \A c \in b : IF z THEN c >= a ELSE c <= a
         \/ \E m \in b : /\ next_tick_array_index(b, a, z) = {m}
                         /\ IF z THEN m < a /\ \A c \in b : c < a => c <= m
                            ELSE m > a /\ \A c \in b : c > a => m <= c
<1> DEFINE first == get_array_start_index(MinTick)
           last == get_array_start_index(MaxTick)
           beyond == {c \in b : IF z THEN c < a ELSE c > a}
<1>1. first \in Int /\ last \in Int /\ Arrays = first .. last
  BY ArrayOrder, TickAssumption DEF Arrays
<1>2. next_tick_array_index(b, a, z) = IF beyond = {} THEN {} ELSE {nearest(beyond, z)}
  BY DEF next_tick_array_index
<1> HIDE DEF first, last
<1>3. beyond \in SUBSET (first .. last) /\ \A c \in b : c \in Int
  <2>1. \A c \in b : c \in first .. last
    BY <1>1
  <2>2. beyond \subseteq b
    OBVIOUS
  <2> HIDE DEF beyond
  <2> QED BY <2>1, <2>2, <1>1
<1>4. CASE beyond = {}
  BY <1>2, <1>3, <1>4
<1>5. CASE beyond # {}
  <2>1. /\ Max(beyond) \in beyond /\ \A x \in beyond : Max(beyond) >= x
        /\ Min(beyond) \in beyond /\ \A x \in beyond : Min(beyond) <= x
    <3> HIDE DEF beyond
    <3> QED BY <1>1, <1>3, <1>5, Extremes
  <2>2. next_tick_array_index(b, a, z) = {nearest(beyond, z)}
    BY <1>2, <1>5
  <2>3. CASE z
    <3> DEFINE m == Max(beyond)
    <3>1. nearest(beyond, z) = m
      BY <2>3 DEF nearest
    <3> HIDE DEF m
    <3>2. m \in b /\ m < a /\ \A c \in b : c < a => c <= m
      BY <2>1, <2>3, <1>3 DEF m
    <3> QED BY <2>2, <2>3, <3>1, <3>2
  <2>4. CASE ~z
    <3> DEFINE m == Min(beyond)
    <3>1. nearest(beyond, z) = m
      BY <2>4 DEF nearest
    <3> HIDE DEF m
    <3>2. m \in b /\ m > a /\ \A c \in b : c > a => m <= c
      BY <2>1, <2>4, <1>3 DEF m
    <3> QED BY <2>2, <2>4, <3>1, <3>2
  <2> QED BY <2>3, <2>4
<1> QED BY <1>4, <1>5

LEMMA SwapFields ==
  ASSUME NEW w \in SwapState
  PROVE  /\ w.running = TRUE /\ w.zero_for_one \in BOOLEAN /\ w.base_input \in BOOLEAN
         /\ w.amount \in Nat /\ w.trade_fee_rate \in Rates /\ w.total_fee_rate \in Rates
         /\ w.tick_spacing_index \in Int /\ w.dynamic_fee = NoFeeConfig /\ w.limit \in Nat
         /\ w.partial \in BOOLEAN /\ w.remaining \in Nat /\ w.calculated \in Int
         /\ w.sqrt_price \in Nat /\ w.tick \in Ticks /\ w.tick \in Int /\ w.liquidity \in Nat
         /\ w.tick_next \in Int /\ w.fee_growth \in Growths /\ w.lp_fee \in Int
         /\ w.protocol_fee \in Nat /\ w.fund_fee \in Nat
         /\ w.stage \in {"search", "compute", "match", "pass"} /\ w.array \in Int
         /\ w.contains \in BOOLEAN /\ w.ticks \in [Ticks -> TickState]
         /\ w.count \in [Arrays -> Nat] /\ w.bitmap \in SUBSET Arrays
         /\ w.order_in \in Int /\ w.order_out \in Int
<1>1. w.tick \in Ticks
  BY DEF SwapState
<1> QED BY <1>1, PriceOrder DEF SwapState

\* The search: what it finds is initialized and ahead, and nothing is nearer.
LEMMA SearchNearest ==
  ASSUME NEW w \in SwapState, CountsHold(Initialized(w.ticks), w.count, w.bitmap), Located(w)
  PROVE  /\ \A u \in found_ticks(w) : /\ u \in Initialized(w.ticks)
                                      /\ ahead(u, w.tick, w.zero_for_one)
         /\ \A t \in Initialized(w.ticks) :
              ahead(t, w.tick, w.zero_for_one) =>
                \E u \in found_ticks(w) : IF w.zero_for_one THEN t <= u ELSE u <= t
<1> DEFINE I == Initialized(w.ticks)
           T == w.tick
           z == w.zero_for_one
           r == w.array
           a == get_array_start_index(T)
           G(t) == get_array_start_index(t)
           H == found_here(w)
           N == next_tick_array_index(w.bitmap, r, z)
           M == next_tick_array_index(w.bitmap, a, z)
           F == found_ticks(w)
<1>0. /\ T \in Int /\ T \in Ticks /\ z \in BOOLEAN /\ r \in Int /\ w.contains \in BOOLEAN
      /\ w.bitmap \in SUBSET Arrays /\ a \in Int /\ a \in Arrays
  BY SwapFields, ArrayOrder
<1>1. I \in SUBSET Ticks /\ \A t \in I : t \in Int /\ G(t) \in Int /\ G(t) \in Arrays
  BY ArrayOrder, PriceOrder DEF Initialized
<1>2. \A c \in Arrays : c \in w.bitmap <=> \E t \in I : G(t) = c
  <2> HIDE DEF I
  <2>1. CountsHold(I, w.count, w.bitmap)
    BY DEF I
  <2> QED BY <1>1, <2>1, BitmapShows
<1>3. \A c : initialized_in(w.ticks, c) = {t \in I : G(t) = c}
  BY DEF initialized_in, Initialized
<1>4. H = IF a # r THEN {} ELSE {t \in I : G(t) = r /\ (IF z THEN t <= T ELSE t > T)}
  BY <1>3 DEF found_here, next_initialized_ticks, ahead
<1>5. F = IF H # {} THEN H
          ELSE IF ~w.contains THEN {t \in I : G(t) = r}
          ELSE {t \in I : G(t) \in N}
  <2>1. CASE H # {}
    BY <2>1 DEF found_ticks
  <2>2. CASE H = {} /\ ~w.contains
    BY <2>2, <1>3 DEF found_ticks, searched_array
  <2>3. CASE H = {} /\ w.contains
    BY <2>3, <1>3 DEF found_ticks, searched_array
  <2> QED BY <2>1, <2>2, <2>3, <1>0
<1>6. \A t, u \in Int : G(t) < G(u) => t < u
  BY ArrayOrder
<1>7. IF w.contains THEN \/ r = a
                         \/ z /\ r = a + 1 /\ G(T + 1) = a + 1
      ELSE a \notin w.bitmap /\ r \in M
  BY DEF Located
<1>8. \/ N = {} /\ \A c \in w.bitmap : IF z THEN c >= r ELSE c <= r
      \/ \E m \in w.bitmap : /\ N = {m}
                             /\ IF z THEN m < r /\ \A c \in w.bitmap : c < r => c <= m
                                ELSE m > r /\ \A c \in w.bitmap : c > r => m <= c
  BY <1>0, NextArray
<1>9. \/ M = {} /\ \A c \in w.bitmap : IF z THEN c >= a ELSE c <= a
      \/ \E m \in w.bitmap : /\ M = {m}
                             /\ IF z THEN m < a /\ \A c \in w.bitmap : c < a => c <= m
                                ELSE m > a /\ \A c \in w.bitmap : c > a => m <= c
  BY <1>0, NextArray
<1>10. \A t \in I : G(t) \in w.bitmap
  BY <1>1, <1>2
<1>11. \A c \in w.bitmap : c \in Int /\ \E t \in I : G(t) = c
  BY <1>0, <1>2, <1>1
<1>12. \A t \in I : G(t) = a /\ G(T + 1) = a + 1 => t <= T
  <2> SUFFICES ASSUME NEW t \in I, G(t) = a, G(T + 1) = a + 1, t > T PROVE FALSE
    BY <1>0, <1>1
  <2>1. t \in Int /\ T + 1 \in Int /\ T + 1 <= t
    BY <1>0, <1>1
  <2>2. G(T + 1) <= G(t)
    BY <2>1, ArrayOrder
  <2> QED BY <2>2, <1>0
<1> SUFFICES /\ \A u \in F : u \in I /\ (IF z THEN u <= T ELSE u > T)
             /\ \A t \in I : (IF z THEN t <= T ELSE t > T) =>
                   \E u \in F : IF z THEN t <= u ELSE u <= t
  BY DEF ahead
<1>13. \A t \in I : IF z THEN t <= T => G(t) <= a ELSE t > T => G(t) >= a
  BY <1>0, <1>1, ArrayOrder
<1>14. a = G(T)
  OBVIOUS
<1> HIDE DEF I, T, z, r, a, G, H, N, M, F
<1>15. CASE H # {}
  <2>1. F = {t \in I : G(t) = a /\ (IF z THEN t <= T ELSE t > T)} /\ F # {}
    BY <1>4, <1>5, <1>15
  <2>2. PICK u \in I : u \in F /\ G(u) = a
    BY <2>1
  <2>3. ASSUME NEW t \in I, IF z THEN t <= T ELSE t > T
        PROVE  \E v \in F : IF z THEN t <= v ELSE v <= t
    <3>1. CASE G(t) = a
      BY <2>1, <2>3, <3>1, <1>1
    <3>2. CASE G(t) # a
      <4>1. IF z THEN G(t) < G(u) ELSE G(u) < G(t)
        BY <2>2, <2>3, <3>2, <1>0, <1>1, <1>13
      <4> QED BY <4>1, <2>2, <1>1, <1>6
    <3> QED BY <3>1, <3>2
  <2> QED BY <2>1, <2>3
<1>16. CASE H = {} /\ ~w.contains
  <2>1. F = {t \in I : G(t) = r} /\ a \notin w.bitmap /\ r \in M
    BY <1>5, <1>7, <1>16
  <2>2. /\ r \in w.bitmap
        /\ IF z THEN r < a /\ \A c \in w.bitmap : c < a => c <= r
           ELSE r > a /\ \A c \in w.bitmap : c > a => r <= c
    BY <2>1, <1>9
  <2>3. \A u \in F : u \in I /\ (IF z THEN u <= T ELSE u > T)
    <3> SUFFICES ASSUME NEW u \in I, G(u) = r PROVE IF z THEN u < T ELSE T < u
      BY <2>1, <1>0, <1>1
    <3> QED BY <2>2, <1>0, <1>1, <1>6, <1>14
  <2>4. PICK v \in I : G(v) = r
    BY <2>2, <1>11
  <2>5. ASSUME NEW t \in I, IF z THEN t <= T ELSE t > T
        PROVE  \E u \in F : IF z THEN t <= u ELSE u <= t
    <3>1. G(t) \in w.bitmap /\ G(t) # a
      BY <1>10, <2>1
    <3>2. IF z THEN G(t) <= r ELSE r <= G(t)
      BY <3>1, <2>2, <2>5, <1>13, <1>0, <1>1
    <3>3. CASE G(t) = r
      BY <3>3, <2>1, <1>1
    <3>4. CASE G(t) # r
      <4>1. IF z THEN G(t) < G(v) ELSE G(v) < G(t)
        BY <3>2, <3>4, <2>4, <1>0, <1>1
      <4> QED BY <4>1, <2>1, <2>4, <1>1, <1>6
    <3> QED BY <3>3, <3>4
  <2> QED BY <2>3, <2>5
<1>17. CASE H = {} /\ w.contains
  <2>1. F = {t \in I : G(t) \in N}
    BY <1>5, <1>17
  <2>2. \/ r = a /\ \A t \in I : G(t) = a => ~(IF z THEN t <= T ELSE t > T)
        \/ z /\ r = a + 1 /\ G(T + 1) = a + 1
    BY <1>4, <1>7, <1>17
  <2>3. \A u \in F : u \in I /\ (IF z THEN u <= T ELSE u > T)
    <3> SUFFICES ASSUME NEW u \in I, G(u) \in N PROVE IF z THEN u <= T ELSE u > T
      BY <2>1
    <3>1. IF z THEN G(u) < r ELSE G(u) > r
      BY <1>8
    <3>2. CASE r = a
      <4>1. IF z THEN G(u) < G(T) ELSE G(T) < G(u)
        BY <3>1, <3>2, <1>14, <1>0, <1>1
      <4> QED BY <4>1, <1>0, <1>1, <1>6
    <3>3. CASE z /\ r = a + 1 /\ G(T + 1) = a + 1
      <4>1. G(u) = a \/ G(u) < G(T)
        BY <3>1, <3>3, <1>14, <1>0, <1>1
      <4> QED BY <4>1, <3>3, <1>0, <1>1, <1>6, <1>12
    <3> QED BY <2>2, <3>2, <3>3
  <2>4. ASSUME NEW t \in I, IF z THEN t <= T ELSE t > T
        PROVE  \E u \in F : IF z THEN t <= u ELSE u <= t
    <3>1. G(t) \in w.bitmap
      BY <1>10
    <3>2. IF z THEN G(t) < r ELSE G(t) > r
      BY <2>2, <2>4, <1>13, <1>0, <1>1
    <3>3. PICK m \in w.bitmap : N = {m} /\ (IF z THEN G(t) <= m ELSE m <= G(t))
      BY <3>1, <3>2, <1>8, <1>0, <1>1, <1>11
    <3>4. PICK v \in I : G(v) = m
      BY <1>11
    <3>5. v \in F
      BY <2>1, <3>3, <3>4
    <3>6. CASE G(t) = m
      BY <3>6, <2>1, <3>3, <1>1
    <3>7. CASE G(t) # m
      <4>1. IF z THEN G(t) < G(v) ELSE G(v) < G(t)
        BY <3>3, <3>4, <3>7, <1>0, <1>1
      <4> QED BY <4>1, <3>5, <1>1, <1>6
    <3> QED BY <3>6, <3>7
  <2> QED BY <2>3, <2>4
<1> QED BY <1>0, <1>15, <1>16, <1>17

(***************************************************************************)
(* The mathematics of one step.                                            *)
(***************************************************************************)
LEMMA DivNat ==
  ASSUME NEW x \in Nat, NEW d \in Nat \ {0}
  PROVE  x \div d \in Nat /\ d * (x \div d) <= x /\ x < d * (x \div d) + d
OBVIOUS

LEMMA MulNat ==
  ASSUME NEW x \in Nat, NEW y \in Nat
  PROVE  x * y \in Nat /\ (x > 0 /\ y > 0 => x * y > 0)
OBVIOUS

LEMMA MulOrder ==
  ASSUME NEW x \in Nat, NEW y \in Nat, NEW z \in Nat, x <= y
  PROVE  x * z <= y * z /\ z * x <= z * y
OBVIOUS

LEMMA FloorNat ==
  ASSUME NEW a \in Nat, NEW b \in Nat, NEW d \in Nat \ {0}
  PROVE  mul_div_floor(a, b, d) \in Nat /\ (a = 0 \/ b = 0 => mul_div_floor(a, b, d) = 0)
<1> DEFINE x == a * b
<1>1. x \in Nat /\ (a = 0 \/ b = 0 => x = 0)
  OBVIOUS
<1> HIDE DEF x
<1>2. x \div d \in Nat /\ (x = 0 => x \div d = 0)
  BY <1>1
<1> QED BY <1>1, <1>2 DEF mul_div_floor, x

LEMMA CeilNat ==
  ASSUME NEW a \in Nat, NEW b \in Nat, NEW d \in Nat \ {0}
  PROVE  mul_div_ceil(a, b, d) \in Nat /\ (a = 0 \/ b = 0 => mul_div_ceil(a, b, d) = 0)
<1> DEFINE x == a * b
<1>1. x \in Nat /\ (a = 0 \/ b = 0 => x = 0)
  OBVIOUS
<1> HIDE DEF x
<1>2. (x + d - 1) \div d \in Nat /\ (x = 0 => (x + d - 1) \div d = 0)
  BY <1>1
<1> QED BY <1>1, <1>2 DEF mul_div_ceil, x

LEMMA RoundUpNat ==
  ASSUME NEW a \in Nat, NEW d \in Nat \ {0}
  PROVE  div_rounding_up(a, d) \in Nat /\ (a = 0 => div_rounding_up(a, d) = 0)
<1>1. (a + d - 1) \div d \in Nat /\ (a = 0 => (a + d - 1) \div d = 0)
  OBVIOUS
<1> QED BY <1>1 DEF div_rounding_up

\* A quotient rounded up is at most, or at least, p if its exact value is.
LEMMA CeilAtMost ==
  ASSUME NEW n \in Nat, NEW p \in Nat, NEW d \in Nat \ {0}, n <= d
  PROVE  mul_div_ceil(n, p, d) <= p
<1> DEFINE x == n * p
           y == d * p
           q == (x + d - 1) \div d
<1>1. x \in Nat /\ y \in Nat /\ x <= y
  <2>1. x <= y
    BY MulOrder
  <2> QED BY <2>1
<1>2. q \in Nat /\ d * q <= x + d - 1
  <2> HIDE DEF x
  <2>1. x + d - 1 \in Nat
    BY <1>1
  <2> QED BY <2>1, DivNat
<1>3. mul_div_ceil(n, p, d) = q
  BY DEF mul_div_ceil
<1> HIDE DEF q
<1>4. ASSUME q >= p + 1 PROVE FALSE
  <2>1. d * (p + 1) <= d * q
    BY <1>2, <1>4, MulOrder
  <2>2. d * (p + 1) = y + d
    OBVIOUS
  <2> DEFINE v == d * q
  <2>3. v \in Nat
    BY <1>2, MulNat
  <2> HIDE DEF x, y, v
  <2> QED BY <1>1, <1>2, <2>1, <2>2, <2>3 DEF v
<1> QED BY <1>2, <1>3, <1>4

LEMMA CeilAtLeast ==
  ASSUME NEW n \in Nat, NEW p \in Nat, NEW d \in Nat \ {0}, d <= n
  PROVE  mul_div_ceil(n, p, d) >= p
<1> DEFINE x == n * p
           y == d * p
           q == (x + d - 1) \div d
<1>1. x \in Nat /\ y \in Nat /\ y <= x
  <2>1. y <= x
    BY MulOrder
  <2> QED BY <2>1
<1>2. q \in Nat /\ x + d - 1 < d * q + d
  <2> HIDE DEF x
  <2>1. x + d - 1 \in Nat
    BY <1>1
  <2> QED BY <2>1, DivNat
<1>3. mul_div_ceil(n, p, d) = q
  BY DEF mul_div_ceil
<1> HIDE DEF q
<1>4. ASSUME q + 1 <= p PROVE FALSE
  <2>1. d * (q + 1) <= d * p
    BY <1>2, <1>4, MulOrder
  <2>2. d * (q + 1) = d * q + d
    BY <1>2
  <2> DEFINE v == d * q
  <2>3. v \in Nat
    BY <1>2, MulNat
  <2> HIDE DEF x, v
  <2> QED BY <1>1, <1>2, <2>1, <2>2, <2>3 DEF v, y
<1> QED BY <1>2, <1>3, <1>4

RatesOK == /\ Q64 \in Nat \ {0} /\ Growth \in Nat \ {0} /\ FeeDenom \in Nat \ {0}
           /\ U64Max \in Nat /\ ProtocolFeeRate \in Nat /\ FundFeeRate \in Nat

LEMMA RatesTyped == RatesOK
BY RateAssumption DEF RatesOK

\* The amounts between two prices, in either direction.
LEMMA AmountsNat ==
  ASSUME NEW p \in Nat \ {0}, NEW q \in Nat \ {0}, NEW L \in Nat, NEW z \in BOOLEAN,
         IF z THEN q <= p ELSE p <= q
  PROVE  /\ amount_in_between(p, q, L, z) \in Nat /\ amount_out_between(p, q, L, z) \in Nat
         /\ L = 0 => amount_in_between(p, q, L, z) = 0 /\ amount_out_between(p, q, L, z) = 0
<1> DEFINE n == L * Q64
<1>1. n \in Nat /\ (L = 0 => n = 0) /\ Q64 \in Nat \ {0}
  BY RatesTyped DEF RatesOK
<1>2. ASSUME NEW a \in Nat \ {0}, NEW b \in Nat \ {0}, a <= b
      PROVE  /\ get_delta_amount_0_unsigned(a, b, L, TRUE) \in Nat
             /\ get_delta_amount_0_unsigned(a, b, L, FALSE) \in Nat
             /\ L = 0 => /\ get_delta_amount_0_unsigned(a, b, L, TRUE) = 0
                         /\ get_delta_amount_0_unsigned(a, b, L, FALSE) = 0
  <2> DEFINE c == mul_div_ceil(n, b - a, b)
             f == mul_div_floor(n, b - a, b)
  <2>1. b - a \in Nat
    BY <1>2
  <2> HIDE DEF n
  <2>2. c \in Nat /\ (L = 0 => c = 0) /\ f \in Nat /\ (L = 0 => f = 0)
    BY <1>1, <2>1, CeilNat, FloorNat
  <2> HIDE DEF c, f
  <2>3. div_rounding_up(c, a) \in Nat /\ (L = 0 => div_rounding_up(c, a) = 0)
    BY <2>2, RoundUpNat
  <2>4. f \div a \in Nat /\ (L = 0 => f \div a = 0)
    BY <2>2
  <2> QED BY <1>2, <2>3, <2>4 DEF get_delta_amount_0_unsigned, amount_0_between, c, f, n
<1>3. ASSUME NEW a \in Nat \ {0}, NEW b \in Nat \ {0}, a <= b
      PROVE  /\ get_delta_amount_1_unsigned(a, b, L, TRUE) \in Nat
             /\ get_delta_amount_1_unsigned(a, b, L, FALSE) \in Nat
             /\ L = 0 => /\ get_delta_amount_1_unsigned(a, b, L, TRUE) = 0
                         /\ get_delta_amount_1_unsigned(a, b, L, FALSE) = 0
  <2>1. b - a \in Nat
    BY <1>3
  <2>2. /\ mul_div_ceil(L, b - a, Q64) \in Nat /\ mul_div_floor(L, b - a, Q64) \in Nat
        /\ L = 0 => mul_div_ceil(L, b - a, Q64) = 0 /\ mul_div_floor(L, b - a, Q64) = 0
    BY <1>1, <2>1, CeilNat, FloorNat
  <2> QED BY <1>3, <2>2 DEF get_delta_amount_1_unsigned
<1>4. CASE z
  BY <1>2, <1>3, <1>4 DEF amount_in_between, amount_out_between
<1>5. CASE ~z
  BY <1>2, <1>3, <1>5 DEF amount_in_between, amount_out_between
<1> QED BY <1>4, <1>5

\* The arguments of a step of the swap: from p towards the target.
StepArgs(p, target, L, remaining, rate, base, z, on) ==
  /\ p \in Nat \ {0} /\ target \in Nat \ {0} /\ L \in Nat /\ remaining \in Nat
  /\ rate \in Rates /\ base \in BOOLEAN /\ z \in BOOLEAN /\ on \in BOOLEAN
  /\ IF z THEN target <= p ELSE p <= target

\* The next price is on the swap's side of the price, or there is none.
LEMMA NextPriceOneWay ==
  ASSUME NEW p, NEW target, NEW L, NEW remaining, NEW rate, NEW base, NEW z, NEW on,
         StepArgs(p, target, L, remaining, rate, base, z, on)
  PROVE  LET q == next_price(p, target, L, remaining, rate, base, z, on)
         IN  q \in Int /\ (q >= 0 => IF z THEN q <= p ELSE p <= q)
<1>0. /\ p \in Nat \ {0} /\ target \in Nat \ {0} /\ L \in Nat /\ remaining \in Nat
      /\ rate \in Nat /\ rate < FeeDenom /\ base \in BOOLEAN /\ z \in BOOLEAN /\ on \in BOOLEAN
      /\ IF z THEN target <= p ELSE p <= target
      /\ Q64 \in Nat \ {0} /\ FeeDenom \in Nat \ {0} /\ U64Max \in Nat
  BY RatesTyped DEF StepArgs, Rates, RatesOK
<1> DEFINE available == CASE base /\ on -> mul_div_floor(remaining, FeeDenom - rate, FeeDenom)
                          [] ~base /\ ~on -> mul_div_ceil(remaining, FeeDenom, FeeDenom - rate)
                          [] OTHER -> remaining
           range == IF base THEN amount_in_between(p, target, L, z)
                    ELSE amount_out_between(p, target, L, z)
           n == L * Q64
           q == next_price(p, target, L, remaining, rate, base, z, on)
<1>1. available \in Nat
  <2>1. FeeDenom - rate \in Nat \ {0}
    BY <1>0
  <2>2. mul_div_floor(remaining, FeeDenom - rate, FeeDenom) \in Nat
    BY <1>0, <2>1, FloorNat
  <2>3. mul_div_ceil(remaining, FeeDenom, FeeDenom - rate) \in Nat
    BY <1>0, <2>1, CeilNat
  <2>4. CASE base /\ on
    BY <2>2, <2>4
  <2>5. CASE ~base /\ ~on
    BY <2>3, <2>5
  <2>6. CASE ~(base /\ on) /\ ~(~base /\ ~on)
    BY <1>0, <2>6
  <2> QED BY <2>4, <2>5, <2>6
<1>2. range \in Nat /\ (L = 0 => range = 0)
  BY <1>0, AmountsNat
<1>3. \/ q = target
      \/ /\ L # 0
         /\ q = IF base THEN get_next_sqrt_price_from_input(p, L, available, z)
                ELSE get_next_sqrt_price_from_output(p, L, available, z)
  <2>1. q = IF range <= U64Max /\ available >= range THEN target
            ELSE IF base THEN get_next_sqrt_price_from_input(p, L, available, z)
            ELSE get_next_sqrt_price_from_output(p, L, available, z)
    BY DEF next_price
  <2> HIDE DEF q, range, available
  <2>2. L = 0 => range <= U64Max /\ available >= range
    BY <1>0, <1>1, <1>2
  <2> QED BY <2>1, <2>2
<1> HIDE DEF q, range, available
<1>4. ASSUME L # 0, NEW amount \in Nat
      PROVE  LET x == get_next_sqrt_price_from_input(p, L, amount, z)
             IN  x \in Int /\ (IF z THEN x <= p ELSE p <= x)
  <2> DEFINE y == amount * p
             e == (amount * Q64) \div L
  <2>1. n \in Nat \ {0} /\ y \in Nat /\ e \in Nat
    <3>1. L \in Nat \ {0}
      BY <1>0, <1>4
    <3>2. n > 0 /\ n \in Nat /\ y \in Nat /\ amount * Q64 \in Nat
      BY <1>0, <3>1, MulNat
    <3> DEFINE u == amount * Q64
    <3> HIDE DEF u
    <3>3. u \in Nat => u \div L \in Nat
      BY <3>1
    <3> QED BY <3>2, <3>3 DEF u
  <2>2. CASE z
    <3> DEFINE d == n + y
    <3>1. n \in Nat /\ d \in Nat \ {0} /\ n <= d
      <4> HIDE DEF n, y
      <4> QED BY <2>1
    <3> HIDE DEF n, d
    <3>2. mul_div_ceil(n, p, d) <= p /\ mul_div_ceil(n, p, d) \in Nat
      BY <1>0, <3>1, CeilAtMost, CeilNat
    <3>3. get_next_sqrt_price_from_input(p, L, amount, z) = mul_div_ceil(n, p, d)
      BY <2>2 DEF get_next_sqrt_price_from_input, n, d
    <3> DEFINE x == get_next_sqrt_price_from_input(p, L, amount, z)
               m == mul_div_ceil(n, p, d)
    <3>4. m <= p /\ m \in Nat /\ x = m
      BY <3>2, <3>3
    <3> HIDE DEF x, m
    <3>5. x \in Int /\ (IF z THEN x <= p ELSE p <= x)
      BY <2>2, <3>4
    <3> QED BY <3>5 DEF x
  <2>3. CASE ~z
    <3>1. get_next_sqrt_price_from_input(p, L, amount, z) = p + e
      BY <2>3 DEF get_next_sqrt_price_from_input
    <3> HIDE DEF e
    <3> QED BY <1>0, <2>1, <2>3, <3>1
  <2> QED BY <1>0, <2>2, <2>3
<1>5. ASSUME L # 0, NEW amount \in Nat
      PROVE  LET x == get_next_sqrt_price_from_output(p, L, amount, z)
             IN  x \in Int /\ (x >= 0 => IF z THEN x <= p ELSE p <= x)
  <2> DEFINE y == amount * p
             e == div_rounding_up(amount * Q64, L)
  <2>1. n \in Nat \ {0} /\ y \in Nat /\ e \in Nat
    <3>1. L \in Nat \ {0}
      BY <1>0, <1>5
    <3> DEFINE u == amount * Q64
    <3>2. n > 0 /\ n \in Nat /\ y \in Nat /\ u \in Nat
      BY <1>0, <3>1, MulNat
    <3> HIDE DEF u
    <3>3. div_rounding_up(u, L) \in Nat
      BY <3>1, <3>2, RoundUpNat
    <3> QED BY <3>2, <3>3 DEF u
  <2>2. CASE z
    <3> DEFINE x == get_next_sqrt_price_from_output(p, L, amount, z)
    <3>1. x = IF p >= e THEN p - e ELSE -1
      BY <2>2 DEF get_next_sqrt_price_from_output
    <3> HIDE DEF e, x
    <3>2. x \in Int /\ (x >= 0 => IF z THEN x <= p ELSE p <= x)
      BY <1>0, <2>1, <2>2, <3>1
    <3> QED BY <3>2 DEF x
  <2>3. CASE ~z
    <3> DEFINE d == n - y
    <3>1. get_next_sqrt_price_from_output(p, L, amount, z)
            = IF n > y THEN mul_div_ceil(n, p, d) ELSE -1
      BY <2>3 DEF get_next_sqrt_price_from_output
    <3>2. n > y => n \in Nat /\ d \in Nat \ {0} /\ d <= n
      <4> HIDE DEF n, y
      <4> QED BY <2>1
    <3> HIDE DEF n, y, d
    <3>3. n > y => mul_div_ceil(n, p, d) >= p /\ mul_div_ceil(n, p, d) \in Nat
      BY <1>0, <3>2, CeilAtLeast, CeilNat
    <3> QED BY <1>0, <2>3, <3>1, <3>3
  <2> QED BY <1>0, <2>2, <2>3
<1>6. q \in Int /\ (q >= 0 => IF z THEN q <= p ELSE p <= q)
  BY <1>0, <1>1, <1>3, <1>4, <1>5
<1> QED BY <1>6 DEF q

\* A step that succeeds stays between the price and the target; its amounts
\* are integers and its fee is not negative.
StepSound(s, p, target, z) ==
  /\ s.price \in Nat \ {0}
  /\ IF z THEN target <= s.price /\ s.price <= p ELSE p <= s.price /\ s.price <= target
  /\ s.amount_in \in Int /\ s.amount_out \in Int /\ s.fee \in Nat

LEMMA ComputeSound ==
  ASSUME NEW p, NEW target, NEW L, NEW remaining, NEW rate, NEW base, NEW z, NEW on,
         StepArgs(p, target, L, remaining, rate, base, z, on),
         compute_swap(p, target, L, remaining, rate, base, z, on).ok
  PROVE  StepSound(compute_swap(p, target, L, remaining, rate, base, z, on), p, target, z)
<1>0. /\ p \in Nat \ {0} /\ target \in Nat \ {0} /\ L \in Nat /\ remaining \in Nat
      /\ rate \in Nat /\ rate < FeeDenom /\ base \in BOOLEAN /\ z \in BOOLEAN /\ on \in BOOLEAN
      /\ IF z THEN target <= p ELSE p <= target
      /\ Q64 \in Nat \ {0} /\ FeeDenom \in Nat \ {0} /\ U64Max \in Nat
  BY RatesTyped DEF StepArgs, Rates, RatesOK
<1> DEFINE s == compute_swap(p, target, L, remaining, rate, base, z, on)
           q == next_price(p, target, L, remaining, rate, base, z, on)
           in == amount_in_between(p, q, L, z)
           gross == amount_out_between(p, q, L, z)
           fi == input_fee(q = target, in, remaining, rate, base)
           fo == output_fee(gross, remaining, rate, base)
           fee == IF on THEN fi ELSE fo
           out == CASE ~on -> gross - fee
                    [] on /\ base -> gross
                    [] on /\ ~base -> least(gross, remaining)
<1>1. s.price = q /\ s.amount_in = in /\ s.amount_out = out /\ s.fee = fee
  BY DEF compute_swap
<1>2. q >= 0 /\ (IF z THEN q >= target ELSE q <= target) /\ fee >= 0
  <2>1. s.ok
    OBVIOUS
  <2> QED BY <2>1 DEF compute_swap
<1>3. q \in Int /\ (q >= 0 => IF z THEN q <= p ELSE p <= q)
  BY NextPriceOneWay
<1>4. q \in Nat \ {0} /\ (IF z THEN target <= q /\ q <= p ELSE p <= q /\ q <= target)
  <2> HIDE DEF q
  <2> QED BY <1>0, <1>2, <1>3
<1>5. in \in Nat /\ gross \in Nat
  <2> HIDE DEF q
  <2> QED BY <1>0, <1>4, AmountsNat
<1>6. fi = (IF base /\ q # target THEN remaining - in ELSE fee_on_top(in, rate))
  BY DEF input_fee
<1>7. fo = (IF ~base /\ gross - fee_of(gross, rate) > remaining
            THEN gross - remaining ELSE fee_of(gross, rate))
  BY DEF output_fee
<1> HIDE DEF q, in, gross, fi, fo
<1>8. fee_on_top(in, rate) \in Nat /\ fee_of(gross, rate) \in Nat
  <2>1. FeeDenom - rate \in Nat \ {0}
    BY <1>0
  <2> QED BY <1>0, <1>5, <2>1, CeilNat DEF fee_on_top, fee_of
<1>9. fi \in Int /\ fo \in Int
  BY <1>0, <1>5, <1>6, <1>7, <1>8
<1>10. fee \in Nat
  <2>1. fee \in Int
    BY <1>9
  <2> HIDE DEF fee
  <2> QED BY <2>1, <1>2
<1>11. out \in Int
  <2> HIDE DEF fee
  <2>1. CASE ~on
    BY <2>1, <1>5, <1>10
  <2>2. CASE on /\ base
    BY <2>2, <1>5
  <2>3. CASE on /\ ~base
    <3>1. out = least(gross, remaining)
      BY <2>3
    <3>2. least(gross, remaining) \in Int
      BY <1>0, <1>5 DEF least
    <3> HIDE DEF out
    <3> QED BY <3>1, <3>2
  <2> QED BY <1>0, <2>1, <2>2, <2>3
<1> HIDE DEF s, fee, out
<1>12. StepSound(s, p, target, z)
  BY <1>1, <1>4, <1>5, <1>10, <1>11 DEF StepSound
<1> QED BY <1>12 DEF s

\* The parts of a fee are not negative.
LEMMA FeeParts ==
  ASSUME NEW fee \in Nat
  PROVE  /\ mul_div_floor(fee, ProtocolFeeRate, FeeDenom) \in Nat
         /\ mul_div_floor(fee, FundFeeRate, FeeDenom) \in Nat
         /\ fee - mul_div_floor(fee, ProtocolFeeRate, FeeDenom)
                - mul_div_floor(fee, FundFeeRate, FeeDenom) \in Nat
<1> DEFINE P == ProtocolFeeRate
           F == FundFeeRate
           D == FeeDenom
           a == fee * P
           b == fee * F
           c == fee * D
<1>1. P \in Nat /\ F \in Nat /\ D \in Nat \ {0} /\ P + F <= D
  BY RateAssumption
<1>2. a \in Nat /\ b \in Nat /\ a + b <= c /\ c \in Nat
  <2>1. fee * (P + F) <= fee * D
    <3> HIDE DEF P, F, D
    <3>1. P + F \in Nat
      BY <1>1
    <3> QED BY <1>1, <3>1, MulOrder
  <2>2. fee * (P + F) = fee * P + fee * F
    BY <1>1
  <2>3. fee * P \in Nat /\ fee * F \in Nat /\ fee * D \in Nat
    BY <1>1, MulNat
  <2> QED BY <2>1, <2>2, <2>3
<1>3. mul_div_floor(fee, P, D) = a \div D /\ mul_div_floor(fee, F, D) = b \div D
  BY DEF mul_div_floor
<1> HIDE DEF P, F, D
<1>4. c \div D = fee
  BY <1>1
<1> HIDE DEF a, b, c
<1>5. a \div D \in Nat /\ b \div D \in Nat /\ fee - a \div D - b \div D >= 0
  <2> DEFINE x == a \div D
             y == b \div D
  <2>1. x \in Nat /\ y \in Nat /\ D * x <= a /\ D * y <= b
    BY <1>1, <1>2, DivNat
  <2>2. D * x + D * y <= c
    <3> DEFINE u == D * x
               v == D * y
    <3>1. u \in Nat /\ v \in Nat
      BY <1>1, <2>1, MulNat
    <3> HIDE DEF u, v, x, y
    <3> QED BY <1>2, <2>1, <3>1 DEF u, v
  <2>3. D * x + D * y = D * (x + y) /\ c = D * fee
    BY <1>1, <2>1 DEF c
  <2>4. x + y <= fee
    <3>1. ASSUME fee + 1 <= x + y PROVE FALSE
      <4>1. D * (fee + 1) <= D * (x + y)
        <5> HIDE DEF x, y
        <5>1. fee + 1 \in Nat /\ x + y \in Nat
          BY <2>1
        <5> QED BY <1>1, <3>1, <5>1, MulOrder
      <4>2. D * (fee + 1) = D * fee + D
        BY <1>1
      <4> DEFINE u == D * fee
      <4>3. u \in Nat
        BY <1>1, MulNat
      <4>4. u + D <= D * (x + y) /\ D * (x + y) <= c /\ c = u
        BY <2>2, <2>3, <4>1, <4>2
      <4> DEFINE k == D * (x + y)
      <4>5. k \in Nat
        <5>1. x + y \in Nat
          BY <2>1
        <5> QED BY <1>1, <5>1, MulNat
      <4>6. u + D <= k /\ k <= c /\ c = u
        BY <4>4
      <4> HIDE DEF x, y, u, k
      <4> QED BY <1>1, <1>2, <4>3, <4>5, <4>6
    <3> HIDE DEF x, y
    <3> QED BY <2>1, <3>1
  <2> HIDE DEF x, y
  <2>5. x \in Nat /\ y \in Nat /\ fee - x - y >= 0
    BY <2>1, <2>4
  <2> QED BY <2>5 DEF x, y
<1>6. fee - a \div D - b \div D \in Nat
  <2> DEFINE x == a \div D
             y == b \div D
  <2> HIDE DEF x, y
  <2>1. x \in Nat /\ y \in Nat /\ fee - x - y >= 0
    BY <1>5 DEF x, y
  <2>2. fee - x - y \in Nat
    BY <2>1
  <2> QED BY <2>2 DEF x, y
<1> QED BY <1>3, <1>5, <1>6 DEF P, F, D

(***************************************************************************)
(* The steps of the loop.  In each, w is the swap before and pos are the   *)
(* positions, which no swap changes.                                       *)
(***************************************************************************)
\* With a static fee the top of the inner loop changes nothing.
LEMMA LoopTop ==
  ASSUME StaticFee, NEW w \in SwapState, w.total_fee_rate = w.trade_fee_rate
  PROVE  at_loop_top(w) = w /\ get_spacing_bounded_price(w) = target_price(w, w.tick_next)
         /\ update_dynamic_fee_index(w) = w
<1>1. /\ update_volatility_accumulator(w.dynamic_fee, w.tick_spacing_index) = w.dynamic_fee
      /\ get_total_fee_rate(w.trade_fee_rate, w.dynamic_fee) = w.total_fee_rate
  BY DEF StaticFee, update_volatility_accumulator, get_total_fee_rate
<1>2. at_loop_top(w)
        = [w EXCEPT !.dynamic_fee = w.dynamic_fee, !.total_fee_rate = w.total_fee_rate]
  BY <1>1 DEF at_loop_top, with_fee_rate
<1>3. [w EXCEPT !.dynamic_fee = w.dynamic_fee, !.total_fee_rate = w.total_fee_rate] = w
  BY DEF SwapState
<1>4. is_skipped_tick_spacing(w)
  BY DEF StaticFee, is_skipped_tick_spacing
<1>5. get_spacing_bounded_price(w) = target_price(w, w.tick_next)
  BY <1>4 DEF get_spacing_bounded_price
<1>6. update_dynamic_fee_index(w) = w
  BY DEF StaticFee, update_dynamic_fee_index
<1> QED BY <1>2, <1>3, <1>5, <1>6

\* v is w after some amounts and fees were added up.
Kept(w, v) ==
  /\ v.zero_for_one = w.zero_for_one /\ v.base_input = w.base_input
  /\ v.trade_fee_rate = w.trade_fee_rate /\ v.total_fee_rate = w.total_fee_rate
  /\ v.limit = w.limit /\ v.sqrt_price = w.sqrt_price /\ v.tick = w.tick
  /\ v.liquidity = w.liquidity /\ v.tick_next = w.tick_next /\ v.stage = w.stage
  /\ v.array = w.array /\ v.contains = w.contains /\ v.ticks = w.ticks
  /\ v.count = w.count /\ v.bitmap = w.bitmap

LEMMA FeesSplit ==
  ASSUME NEW w \in SwapState, NEW fee \in Nat
  PROVE  /\ spilt_fees(w, fee) \in SwapState /\ Kept(w, spilt_fees(w, fee))
         /\ spilt_fees(w, fee).remaining = w.remaining
<1> DEFINE a == mul_div_floor(fee, ProtocolFeeRate, FeeDenom)
           b == mul_div_floor(fee, FundFeeRate, FeeDenom)
           r == fee - a - b
           g == (w.fee_growth + mul_div_floor(r, Q64, w.liquidity)) % Growth
           x == w.protocol_fee + a
           y == w.fund_fee + b
           l == w.lp_fee + r
           x0 == w.protocol_fee + a + r
           v == spilt_fees(w, fee)
<1>1. a \in Nat /\ b \in Nat /\ r \in Nat
  BY FeeParts
<1>2. /\ w.protocol_fee \in Nat /\ w.fund_fee \in Nat /\ w.lp_fee \in Int
      /\ w.liquidity \in Nat /\ w.fee_growth \in Growths
  BY SwapFields
<1>3. v = IF w.liquidity > 0
          THEN [w EXCEPT !.protocol_fee = x, !.fund_fee = y, !.lp_fee = l, !.fee_growth = g]
          ELSE [w EXCEPT !.protocol_fee = x0, !.fund_fee = y]
  BY DEF spilt_fees
<1> HIDE DEF a, b, r
<1>4. x \in Nat /\ y \in Nat /\ l \in Int /\ x0 \in Nat
  BY <1>1, <1>2
<1>5. w.liquidity > 0 => g \in Growths
  <2> SUFFICES ASSUME w.liquidity > 0 PROVE g \in Growths
    OBVIOUS
  <2> DEFINE e == mul_div_floor(r, Q64, w.liquidity)
             h == w.fee_growth
             G == Growth
  <2>1. e \in Nat
    <3> DEFINE L == w.liquidity
    <3>1. L \in Nat \ {0} /\ Q64 \in Nat
      BY <1>2, RatesTyped DEF RatesOK
    <3> HIDE DEF L
    <3>2. mul_div_floor(r, Q64, L) \in Nat
      BY <1>1, <3>1, FloorNat
    <3> QED BY <3>2 DEF L
  <2>2. h \in Nat /\ G \in Nat \ {0}
    BY <1>2, RatesTyped DEF RatesOK, Growths
  <2>3. Growths = 0 .. (G - 1) /\ g = (h + e) % G
    BY DEF Growths
  <2> HIDE DEF e, h, G, g
  <2>4. (h + e) % G \in 0 .. (G - 1)
    BY <2>1, <2>2
  <2> QED BY <2>3, <2>4
<1> HIDE DEF x, y, l, x0, g, v
<1>6. CASE w.liquidity > 0
  <2>1. v = [w EXCEPT !.protocol_fee = x, !.fund_fee = y, !.lp_fee = l, !.fee_growth = g]
    BY <1>3, <1>6
  <2>2. v \in SwapState
    BY <2>1, <1>4, <1>5, <1>6 DEF SwapState
  <2>3. Kept(w, v) /\ v.remaining = w.remaining
    BY <2>1 DEF Kept, SwapState
  <2> QED BY <2>2, <2>3 DEF v
<1>7. CASE ~(w.liquidity > 0)
  <2>1. v = [w EXCEPT !.protocol_fee = x0, !.fund_fee = y]
    BY <1>3, <1>7
  <2>2. v \in SwapState
    BY <2>1, <1>4 DEF SwapState
  <2>3. Kept(w, v) /\ v.remaining = w.remaining
    BY <2>1 DEF Kept, SwapState
  <2> QED BY <2>2, <2>3 DEF v
<1> QED BY <1>6, <1>7

\* The amounts and the fee of a step or a match.
AmountsOf(r) == r.amount_in \in Int /\ r.amount_out \in Int /\ r.fee \in Nat

LEMMA AmountsApplied ==
  ASSUME NEW w \in SwapState, NEW r, AmountsOf(r), used(w, r) <= w.remaining
  PROVE  /\ apply_swap_amounts(w, r) \in SwapState /\ Kept(w, apply_swap_amounts(w, r))
         /\ apply_swap_amounts(w, r).remaining = w.remaining - used(w, r)
         /\ used(w, r) \in Int
<1> DEFINE n == w.remaining - used(w, r)
           c == w.calculated + gained(w, r)
           x == [w EXCEPT !.remaining = n, !.calculated = c]
           v == spilt_fees(x, r.fee)
<1>1. used(w, r) \in Int /\ gained(w, r) \in Int
  <2>1. paid_in(w, r) \in Int /\ r.amount_in \in Int /\ r.amount_out \in Int
    BY DEF AmountsOf, paid_in
  <2> QED BY <2>1 DEF used, gained
<1>2. n \in Nat /\ c \in Int
  <2> DEFINE u == used(w, r)
             h == gained(w, r)
  <2>1. u \in Int /\ h \in Int /\ u <= w.remaining /\ w.remaining \in Nat /\ w.calculated \in Int
    BY <1>1, SwapFields
  <2> HIDE DEF u, h
  <2>2. w.remaining - u \in Nat /\ w.calculated + h \in Int
    BY <2>1
  <2> QED BY <2>2 DEF u, h
<1>3. apply_swap_amounts(w, r) = v
  BY DEF apply_swap_amounts
<1> HIDE DEF n, c
<1>4. x \in SwapState
  BY <1>2 DEF SwapState
<1>5. Kept(w, x) /\ x.remaining = n
  BY DEF Kept, SwapState
<1> HIDE DEF x
<1>6. v \in SwapState /\ Kept(x, v) /\ v.remaining = x.remaining
  BY <1>4, FeesSplit DEF AmountsOf
<1> HIDE DEF v
<1>7. Kept(w, v)
  BY <1>5, <1>6 DEF Kept
<1> QED BY <1>1, <1>3, <1>5, <1>6, <1>7 DEF n

\* The nearest of the ticks found is the nearest of all initialized ticks ahead.
LEMMA NearestFound ==
  ASSUME NEW w \in SwapState, CountsHold(Initialized(w.ticks), w.count, w.bitmap), Located(w),
         NEW all, all = {t \in Initialized(w.ticks) : ahead(t, w.tick, w.zero_for_one)},
         NEW F, F = found_ticks(w)
  PROVE  /\ all = {} <=> F = {}
         /\ F # {} => /\ nearest(F, w.zero_for_one) \in all
                      /\ nearest(F, w.zero_for_one) = nearest(all, w.zero_for_one)
                      /\ \A u \in all : IF w.zero_for_one THEN u <= nearest(F, w.zero_for_one)
                                        ELSE nearest(F, w.zero_for_one) <= u
<1> DEFINE z == w.zero_for_one
<1>1. /\ \A u \in F : u \in all
      /\ \A t \in all : \E u \in F : IF z THEN t <= u ELSE u <= t
  BY SearchNearest
<1>2. F \in SUBSET (MinTick .. MaxTick) /\ all \in SUBSET (MinTick .. MaxTick)
  BY <1>1 DEF Initialized, Ticks
<1>3. MinTick \in Int /\ MaxTick \in Int /\ z \in BOOLEAN
  BY TickAssumption, SwapFields
<1>4. ASSUME NEW S \in SUBSET (MinTick .. MaxTick), S # {}
      PROVE  /\ Max(S) \in S /\ \A x \in S : Max(S) >= x
             /\ Min(S) \in S /\ \A x \in S : Min(S) <= x
  BY <1>3, <1>4, Extremes
<1>5. \A x \in MinTick .. MaxTick : x \in Int
  BY <1>3
<1> HIDE DEF z
<1>6. ASSUME F # {}
      PROVE  /\ nearest(F, z) \in all /\ nearest(F, z) = nearest(all, z)
             /\ \A u \in all : IF z THEN u <= nearest(F, z) ELSE nearest(F, z) <= u
  <2>0. all # {}
    BY <1>1, <1>6
  <2>1. CASE z
    <3> DEFINE m == Max(F)
               n == Max(all)
    <3>1. nearest(F, z) = m /\ nearest(all, z) = n
      BY <2>1 DEF nearest
    <3>2. m \in F /\ n \in all /\ (\A x \in F : m >= x) /\ (\A x \in all : n >= x)
      BY <1>2, <1>4, <1>6, <2>0
    <3> HIDE DEF m, n
    <3>3. m = n
      <4>1. PICK u \in F : n <= u
        BY <1>1, <2>1, <3>2
      <4> QED BY <4>1, <3>2, <1>1, <1>2, <1>5
    <3> QED BY <2>1, <3>1, <3>2, <3>3, <1>1, <1>2, <1>5
  <2>2. CASE ~z
    <3> DEFINE m == Min(F)
               n == Min(all)
    <3>1. nearest(F, z) = m /\ nearest(all, z) = n
      BY <2>2 DEF nearest
    <3>2. m \in F /\ n \in all /\ (\A x \in F : m <= x) /\ (\A x \in all : n <= x)
      BY <1>2, <1>4, <1>6, <2>0
    <3> HIDE DEF m, n
    <3>3. m = n
      <4>1. PICK u \in F : u <= n
        BY <1>1, <2>2, <3>2
      <4> QED BY <4>1, <3>2, <1>1, <1>2, <1>5
    <3> QED BY <2>2, <3>1, <3>2, <3>3, <1>1, <1>2, <1>5
  <2> QED BY <2>1, <2>2, <1>3
<1>7. all = {} <=> F = {}
  BY <1>1
<1> QED BY <1>6, <1>7 DEF z

\* The loop finds its next tick.
LEMMA FindKeeps ==
  ASSUME NEW pos, NEW w, SwapInv(w, pos), w.stage = "search", loop_continues(w), can_find(w),
         NEW t, t = nearest(found_ticks(w), w.zero_for_one),
         NEW v, v = [w EXCEPT !.stage = "compute", !.tick_next = t,
                              !.array = get_array_start_index(t), !.contains = TRUE]
  PROVE  SwapInv(v, pos)
<1>1. w \in SwapState /\ Located(w) /\ CountsHold(Counted(w), w.count, w.bitmap)
  BY DEF SwapInv
<1>2. Counted(w) = Initialized(w.ticks)
  BY DEF Counted
<1> DEFINE all == {u \in Initialized(w.ticks) : ahead(u, w.tick, w.zero_for_one)}
           F == found_ticks(w)
<1>3. F # {} /\ direction_valid(w, t)
  BY DEF can_find
<1>4. t \in all /\ \A u \in all : IF w.zero_for_one THEN u <= t ELSE t <= u
  <2>1. CountsHold(Initialized(w.ticks), w.count, w.bitmap)
    BY <1>1, <1>2
  <2> HIDE DEF all, F
  <2> QED BY <1>1, <1>3, <2>1, NearestFound DEF all, F
<1>5. t \in Ticks /\ t \in Int /\ is_initialized(w.ticks[t]) /\ get_array_start_index(t) \in Int
  BY <1>4, PriceOrder, ArrayOrder DEF Initialized
<1>6. v \in SwapState
  BY <1>1, <1>5 DEF SwapState
<1>7. /\ v.stage = "compute" /\ v.tick_next = t /\ v.array = get_array_start_index(t)
      /\ v.contains = TRUE /\ v.remaining = w.remaining
      /\ v.zero_for_one = w.zero_for_one /\ v.base_input = w.base_input
      /\ v.trade_fee_rate = w.trade_fee_rate /\ v.total_fee_rate = w.total_fee_rate
      /\ v.limit = w.limit /\ v.sqrt_price = w.sqrt_price /\ v.tick = w.tick
      /\ v.liquidity = w.liquidity /\ v.ticks = w.ticks
      /\ v.count = w.count /\ v.bitmap = w.bitmap
  BY <1>1 DEF SwapState
<1>8. Counted(v) = Initialized(w.ticks)
  BY <1>7 DEF Counted
<1>9. Ahead(v)
  <2>1. /\ w.tick \in Int /\ w.zero_for_one \in BOOLEAN
        /\ \A u \in Initialized(w.ticks) : u \in Int
    BY <1>1, SwapFields, PriceOrder DEF Initialized
  <2>2. \A u \in Initialized(w.ticks) :
          (IF w.zero_for_one THEN u <= w.tick ELSE u > w.tick)
            => (IF w.zero_for_one THEN u <= t ELSE t <= u)
    BY <1>4 DEF ahead
  <2>3. IF w.zero_for_one THEN w.tick >= t /\ w.sqrt_price >= SqrtPrice[t]
        ELSE t > w.tick /\ SqrtPrice[t] >= w.sqrt_price
    BY <1>3 DEF direction_valid
  <2>4. w.sqrt_price \in Nat /\ SqrtPrice[t] \in Nat
    BY <1>1, <1>5, SwapFields, PriceOrder
  <2> QED BY <1>5, <1>7, <2>1, <2>2, <2>3, <2>4 DEF Ahead
<1> QED BY <1>1, <1>2, <1>6, <1>7, <1>8, <1>9 DEF SwapInv

LEMMA FeeSide == \A z \in BOOLEAN : is_fee_on_input(z) \in BOOLEAN
BY DEF is_fee_on_input

\* A step to the target ends between the price and the target.
LEMMA StepToTarget ==
  ASSUME StaticFee, NEW pos, NEW w, SwapInv(w, pos), w.stage # "search",
         NEW s, s = step_to_target(w), s.ok
  PROVE  /\ target_price(w, w.tick_next) \in Nat
         /\ target_price(w, w.tick_next) \in {w.limit, SqrtPrice[w.tick_next]}
         /\ IF w.zero_for_one
            THEN SqrtPrice[w.tick_next] <= target_price(w, w.tick_next)
                 /\ w.limit <= target_price(w, w.tick_next)
            ELSE target_price(w, w.tick_next) <= SqrtPrice[w.tick_next]
                 /\ target_price(w, w.tick_next) <= w.limit
         /\ StepSound(s, w.sqrt_price, target_price(w, w.tick_next), w.zero_for_one)
<1>1. /\ w \in SwapState /\ Ahead(w) /\ w.total_fee_rate = w.trade_fee_rate
      /\ SqrtPrice[MinTick] < w.limit
      /\ IF w.zero_for_one THEN w.limit <= w.sqrt_price /\ w.sqrt_price < SqrtPrice[MaxTick]
         ELSE SqrtPrice[MinTick] <= w.sqrt_price /\ w.sqrt_price <= w.limit
  BY DEF SwapInv
<1> DEFINE p == w.sqrt_price
           z == w.zero_for_one
           T == SqrtPrice[w.tick_next]
           l == w.limit
           target == target_price(w, w.tick_next)
<1>2. /\ p \in Nat \ {0} /\ z \in BOOLEAN /\ T \in Nat \ {0} /\ l \in Nat \ {0}
      /\ IF z THEN T <= p /\ l <= p ELSE p <= T /\ p <= l
  <2>1. SqrtPrice[MinTick] \in Nat /\ SqrtPrice[MinTick] > 0
    BY PriceOrder, TickAssumption DEF Ticks
  <2>2. w.tick_next \in Ticks /\ T \in Nat /\ T > 0
    BY <1>1, PriceOrder DEF Ahead
  <2>3. p \in Nat /\ z \in BOOLEAN /\ l \in Nat
    BY <1>1, SwapFields
  <2>4. IF z THEN T <= p ELSE p <= T
    BY <1>1, <2>3 DEF Ahead
  <2>5. SqrtPrice[MinTick] < l /\ (IF z THEN l <= p ELSE SqrtPrice[MinTick] <= p /\ p <= l)
    BY <1>1
  <2> HIDE DEF p, z, T, l
  <2> QED BY <2>1, <2>2, <2>3, <2>4, <2>5 DEF T
<1>3. target = IF z THEN (IF T < l THEN l ELSE T) ELSE (IF T > l THEN l ELSE T)
  BY DEF target_price
<1>4. /\ target \in Nat \ {0} /\ target \in {l, T}
      /\ IF z THEN target <= p /\ T <= target /\ l <= target
         ELSE p <= target /\ target <= T /\ target <= l
  <2> HIDE DEF target, p, z, T, l
  <2> QED BY <1>2, <1>3
<1>5. get_spacing_bounded_price(w) = target
  BY <1>1, LoopTop
<1>6. CASE p = target
  <2>1. s = [ok |-> TRUE, price |-> target, amount_in |-> 0, amount_out |-> 0, fee |-> 0]
    BY <1>5, <1>6 DEF step_to_target, step_to
  <2> HIDE DEF p, z, T, l, target
  <2>2. StepSound(s, p, target, z)
    BY <1>2, <1>4, <1>6, <2>1 DEF StepSound
  <2> QED BY <1>4, <2>2 DEF p, z, T, l, target
<1>7. CASE p # target
  <2> DEFINE on == is_fee_on_input(z)
  <2>1. s = compute_swap(p, target, w.liquidity, w.remaining, w.total_fee_rate, w.base_input, z, on)
    BY <1>5, <1>7 DEF step_to_target, step_to
  <2>2. on \in BOOLEAN
    BY <1>2, FeeSide
  <2>3. StepArgs(p, target, w.liquidity, w.remaining, w.total_fee_rate, w.base_input, z, on)
    <3> HIDE DEF p, z, T, l, target, on
    <3> QED BY <1>1, <1>2, <1>4, <2>2, SwapFields DEF StepArgs
  <2> HIDE DEF p, z, T, l, target, on
  <2>4. StepSound(s, p, target, z)
    BY <2>1, <2>3, ComputeSound
  <2> QED BY <1>4, <2>4 DEF p, z, T, l, target
<1> QED BY <1>6, <1>7

\* The liquidity that is active does not change within the ticks just searched.
LEMMA ActiveKept ==
  ASSUME NEW pos, PositionsOK(pos), NEW tks \in [Ticks -> TickState], SumsHold(pos, tks),
         NEW a \in Int, NEW b \in Int, a <= b,
         \A t \in Initialized(tks) : ~(a < t /\ t <= b)
  PROVE  Active(pos, a) = Active(pos, b)
<1>1. ASSUME NEW t \in Ticks, a < t, t <= b PROVE Lower(pos, t) = 0 /\ Upper(pos, t) = 0
  <2>1. t \in Int
    BY PriceOrder
  <2>2. ~is_initialized(tks[t])
    BY <1>1 DEF Initialized
  <2>3. ~(tks[t].liquidity_gross > 0)
    BY <2>2 DEF is_initialized, has_liquidity
  <2>4. tks[t].liquidity_gross \in Nat /\ tks[t].liquidity_gross = Lower(pos, t) + Upper(pos, t)
    BY DEF SumsHold, TickState
  <2>5. Lower(pos, t) \in Nat /\ Upper(pos, t) \in Nat
    BY <2>1, SumsNat
  <2> QED BY <2>3, <2>4, <2>5
<1> QED BY <1>1, NothingBetween

\* Wherever a step towards tick_next ends, the same liquidity is active there.
LEMMA TickAfterStep ==
  ASSUME NEW pos, PositionsOK(pos), NEW w, SwapInv(w, pos), w.stage = "compute",
         NEW q \in Nat, q # SqrtPrice[w.tick_next], q # w.sqrt_price,
         IF w.zero_for_one
         THEN w.limit <= q /\ SqrtPrice[w.tick_next] <= q /\ q <= w.sqrt_price
         ELSE q <= w.limit /\ w.sqrt_price <= q /\ q <= SqrtPrice[w.tick_next],
         NEW t, t = get_tick_at_sqrt_price(q)
  PROVE  /\ t \in Ticks /\ t < MaxTick /\ PriceIn(t, q) /\ Active(pos, t) = w.liquidity
         /\ IF w.zero_for_one THEN w.tick_next <= t /\ t <= w.tick
            ELSE w.tick <= t /\ t < w.tick_next
<1>1. /\ w \in SwapState /\ SumsHold(pos, w.ticks) /\ w.liquidity = Active(pos, w.tick)
      /\ w.tick < MaxTick /\ Ahead(w) /\ PriceIn(w.tick, w.sqrt_price)
      /\ SqrtPrice[MinTick] < w.limit /\ w.limit < SqrtPrice[MaxTick]
      /\ IF w.zero_for_one THEN w.limit <= w.sqrt_price /\ w.sqrt_price < SqrtPrice[MaxTick]
         ELSE SqrtPrice[MinTick] <= w.sqrt_price /\ w.sqrt_price <= w.limit
  BY DEF SwapInv
<1> DEFINE p == w.sqrt_price
           z == w.zero_for_one
           n == w.tick_next
           c == w.tick
           l == w.limit
<1>2. /\ p \in Nat /\ z \in BOOLEAN /\ l \in Nat /\ c \in Ticks /\ n \in Ticks
      /\ c \in Int /\ n \in Int /\ MinTick \in Int /\ MaxTick \in Int
      /\ SqrtPrice[MinTick] \in Nat /\ SqrtPrice[MaxTick] \in Nat
      /\ MinTick \in Ticks /\ MaxTick \in Ticks
  <2>1. n \in Ticks /\ MinTick \in Ticks /\ MaxTick \in Ticks
    BY <1>1, TickAssumption DEF Ahead, Ticks
  <2> QED BY <1>1, <2>1, SwapFields, PriceOrder, TickAssumption
<1>3. SqrtPrice[MinTick] <= q /\ q < SqrtPrice[MaxTick]
  BY <1>1, <1>2
<1>4. t \in Ticks /\ t < MaxTick /\ t + 1 \in Ticks /\ SqrtPrice[t] <= q /\ q < SqrtPrice[t + 1]
  BY <1>3, TickAtPrice
<1>5. t \in Int /\ t + 1 \in Int /\ SqrtPrice[t] \in Nat /\ SqrtPrice[t + 1] \in Nat
  BY <1>4, PriceOrder
<1>6. PriceIn(t, q)
  BY <1>4, <1>5 DEF PriceIn
<1>7. c + 1 \in Ticks /\ SqrtPrice[c + 1] \in Nat /\ SqrtPrice[c] \in Nat /\ SqrtPrice[n] \in Nat
  <2>1. c + 1 \in Ticks
    BY <1>1, <1>2 DEF Ticks
  <2> QED BY <1>2, <2>1, PriceOrder
<1>8. SqrtPrice[c] <= p /\ p <= SqrtPrice[c + 1]
  BY <1>1 DEF PriceIn
<1>9. \A x, y \in Ticks : SqrtPrice[x] < SqrtPrice[y] => x < y
  <2> SUFFICES ASSUME NEW x \in Ticks, NEW y \in Ticks, SqrtPrice[x] < SqrtPrice[y], ~(x < y)
               PROVE  FALSE
    OBVIOUS
  <2>1. SqrtPrice[x] \in Nat /\ SqrtPrice[y] \in Nat /\ x \in Int /\ y \in Int
    BY PriceOrder
  <2>2. y < x \/ x = y
    BY <2>1
  <2>3. x # y
    BY <2>1
  <2>4. SqrtPrice[y] < SqrtPrice[x]
    BY <2>2, <2>3, PriceOrder
  <2> QED BY <2>1, <2>4
<1>10. IF z THEN n <= t /\ t <= c ELSE c <= t /\ t < n
  <2>1. CASE z
    <3>1. SqrtPrice[n] < SqrtPrice[t + 1]
      BY <2>1, <1>4, <1>5, <1>7
    <3>2. SqrtPrice[t] < SqrtPrice[c + 1]
      <4>1. q < p
        BY <2>1, <1>2
      <4> HIDE DEF p, c
      <4> QED BY <4>1, <1>2, <1>4, <1>5, <1>7, <1>8
    <3>3. n < t + 1 /\ t < c + 1
      BY <3>1, <3>2, <1>4, <1>7, <1>9, <1>2
    <3> QED BY <2>1, <3>3, <1>2, <1>5
  <2>2. CASE ~z
    <3>1. SqrtPrice[t] < SqrtPrice[n]
      BY <2>2, <1>4, <1>5, <1>7
    <3>2. SqrtPrice[c] < SqrtPrice[t + 1]
      <4>1. p <= q
        BY <2>2
      <4> HIDE DEF p, c
      <4> QED BY <4>1, <1>2, <1>4, <1>5, <1>7, <1>8
    <3>3. t < n /\ c < t + 1
      BY <3>1, <3>2, <1>4, <1>2, <1>9
    <3> QED BY <2>2, <3>3, <1>2, <1>5
  <2> QED BY <2>1, <2>2, <1>2
<1>11. Active(pos, t) = Active(pos, c)
  <2>0. \A u \in Initialized(w.ticks) : u \in Int
    BY PriceOrder DEF Initialized
  <2>1. CASE z
    <3>1. \A u \in Initialized(w.ticks) : ~(n < u /\ u <= c)
      BY <1>1, <2>1 DEF Ahead
    <3>2. t <= c /\ \A u \in Initialized(w.ticks) : ~(t < u /\ u <= c)
      <4> HIDE DEF n, c
      <4> QED BY <3>1, <1>10, <2>1, <2>0, <1>2, <1>5
    <3> QED BY <3>2, <1>1, <1>2, <1>5, ActiveKept, SwapFields
  <2>2. CASE ~z
    <3>1. \A u \in Initialized(w.ticks) : ~(c < u /\ u < n)
      BY <1>1, <2>2 DEF Ahead
    <3>2. c <= t /\ \A u \in Initialized(w.ticks) : ~(c < u /\ u <= t)
      <4> HIDE DEF n, c
      <4> QED BY <3>1, <1>10, <2>2, <2>0, <1>2, <1>5
    <3>3. w.ticks \in [Ticks -> TickState] /\ SumsHold(pos, w.ticks)
      BY <1>1, SwapFields
    <3> HIDE DEF c
    <3>4. Active(pos, c) = Active(pos, t)
      BY <3>2, <3>3, <1>2, <1>5, ActiveKept
    <3> QED BY <3>4
  <2> QED BY <2>1, <2>2, <1>2
<1> QED BY <1>1, <1>4, <1>6, <1>10, <1>11

\* A step of the inner loop.
LEMMA ComputeKeeps ==
  ASSUME StaticFee, NEW pos, PositionsOK(pos), NEW w, SwapInv(w, pos), w.stage = "compute",
         NEW s, s = step_to_target(w), can_compute(w, s),
         NEW v, v = moved_to(apply_swap_amounts(w, s), s.price)
  PROVE  /\ SwapInv(v, pos) /\ v.zero_for_one = w.zero_for_one
         /\ IF w.zero_for_one THEN v.sqrt_price <= w.sqrt_price
            ELSE v.sqrt_price >= w.sqrt_price
<1>1. /\ w \in SwapState /\ SumsHold(pos, w.ticks) /\ OrdersOK(w.ticks)
      /\ CountsHold(Counted(w), w.count, w.bitmap)
      /\ w.liquidity = Active(pos, w.tick)
      /\ w.tick < MaxTick /\ Ahead(w) /\ PriceIn(w.tick, w.sqrt_price)
      /\ SqrtPrice[MinTick] < w.limit /\ w.limit < SqrtPrice[MaxTick]
      /\ (IF w.zero_for_one THEN w.limit <= w.sqrt_price /\ w.sqrt_price < SqrtPrice[MaxTick]
          ELSE SqrtPrice[MinTick] <= w.sqrt_price /\ w.sqrt_price <= w.limit)
      /\ w.total_fee_rate = w.trade_fee_rate
      /\ \/ Orders = {}
         \/ w.base_input /\ is_fee_on_input(w.zero_for_one) => w.trade_fee_rate = 0
  BY DEF SwapInv
<1> DEFINE p == w.sqrt_price
           z == w.zero_for_one
           n == w.tick_next
           T == SqrtPrice[n]
           l == w.limit
           target == target_price(w, n)
           q == s.price
           u == apply_swap_amounts(w, s)
           t == IF q # T /\ q # p THEN get_tick_at_sqrt_price(q) ELSE w.tick
           st == IF q = T THEN "match" ELSE IF u.remaining = 0 \/ q = target THEN "search"
                 ELSE "compute"
           x == [u EXCEPT !.sqrt_price = q, !.tick = t]
<1>2. s.ok /\ used(w, s) <= w.remaining
  BY DEF can_compute
<1>3. /\ target \in Nat /\ target \in {l, T}
      /\ (IF z THEN T <= target /\ l <= target ELSE target <= T /\ target <= l)
      /\ StepSound(s, p, target, z)
  BY <1>2, StepToTarget
<1>4. /\ q \in Nat /\ AmountsOf(s)
      /\ (IF z THEN target <= q /\ q <= p ELSE p <= q /\ q <= target)
  BY <1>3 DEF StepSound, AmountsOf
<1>5. u \in SwapState /\ Kept(w, u)
  BY <1>1, <1>2, <1>4, AmountsApplied
<1>6. p \in Nat /\ z \in BOOLEAN /\ l \in Nat /\ n \in Ticks /\ T \in Nat
      /\ w.tick \in Ticks /\ w.tick \in Int
  BY <1>1, SwapFields, PriceOrder DEF Ahead
<1>7. IF z THEN l <= q /\ T <= q /\ q <= p ELSE q <= l /\ p <= q /\ q <= T
  <2> HIDE DEF p, z, l, T, target, q
  <2> QED BY <1>3, <1>4, <1>6
<1>8. q # T /\ q # p => /\ t \in Ticks /\ t < MaxTick /\ PriceIn(t, q) /\ Active(pos, t) = w.liquidity
                        /\ IF z THEN n <= t /\ t <= w.tick ELSE w.tick <= t /\ t < n
  BY <1>4, <1>7, TickAfterStep
<1>9. ~(q # T /\ q # p) => t = w.tick
  OBVIOUS
<1>10. /\ t \in Ticks /\ t < MaxTick /\ Active(pos, t) = w.liquidity
       /\ q # T => PriceIn(t, q)
  BY <1>1, <1>6, <1>8, <1>9
<1>11. x \in SwapState /\ x.total_fee_rate = x.trade_fee_rate
  <2> HIDE DEF t, q, u
  <2> QED BY <1>1, <1>4, <1>5, <1>10 DEF SwapState, Kept
<1>12. v = [u EXCEPT !.sqrt_price = q, !.tick = t, !.stage = st]
  <2>1. u.tick_next = n /\ u.sqrt_price = p /\ u.tick = w.tick /\ target_price(u, n) = target
        /\ u.stage = "compute"
    BY <1>5 DEF Kept, target_price
  <2>2. at_price(u, q) = x
    BY <2>1 DEF at_price
  <2>3. update_dynamic_fee_index(x) = x
    <3> HIDE DEF x
    <3> QED BY <1>11, LoopTop
  <2>4. v = IF q = T THEN [x EXCEPT !.stage = "match"]
            ELSE IF u.remaining = 0 \/ q = target THEN [x EXCEPT !.stage = "search"]
            ELSE x
    <3> HIDE DEF x, q, u
    <3>1. v = IF q = SqrtPrice[u.tick_next] THEN [x EXCEPT !.stage = "match"]
              ELSE IF u.remaining = 0 \/ q = target_price(u, u.tick_next)
              THEN [x EXCEPT !.stage = "search"] ELSE x
      BY <2>2, <2>3 DEF moved_to, q, u
    <3> QED BY <2>1, <3>1
  <2> HIDE DEF t, q, u, T, target
  <2>5. x = [x EXCEPT !.stage = "compute"]
    BY <1>11, <2>1, <1>5 DEF SwapState
  <2>6. [x EXCEPT !.stage = "match"] = [u EXCEPT !.sqrt_price = q, !.tick = t, !.stage = "match"]
    BY <1>5 DEF SwapState
  <2>7. [x EXCEPT !.stage = "search"] = [u EXCEPT !.sqrt_price = q, !.tick = t, !.stage = "search"]
    BY <1>5 DEF SwapState
  <2>8. [x EXCEPT !.stage = "compute"] = [u EXCEPT !.sqrt_price = q, !.tick = t, !.stage = "compute"]
    BY <1>5 DEF SwapState
  <2> HIDE DEF x
  <2> QED BY <2>4, <2>5, <2>6, <2>7, <2>8
<1> HIDE DEF t, q, u, st, x
<1>13. st \in {"search", "compute", "match"} /\ (st = "match" <=> q = T)
  BY DEF st
<1>14. v \in SwapState
  <2>1. q \in Nat /\ t \in Ticks /\ st \in {"search", "compute", "match", "pass"}
    BY <1>4, <1>10, <1>13
  <2> QED BY ONLY <1>5, <1>12, <2>1 DEF SwapState
<1>15. /\ v.sqrt_price = q /\ v.tick = t /\ v.stage = st /\ v.remaining = u.remaining
       /\ v.zero_for_one = z /\ v.base_input = w.base_input
       /\ v.trade_fee_rate = w.trade_fee_rate /\ v.total_fee_rate = w.total_fee_rate
       /\ v.limit = l /\ v.liquidity = w.liquidity /\ v.tick_next = n
       /\ v.array = w.array /\ v.contains = w.contains /\ v.ticks = w.ticks
       /\ v.count = w.count /\ v.bitmap = w.bitmap
  BY <1>5, <1>12 DEF SwapState, Kept
<1>16. Counted(v) = Counted(w)
  BY <1>13, <1>15 DEF Counted
<1>17. ASSUME st # "search" PROVE Ahead(v)
  <2>1. /\ is_initialized(v.ticks[v.tick_next]) /\ v.contains
        /\ v.array = get_array_start_index(v.tick_next) /\ v.tick_next \in Ticks
    BY <1>1, <1>15 DEF Ahead
  <2>2. \A i \in Initialized(w.ticks) : i \in Int
    BY PriceOrder DEF Initialized
  <2>3. t \in Int /\ n \in Int
    BY <1>10, <1>6, PriceOrder
  <2>4. CASE z
    <3>1. n <= w.tick /\ \A i \in Initialized(w.ticks) : ~(n < i /\ i <= w.tick)
      BY <1>1, <2>4 DEF Ahead
    <3>2. n <= t /\ t <= w.tick
      BY <1>8, <1>9, <2>4, <3>1, <1>6
    <3>3. \A i \in Initialized(v.ticks) : ~(v.tick_next < i /\ i <= v.tick)
      <4>1. \A i \in Initialized(w.ticks) : ~(n < i /\ i <= t)
        <5> HIDE DEF n
        <5> QED BY <3>1, <3>2, <2>2, <2>3, <1>6
      <4> QED BY <4>1, <1>15
    <3>4. v.tick_next <= v.tick /\ SqrtPrice[v.tick_next] <= v.sqrt_price /\ v.zero_for_one
      BY <3>2, <1>7, <1>15, <2>4
    <3> QED BY <2>1, <3>3, <3>4 DEF Ahead
  <2>5. CASE ~z
    <3>1. w.tick < n /\ \A i \in Initialized(w.ticks) : ~(w.tick < i /\ i < n)
      BY <1>1, <2>5 DEF Ahead
    <3>2. w.tick <= t /\ t < n
      BY <1>8, <1>9, <2>5, <3>1, <1>6
    <3>3. \A i \in Initialized(v.ticks) : ~(v.tick < i /\ i < v.tick_next)
      <4>1. \A i \in Initialized(w.ticks) : ~(t < i /\ i < n)
        <5> HIDE DEF n
        <5> QED BY <3>1, <3>2, <2>2, <2>3, <1>6
      <4> QED BY <4>1, <1>15
    <3>4. v.tick < v.tick_next /\ v.sqrt_price <= SqrtPrice[v.tick_next] /\ ~v.zero_for_one
      BY <3>2, <1>7, <1>15, <2>5
    <3> QED BY <2>1, <3>3, <3>4 DEF Ahead
  <2> QED BY <2>4, <2>5, <1>6
<1>18. ASSUME st = "search" PROVE ~loop_continues(v)
  <2>1. u.remaining = 0 \/ (q = target /\ q # T)
    BY <1>18 DEF st
  <2>2. v.remaining = 0 \/ v.sqrt_price = v.limit
    BY <2>1, <1>3, <1>15
  <2> QED BY <2>2 DEF loop_continues
<1>19. IF z THEN l <= q /\ q < SqrtPrice[MaxTick] ELSE SqrtPrice[MinTick] <= q /\ q <= l
  <2>1. SqrtPrice[MinTick] \in Nat /\ SqrtPrice[MaxTick] \in Nat
    BY TickAssumption, PriceOrder DEF Ticks
  <2> QED BY <1>1, <1>4, <1>6, <1>7, <2>1
<1>20. v.stage \in {"search", "compute"} => PriceIn(v.tick, v.sqrt_price)
  BY <1>10, <1>13, <1>15
<1>21. v.stage \in {"match", "pass"} => v.sqrt_price = SqrtPrice[v.tick_next]
  BY <1>13, <1>15
<1>22. v.stage # "pass"
  BY <1>13, <1>15
<1>23. SwapInv(v, pos)
  <2>1. /\ SumsHold(pos, v.ticks) /\ OrdersOK(v.ticks)
        /\ CountsHold(Counted(v), v.count, v.bitmap)
        /\ v.liquidity = Active(pos, v.tick) /\ v.tick < MaxTick
    BY <1>1, <1>10, <1>15, <1>16
  <2>2. /\ SqrtPrice[MinTick] < v.limit /\ v.limit < SqrtPrice[MaxTick]
        /\ IF v.zero_for_one THEN v.limit <= v.sqrt_price /\ v.sqrt_price < SqrtPrice[MaxTick]
           ELSE SqrtPrice[MinTick] <= v.sqrt_price /\ v.sqrt_price <= v.limit
    BY <1>1, <1>15, <1>19
  <2>3. /\ v.total_fee_rate = v.trade_fee_rate
        /\ \/ Orders = {}
           \/ v.base_input /\ is_fee_on_input(v.zero_for_one) => v.trade_fee_rate = 0
    BY <1>1, <1>15
  <2>4. /\ v.stage = "search" /\ loop_continues(v) => Located(v)
        /\ v.stage # "search" => Ahead(v)
    BY <1>15, <1>17, <1>18
  <2> QED BY <1>14, <1>20, <1>21, <1>22, <2>1, <2>2, <2>3, <2>4 DEF SwapInv
<1>24. IF w.zero_for_one THEN v.sqrt_price <= w.sqrt_price ELSE v.sqrt_price >= w.sqrt_price
  BY <1>4, <1>6, <1>7, <1>15
<1> QED BY <1>15, <1>23, <1>24

(***************************************************************************)
(* Matching the orders of a tick.                                          *)
(***************************************************************************)
LEMMA CeilPositive ==
  ASSUME NEW a \in Nat \ {0}, NEW b \in Nat \ {0}, NEW d \in Nat \ {0}
  PROVE  mul_div_ceil(a, b, d) \in Nat \ {0}
<1> DEFINE x == a * b
<1>1. x \in Nat /\ x > 0
  BY MulNat
<1> HIDE DEF x
<1>2. (x + d - 1) \div d \in Nat /\ (x + d - 1) \div d > 0
  BY <1>1
<1>3. mul_div_ceil(a, b, d) = (x + d - 1) \div d
  BY DEF mul_div_ceil, x
<1> DEFINE y == (x + d - 1) \div d
<1> HIDE DEF y
<1>4. y \in Nat /\ y > 0
  BY <1>2 DEF y
<1> QED BY <1>3, <1>4 DEF y

\* The two roundings of the price at a tick.
PriceLo(t) == mul_div_floor(SqrtPrice[t], SqrtPrice[t], Q64)
PriceHi(t) == mul_div_ceil(SqrtPrice[t], SqrtPrice[t], Q64)

LEMMA PricesAtTick ==
  ASSUME NEW t \in Ticks
  PROVE  PriceLo(t) \in Nat \ {0} /\ PriceHi(t) \in Nat \ {0}
<1>1. SqrtPrice[t] \in Nat \ {0} /\ Q64 \in Nat \ {0}
  BY PriceOrder, RatesTyped DEF RatesOK
<1>2. PriceLo(t) \in Nat /\ PriceLo(t) > 0
  BY <1>1, FloorNat, TickAssumption DEF PriceLo
<1>3. PriceHi(t) \in Nat \ {0}
  BY <1>1, CeilPositive DEF PriceHi
<1> QED BY <1>2, <1>3

\* What an amount buys at the tick, and what an amount costs there.
LEMMA OrderPrices ==
  ASSUME NEW t \in Ticks, NEW a \in Nat, NEW z \in BOOLEAN
  PROVE  /\ AtTick(t)!get_limit_order_output(a, z) \in Nat
         /\ a = 0 => AtTick(t)!get_limit_order_output(a, z) = 0
         /\ AtTick(t)!get_limit_order_input(a, z) \in Nat
         /\ a > 0 => AtTick(t)!get_limit_order_input(a, z) > 0
<1> DEFINE lo == PriceLo(t)
           hi == PriceHi(t)
           out == AtTick(t)!get_limit_order_output(a, z)
           in == AtTick(t)!get_limit_order_input(a, z)
<1>1. lo \in Nat \ {0} /\ hi \in Nat \ {0} /\ Q64 \in Nat \ {0}
  BY PricesAtTick, RatesTyped DEF RatesOK
<1>2. out = IF z THEN mul_div_floor(a, lo, Q64) ELSE mul_div_floor(a, Q64, hi)
  BY DEF AtTick!get_limit_order_output, AtTick!mul_div_floor, mul_div_floor, PriceLo, PriceHi
<1>3. in = IF z THEN mul_div_ceil(a, hi, Q64) ELSE mul_div_ceil(a, Q64, lo)
  BY DEF AtTick!get_limit_order_input, AtTick!mul_div_ceil, mul_div_ceil, PriceLo, PriceHi
<1> HIDE DEF lo, hi
<1>4. /\ mul_div_floor(a, lo, Q64) \in Nat /\ (a = 0 => mul_div_floor(a, lo, Q64) = 0)
      /\ mul_div_floor(a, Q64, hi) \in Nat /\ (a = 0 => mul_div_floor(a, Q64, hi) = 0)
  BY <1>1, FloorNat
<1>5. mul_div_ceil(a, hi, Q64) \in Nat /\ mul_div_ceil(a, Q64, lo) \in Nat
  BY <1>1, CeilNat
<1>6. a > 0 => mul_div_ceil(a, hi, Q64) > 0 /\ mul_div_ceil(a, Q64, lo) > 0
  <2> SUFFICES ASSUME a > 0 PROVE mul_div_ceil(a, hi, Q64) > 0 /\ mul_div_ceil(a, Q64, lo) > 0
    OBVIOUS
  <2>1. a \in Nat \ {0}
    OBVIOUS
  <2>2. mul_div_ceil(a, hi, Q64) \in Nat \ {0} /\ mul_div_ceil(a, Q64, lo) \in Nat \ {0}
    BY <2>1, <1>1, CeilPositive
  <2> QED BY <2>2
<1> HIDE DEF out, in
<1>7. out \in Nat /\ (a = 0 => out = 0) /\ in \in Nat /\ (a > 0 => in > 0)
  BY <1>2, <1>3, <1>4, <1>5, <1>6
<1> QED BY <1>7 DEF out, in

\* Consuming at most what is unfilled leaves orders that a tick can have.
LEMMA ConsumeType ==
  ASSUME NEW t \in Ticks, NEW o \in OrdersOfTick, NEW out \in Nat, out <= unfilled(o)
  PROVE  AtTick(t)!consume(o, out) \in OrdersOfTick
<1> DEFINE part == o.part_filled_orders_remaining
           all == o.orders_amount
           from == IF part <= out THEN part ELSE out
           rest == out - from
           a == part - from
           b == all - rest
           r1 == IF from > 0 THEN mul_div_floor(o.unfilled_ratio_x64, a, part)
                 ELSE o.unfilled_ratio_x64
           r2 == mul_div_floor(Q64, b, all)
           ph == IF o.order_phase + 1 >= PhaseMax THEN PhaseMax ELSE o.order_phase + 1
<1>1. part \in Nat /\ all \in Nat /\ o.unfilled_ratio_x64 \in Nat /\ o.order_phase \in Nat
  BY DEF OrdersOfTick
<1>2. out <= all + part
  BY DEF unfilled, AtTick!limit_order_unfilled_amount
<1>3. AtTick(t)!consume(o, out) =
        IF rest = 0
        THEN [o EXCEPT !.part_filled_orders_remaining = a, !.unfilled_ratio_x64 = r1]
        ELSE [order_phase |-> ph, orders_amount |-> 0,
              part_filled_orders_remaining |-> b, unfilled_ratio_x64 |-> r2]
  BY DEF AtTick!consume, AtTick!least, AtTick!mul_div_floor, mul_div_floor, AtTick!phase_after
<1> HIDE DEF part, all
<1>4. /\ from \in Nat /\ rest \in Nat /\ a \in Nat /\ (from > 0 => part \in Nat \ {0})
      /\ (rest # 0 => b \in Nat /\ all \in Nat \ {0})
  BY <1>1, <1>2
<1> HIDE DEF from, rest, a, b
<1>5. r1 \in Nat
  <2>1. CASE from > 0
    <3>1. mul_div_floor(o.unfilled_ratio_x64, a, part) \in Nat
      BY <1>1, <1>4, <2>1, FloorNat
    <3> QED BY <2>1, <3>1
  <2>2. CASE ~(from > 0)
    BY <1>1, <2>2
  <2> QED BY <2>1, <2>2
<1>6. rest # 0 => r2 \in Nat
  <2>1. rest # 0 => mul_div_floor(Q64, b, all) \in Nat
    BY <1>4, FloorNat, RatesTyped DEF RatesOK
  <2> QED BY <2>1
<1>7. ph \in Nat
  BY <1>1, RateAssumption
<1> HIDE DEF r1, r2, ph
<1> DEFINE c == AtTick(t)!consume(o, out)
<1> HIDE DEF c
<1>8. c = IF rest = 0
          THEN [o EXCEPT !.part_filled_orders_remaining = a, !.unfilled_ratio_x64 = r1]
          ELSE [order_phase |-> ph, orders_amount |-> 0,
                part_filled_orders_remaining |-> b, unfilled_ratio_x64 |-> r2]
  BY <1>3 DEF c
<1>9. CASE rest = 0
  <2>1. c \in OrdersOfTick
    BY <1>4, <1>5, <1>8, <1>9 DEF OrdersOfTick
  <2> QED BY <2>1 DEF c
<1>10. CASE rest # 0
  <2>1. c \in OrdersOfTick
    BY <1>4, <1>6, <1>7, <1>8, <1>10 DEF OrdersOfTick
  <2> QED BY <2>1 DEF c
<1> QED BY <1>9, <1>10

\* A match takes no more orders than there are.  It is paid for; when it takes
\* none, it takes what remains of the swap, unless that is left over for the
\* fee alone.
LEMMA MatchSound ==
  ASSUME NEW t \in Ticks, NEW o \in OrdersOfTick, unfilled(o) > 0, NEW amount \in Nat \ {0},
         NEW z \in BOOLEAN, NEW base \in BOOLEAN, NEW on \in BOOLEAN, NEW rate \in Rates,
         NEW m, m = AtTick(t)!match_amounts(o, amount, z, base, rate, on)
  PROVE  /\ AmountsOf(m) /\ m.gross_out \in Nat /\ m.gross_out <= unfilled(o)
         /\ m.gross_out > 0 => m.amount_in > 0
         /\ m.gross_out = 0 /\ (base /\ on => rate = 0) =>
              base /\ m.amount_in = amount /\ (on => m.fee = 0)
<1> DEFINE total == unfilled(o)
           F(a) == mul_div_ceil(a, rate, FeeDenom)
           G(a) == mul_div_ceil(a, rate, FeeDenom - rate)
           fi == IF on THEN F(amount) ELSE 0
           left == amount - fi
           buys == AtTick(t)!get_limit_order_output(left, z)
           owed == AtTick(t)!get_limit_order_input(total, ~z)
           net == IF amount <= total THEN amount ELSE total
           up == mul_div_ceil(net, FeeDenom, FeeDenom - rate)
           gross == IF on THEN net ELSE IF up <= total THEN up ELSE total
           cost == AtTick(t)!get_limit_order_input(gross, ~z)
           in == IF base THEN (IF buys > total THEN owed ELSE left) ELSE cost
           out == IF base THEN (IF buys > total THEN total ELSE buys) ELSE gross
           f0 == IF base THEN (IF buys > total THEN G(owed) ELSE fi) ELSE G(cost)
           fee == IF on THEN f0 ELSE F(out)
<1>0. /\ FeeDenom \in Nat \ {0} /\ rate \in Nat /\ rate <= FeeDenom /\ FeeDenom - rate \in Nat \ {0}
  BY RatesTyped DEF RatesOK, Rates
<1>1. total \in Nat \ {0}
  BY DEF unfilled, AtTick!limit_order_unfilled_amount, OrdersOfTick
<1>2. \A a \in Nat : F(a) \in Nat /\ G(a) \in Nat /\ F(a) <= a /\ (rate = 0 => F(a) = 0)
  <2> SUFFICES ASSUME NEW a \in Nat
               PROVE  F(a) \in Nat /\ G(a) \in Nat /\ F(a) <= a /\ (rate = 0 => F(a) = 0)
    OBVIOUS
  <2>1. F(a) \in Nat /\ G(a) \in Nat /\ (rate = 0 => F(a) = 0)
    BY <1>0, CeilNat
  <2>2. mul_div_ceil(rate, a, FeeDenom) <= a
    BY <1>0, CeilAtMost
  <2>3. F(a) = mul_div_ceil(rate, a, FeeDenom)
    <3>1. a * rate = rate * a
      BY <1>0
    <3> QED BY <3>1 DEF mul_div_ceil
  <2> QED BY <2>1, <2>2, <2>3
<1>3. m = [amount_in |-> in, gross_out |-> out, fee |-> fee,
           amount_out |-> IF on THEN out ELSE out - fee]
  <2>1. /\ \A a : AtTick(t)!fee_of(a, rate) = F(a) /\ AtTick(t)!fee_on_top(a, rate) = G(a)
        /\ AtTick(t)!limit_order_unfilled_amount(o) = total
        /\ AtTick(t)!mul_div_ceil(net, FeeDenom, FeeDenom - rate) = up
        /\ \A a, b : AtTick(t)!least(a, b) = IF a <= b THEN a ELSE b
    BY DEF AtTick!fee_of, AtTick!fee_on_top, AtTick!mul_div_ceil, mul_div_ceil, unfilled,
           AtTick!limit_order_unfilled_amount, AtTick!least
  <2>2. AtTick(t)!base_input_amounts(o, amount, z, rate, on)
          = IF buys > total
            THEN [amount_in |-> owed, gross_out |-> total, fee |-> IF on THEN G(owed) ELSE 0]
            ELSE [amount_in |-> left, gross_out |-> buys, fee |-> fi]
    <3> HIDE DEF total, F, G
    <3> QED BY <2>1 DEF AtTick!base_input_amounts
  <2>3. AtTick(t)!base_output_amounts(o, amount, z, rate, on)
          = [amount_in |-> cost, gross_out |-> gross, fee |-> IF on THEN G(cost) ELSE 0]
    <3>1. AtTick(t)!least(amount, AtTick(t)!limit_order_unfilled_amount(o)) = net
      BY <2>1
    <3>2. AtTick(t)!least(up, total) = IF up <= total THEN up ELSE total
      BY <2>1
    <3> HIDE DEF total, F, G, net, up
    <3> QED BY <2>1, <3>1, <3>2 DEF AtTick!base_output_amounts
  <2> HIDE DEF total, F, G, fi, left, buys, owed, gross, cost
  <2>4. CASE base
    BY <2>1, <2>2, <2>4 DEF AtTick!match_amounts, fi
  <2>5. CASE ~base
    BY <2>1, <2>3, <2>5 DEF AtTick!match_amounts
  <2> QED BY <2>4, <2>5
<1> HIDE DEF F, G, total
<1>4. fi \in Nat /\ left \in Nat
  BY <1>2
<1> HIDE DEF left, fi
<1>5. /\ buys \in Nat /\ (left = 0 => buys = 0) /\ owed \in Nat /\ owed > 0
  <2>1. buys \in Nat /\ (left = 0 => buys = 0)
    <3> HIDE DEF left
    <3> QED BY <1>4, OrderPrices, Zenon
  <2>2. \A y \in BOOLEAN : /\ AtTick(t)!get_limit_order_input(total, y) \in Nat
                            /\ AtTick(t)!get_limit_order_input(total, y) > 0
    BY <1>1, OrderPrices
  <2>3. (~z) \in BOOLEAN
    OBVIOUS
  <2>4. owed \in Nat /\ owed > 0
    BY <2>2, <2>3, Zenon
  <2> QED BY <2>1, <2>4
<1>6. net \in Nat \ {0} /\ net <= total
  BY <1>1
<1> HIDE DEF net
<1>7. up \in Nat \ {0}
  BY <1>0, <1>6, CeilPositive
<1> HIDE DEF up
<1>8. gross \in Nat \ {0} /\ gross <= total
  BY <1>1, <1>6, <1>7
<1> HIDE DEF gross
<1>9. cost \in Nat /\ cost > 0
  <2>1. \A y \in BOOLEAN : /\ AtTick(t)!get_limit_order_input(gross, y) \in Nat
                            /\ AtTick(t)!get_limit_order_input(gross, y) > 0
    BY <1>8, OrderPrices
  <2>2. (~z) \in BOOLEAN
    OBVIOUS
  <2> QED BY <2>1, <2>2, Zenon
<1> HIDE DEF buys, owed, cost
<1>10. in \in Nat /\ out \in Nat /\ out <= total /\ (out > 0 => in > 0)
  BY <1>1, <1>4, <1>5, <1>8, <1>9
<1>11. f0 \in Nat
  BY <1>2, <1>4, <1>5, <1>9
<1>12. out = 0 => base /\ in = left /\ f0 = fi
  BY <1>1, <1>8
<1>13. out = 0 /\ (base /\ on => rate = 0) => base /\ in = amount /\ (on => f0 = 0)
  <2> SUFFICES ASSUME out = 0, base /\ on => rate = 0 PROVE base /\ in = amount /\ (on => f0 = 0)
    OBVIOUS
  <2>1. base /\ in = left /\ f0 = fi
    BY <1>12
  <2>2. fi = 0
    BY <1>2, <2>1 DEF fi
  <2> HIDE DEF in, f0, out
  <2>3. left = amount
    BY <2>2 DEF left
  <2> QED BY <2>1, <2>2, <2>3
<1> HIDE DEF in, out, f0
<1>14. fee \in Nat /\ (on => fee = f0)
  BY <1>2, <1>10, <1>11
<1> HIDE DEF fee
<1>15. /\ m.amount_in = in /\ m.gross_out = out /\ m.fee = fee
       /\ m.amount_out = IF on THEN out ELSE out - fee
  BY <1>3
<1>16. AmountsOf(m)
  BY <1>10, <1>14, <1>15 DEF AmountsOf
<1> QED BY <1>10, <1>13, <1>14, <1>15, <1>16 DEF total

\* What a match leaves: nothing of the swap or nothing of the orders.
LEMMA MatchExhausts ==
  ASSUME NEW pos, NEW w, SwapInv(w, pos), w.stage = "match",
         NEW m, m = match_limit_order(w), can_match(w, m),
         NEW u, u = IF m.amount_in > 0 THEN apply_swap_amounts(w, m) ELSE w
  PROVE  /\ u \in SwapState /\ Kept(w, u) /\ m.amount_in \in Int /\ m.gross_out \in Int
         /\ orders_after(w, m) \in OrdersOfTick
         /\ u.remaining = 0 \/ unfilled(orders_after(w, m)) = 0
         /\ Orders = {} => orders_after(w, m) = w.ticks[w.tick_next].orders
<1> DEFINE n == w.tick_next
           o == w.ticks[n].orders
           on == is_fee_on_input(w.zero_for_one)
           oa == orders_after(w, m)
<1>0. /\ w \in SwapState /\ Ahead(w) /\ OrdersOK(w.ticks) /\ w.total_fee_rate = w.trade_fee_rate
      /\ \/ Orders = {}
         \/ w.base_input /\ is_fee_on_input(w.zero_for_one) => w.trade_fee_rate = 0
  BY DEF SwapInv
<1>1. n \in Ticks /\ w.ticks[n] \in TickState
  BY <1>0, SwapFields DEF Ahead
<1>2. o \in OrdersOfTick /\ unfilled(o) \in Nat
  BY <1>1 DEF TickState, OrdersOfTick, unfilled, AtTick!limit_order_unfilled_amount
<1>3. Kept(w, w)
  BY DEF Kept
<1>4. used(w, m) <= w.remaining
      /\ (used(w, m) # w.remaining /\ m.gross_out > 0 => unfilled(oa) = 0)
  BY DEF can_match
<1>5. CASE w.remaining = 0 \/ unfilled(o) = 0
  <2>1. m = [amount_in |-> 0, gross_out |-> 0, fee |-> 0, amount_out |-> 0]
    BY <1>5 DEF match_limit_order
  <2>2. u = w /\ oa = o /\ m.amount_in = 0 /\ m.gross_out = 0
    BY <2>1 DEF orders_after
  <2> QED BY <1>0, <1>2, <1>3, <1>5, <2>2
<1>6. CASE w.remaining # 0 /\ unfilled(o) # 0
  <2>1. m = AtTick(n)!match_amounts(o, w.remaining, w.zero_for_one, w.base_input,
                                    w.total_fee_rate, on)
    BY <1>6 DEF match_limit_order
  <2>2. /\ w.remaining \in Nat \ {0} /\ w.zero_for_one \in BOOLEAN /\ w.base_input \in BOOLEAN
        /\ w.total_fee_rate \in Rates /\ on \in BOOLEAN /\ unfilled(o) > 0
    <3>1. /\ w.remaining \in Nat \ {0} /\ w.zero_for_one \in BOOLEAN /\ w.base_input \in BOOLEAN
          /\ w.total_fee_rate \in Rates
      BY <1>0, <1>6, SwapFields
    <3>2. on \in BOOLEAN
      BY <3>1, FeeSide
    <3>3. unfilled(o) > 0
      BY <1>2, <1>6
    <3> QED BY <3>1, <3>2, <3>3
  <2>3. /\ AmountsOf(m) /\ m.gross_out \in Nat /\ m.gross_out <= unfilled(o)
        /\ m.gross_out > 0 => m.amount_in > 0
        /\ m.gross_out = 0 /\ (w.base_input /\ on => w.total_fee_rate = 0) =>
             w.base_input /\ m.amount_in = w.remaining /\ (on => m.fee = 0)
    <3> DEFINE a == w.remaining
               z == w.zero_for_one
               b == w.base_input
               r == w.total_fee_rate
    <3>1. m = AtTick(n)!match_amounts(o, a, z, b, r, on)
      BY <2>1
    <3>2. /\ a \in Nat \ {0} /\ z \in BOOLEAN /\ b \in BOOLEAN /\ r \in Rates /\ on \in BOOLEAN
          /\ unfilled(o) > 0
      BY <2>2
    <3> HIDE DEF a, z, b, r, on, o, n
    <3>3. /\ AmountsOf(m) /\ m.gross_out \in Nat /\ m.gross_out <= unfilled(o)
          /\ m.gross_out > 0 => m.amount_in > 0
          /\ m.gross_out = 0 /\ (b /\ on => r = 0) => b /\ m.amount_in = a /\ (on => m.fee = 0)
      BY <3>1, <3>2, <1>1, <1>2, MatchSound
    <3> QED BY <3>3 DEF a, b, r
  <2>4. w.base_input /\ on => w.total_fee_rate = 0
    <3>1. Orders # {}
      BY <1>0, <1>1, <1>6 DEF OrdersOK
    <3> QED BY <1>0, <3>1
  <2>5. m.amount_in > 0
    BY <2>2, <2>3, <2>4
  <2>6. u = apply_swap_amounts(w, m)
    BY <2>5
  <2>7. u \in SwapState /\ Kept(w, u) /\ u.remaining = w.remaining - used(w, m) /\ used(w, m) \in Int
    BY <1>0, <1>4, <2>3, <2>6, AmountsApplied
  <2>8. oa \in OrdersOfTick
    <3>1. CASE m.gross_out > 0
      <4>1. oa = AtTick(n)!consume(o, m.gross_out)
        BY <3>1 DEF orders_after
      <4> HIDE DEF oa, o, n
      <4> QED BY <4>1, <1>1, <1>2, <2>3, ConsumeType
    <3>2. CASE ~(m.gross_out > 0)
      BY <1>2, <3>2 DEF orders_after
    <3> QED BY <3>1, <3>2
  <2>9. u.remaining = 0 \/ unfilled(oa) = 0
    <3>1. CASE m.gross_out = 0
      <4>1. w.base_input /\ m.amount_in = w.remaining /\ (on => m.fee = 0)
        BY <2>3, <2>4, <3>1
      <4>2. paid_in(w, m) = w.remaining
        <5>1. m.fee \in Nat /\ w.remaining \in Nat
          BY <2>2, <2>3 DEF AmountsOf
        <5> QED BY <4>1, <5>1 DEF paid_in
      <4>3. used(w, m) = w.remaining
        BY <4>1, <4>2 DEF used
      <4> QED BY <2>2, <2>7, <4>3
    <3>2. CASE m.gross_out # 0
      <4>1. m.gross_out > 0
        BY <2>3, <3>2
      <4>2. CASE used(w, m) = w.remaining
        BY <2>2, <2>7, <4>2
      <4>3. CASE used(w, m) # w.remaining
        BY <1>4, <4>1, <4>3
      <4> QED BY <4>2, <4>3
    <3> QED BY <3>1, <3>2
  <2>10. Orders = {} => oa = o
    BY <1>0, <1>1, <1>6 DEF OrdersOK
  <2>11. m.amount_in \in Int /\ m.gross_out \in Int
    BY <2>3 DEF AmountsOf
  <2> QED BY <2>7, <2>8, <2>9, <2>10, <2>11
<1> QED BY <1>5, <1>6

\* Other orders at tick n.
LEMMA OrdersReplaced ==
  ASSUME NEW pos, NEW tks \in [Ticks -> TickState], NEW n \in Ticks, NEW oa \in OrdersOfTick,
         NEW tks2, tks2 = [tks EXCEPT ![n].orders = oa]
  PROVE  /\ tks2 \in [Ticks -> TickState]
         /\ SumsHold(pos, tks) => SumsHold(pos, tks2)
         /\ OrdersOK(tks) /\ (Orders = {} => oa = tks[n].orders) => OrdersOK(tks2)
         /\ \A t \in Ticks : t # n => tks2[t] = tks[t]
         /\ tks2[n] = [tks[n] EXCEPT !.orders = oa] /\ tks2[n].orders = oa
         /\ tks2[n].liquidity_gross = tks[n].liquidity_gross
         /\ tks2[n].liquidity_net = tks[n].liquidity_net
         /\ Initialized(tks2) \cup {n} = Initialized(tks) \cup {n}
<1> DEFINE T == [tks[n] EXCEPT !.orders = oa]
<1>1. tks2 = [tks EXCEPT ![n] = T]
  OBVIOUS
<1>2. tks[n] \in TickState
  OBVIOUS
<1>3. /\ T \in TickState /\ T.orders = oa /\ T.liquidity_gross = tks[n].liquidity_gross
      /\ T.liquidity_net = tks[n].liquidity_net
  BY <1>2 DEF TickState
<1> HIDE DEF T
<1>4. /\ tks2 \in [Ticks -> TickState] /\ (\A t \in Ticks : t # n => tks2[t] = tks[t])
      /\ tks2[n] = T
  BY <1>1, <1>3
<1>5. SumsHold(pos, tks) => SumsHold(pos, tks2)
  BY <1>3, <1>4 DEF SumsHold
<1>6. OrdersOK(tks) /\ (Orders = {} => oa = tks[n].orders) => OrdersOK(tks2)
  BY <1>3, <1>4 DEF OrdersOK
<1>7. Initialized(tks2) \cup {n} = Initialized(tks) \cup {n}
  BY <1>4 DEF Initialized
<1> QED BY <1>3, <1>4, <1>5, <1>6, <1>7 DEF T

LEMMA MatchKeeps ==
  ASSUME NEW pos, NEW w, SwapInv(w, pos), w.stage = "match",
         NEW m, m = match_limit_order(w), can_match(w, m), NEW v, v = matched(w, m)
  PROVE  SwapInv(v, pos) /\ v.zero_for_one = w.zero_for_one /\ v.sqrt_price = w.sqrt_price
<1>1. /\ w \in SwapState /\ SumsHold(pos, w.ticks) /\ OrdersOK(w.ticks)
      /\ CountsHold(Counted(w), w.count, w.bitmap)
      /\ w.liquidity = Active(pos, w.tick)
      /\ w.tick < MaxTick /\ Ahead(w)
      /\ SqrtPrice[MinTick] < w.limit /\ w.limit < SqrtPrice[MaxTick]
      /\ (IF w.zero_for_one THEN w.limit <= w.sqrt_price /\ w.sqrt_price < SqrtPrice[MaxTick]
          ELSE SqrtPrice[MinTick] <= w.sqrt_price /\ w.sqrt_price <= w.limit)
      /\ w.total_fee_rate = w.trade_fee_rate
      /\ (\/ Orders = {}
          \/ w.base_input /\ is_fee_on_input(w.zero_for_one) => w.trade_fee_rate = 0)
      /\ w.sqrt_price = SqrtPrice[w.tick_next]
  BY DEF SwapInv
<1> DEFINE n == w.tick_next
           oa == orders_after(w, m)
           u == IF m.amount_in > 0 THEN apply_swap_amounts(w, m) ELSE w
           tks == [w.ticks EXCEPT ![n].orders = oa]
           x == u.order_in + m.amount_in
           y == u.order_out + m.gross_out
<1>2. /\ u \in SwapState /\ Kept(w, u) /\ m.amount_in \in Int /\ m.gross_out \in Int
      /\ oa \in OrdersOfTick
      /\ u.remaining = 0 \/ unfilled(oa) = 0
      /\ Orders = {} => oa = w.ticks[n].orders
  BY MatchExhausts
<1>3. n \in Ticks /\ w.ticks \in [Ticks -> TickState]
  BY <1>1, SwapFields DEF Ahead
<1>4. v = [u EXCEPT !.ticks = tks, !.order_in = x, !.order_out = y, !.stage = "pass"]
  <2>1. v = [u EXCEPT !.ticks[n].orders = oa, !.order_in = @ + m.amount_in,
                      !.order_out = @ + m.gross_out, !.stage = "pass"]
    BY DEF matched
  <2>2. u.ticks = w.ticks
    BY <1>2 DEF Kept
  <2> HIDE DEF u, oa, n
  <2> QED BY <2>1, <2>2
<1> HIDE DEF oa, u
<1>5. /\ tks \in [Ticks -> TickState] /\ SumsHold(pos, tks) /\ OrdersOK(tks)
      /\ (\A t \in Ticks : t # n => tks[t] = w.ticks[t]) /\ tks[n].orders = oa
      /\ Initialized(tks) \cup {n} = Initialized(w.ticks) \cup {n}
  BY <1>1, <1>2, <1>3, OrdersReplaced
<1>6. x \in Int /\ y \in Int
  <2>1. u.order_in \in Int /\ u.order_out \in Int
    BY <1>2, SwapFields
  <2> QED BY <1>2, <2>1
<1> HIDE DEF tks, x, y
<1>7. v \in SwapState
  BY ONLY <1>2, <1>4, <1>5, <1>6 DEF SwapState
<1>8. /\ v.sqrt_price = w.sqrt_price /\ v.tick = w.tick /\ v.stage = "pass"
      /\ v.remaining = u.remaining
      /\ v.zero_for_one = w.zero_for_one /\ v.base_input = w.base_input
      /\ v.trade_fee_rate = w.trade_fee_rate /\ v.total_fee_rate = w.total_fee_rate
      /\ v.limit = w.limit /\ v.liquidity = w.liquidity /\ v.tick_next = n
      /\ v.array = w.array /\ v.contains = w.contains /\ v.ticks = tks
      /\ v.count = w.count /\ v.bitmap = w.bitmap
  BY ONLY <1>2, <1>4 DEF SwapState, Kept
<1>9. Counted(v) = Counted(w)
  <2>1. n \in Initialized(w.ticks)
    BY <1>1, <1>3 DEF Ahead, Initialized
  <2>2. Counted(w) = Initialized(w.ticks) /\ Counted(v) = Initialized(tks) \cup {n}
    BY <1>8 DEF Counted
  <2> HIDE DEF n
  <2> QED BY <2>1, <2>2, <1>5
<1>10. Ahead(v)
  <2>1. /\ v.tick_next \in Ticks /\ v.contains /\ v.array = get_array_start_index(v.tick_next)
        /\ v.stage = "pass"
    BY <1>1, <1>8 DEF Ahead
  <2>2. \A t \in Initialized(v.ticks) : t \in Initialized(w.ticks) \/ t = n
    BY <1>5, <1>8
  <2>3. n \in Int /\ w.zero_for_one \in BOOLEAN
    BY <1>1, <1>3, PriceOrder, SwapFields
  <2>4. CASE w.zero_for_one
    <3>1. /\ n <= w.tick /\ SqrtPrice[n] <= w.sqrt_price
          /\ \A t \in Initialized(w.ticks) : ~(n < t /\ t <= w.tick)
      BY <1>1, <2>4 DEF Ahead
    <3>2. \A t \in Initialized(v.ticks) : ~(n < t /\ t <= w.tick)
      BY <2>2, <2>3, <3>1
    <3> QED BY <1>8, <2>1, <2>4, <3>1, <3>2 DEF Ahead
  <2>5. CASE ~w.zero_for_one
    <3>1. /\ w.tick < n /\ w.sqrt_price <= SqrtPrice[n]
          /\ \A t \in Initialized(w.ticks) : ~(w.tick < t /\ t < n)
      BY <1>1, <2>5 DEF Ahead
    <3>2. \A t \in Initialized(v.ticks) : ~(w.tick < t /\ t < n)
      BY <2>2, <2>3, <3>1
    <3> QED BY <1>8, <2>1, <2>5, <3>1, <3>2 DEF Ahead
  <2> QED BY <2>3, <2>4, <2>5
<1>11. v.remaining = 0 \/ unfilled(v.ticks[v.tick_next].orders) = 0
  BY <1>2, <1>5, <1>8
<1>12. SwapInv(v, pos)
  <2>1. /\ SumsHold(pos, v.ticks) /\ OrdersOK(v.ticks)
        /\ CountsHold(Counted(v), v.count, v.bitmap)
        /\ v.liquidity = Active(pos, v.tick) /\ v.tick < MaxTick
    BY <1>1, <1>5, <1>8, <1>9
  <2>2. /\ SqrtPrice[MinTick] < v.limit /\ v.limit < SqrtPrice[MaxTick]
        /\ IF v.zero_for_one THEN v.limit <= v.sqrt_price /\ v.sqrt_price < SqrtPrice[MaxTick]
           ELSE SqrtPrice[MinTick] <= v.sqrt_price /\ v.sqrt_price <= v.limit
    BY <1>1, <1>8
  <2>3. /\ v.total_fee_rate = v.trade_fee_rate
        /\ \/ Orders = {}
           \/ v.base_input /\ is_fee_on_input(v.zero_for_one) => v.trade_fee_rate = 0
    BY <1>1, <1>8
  <2>4. v.stage = "pass" /\ v.sqrt_price = SqrtPrice[v.tick_next]
    BY <1>1, <1>8
  <2> QED BY <1>7, <1>10, <1>11, <2>1, <2>2, <2>3, <2>4 DEF SwapInv
<1> QED BY <1>8, <1>12

(***************************************************************************)
(* Passing a tick.                                                         *)
(***************************************************************************)
LEMMA WrappingType ==
  ASSUME NEW x \in Int, NEW y \in Int
  PROVE  wrapping_sub(x, y) \in Growths
<1> DEFINE g == Growth
           d == x - y
<1>1. g \in Nat \ {0} /\ d \in Int
  BY RatesTyped DEF RatesOK
<1> HIDE DEF g, d
<1>2. d % g \in 0 .. (g - 1)
  BY <1>1
<1> QED BY <1>2 DEF g, d, wrapping_sub, Growths

\* Crossing turns the growth outside over and changes nothing else.
LEMMA CrossType ==
  ASSUME pool \in PoolState, NEW w \in SwapState, NEW T \in TickState
  PROVE  /\ cross(T, w) \in TickState /\ cross(T, w).orders = T.orders
         /\ cross(T, w).liquidity_gross = T.liquidity_gross
         /\ cross(T, w).liquidity_net = T.liquidity_net
<1> DEFINE o == T.fee_growth_outside
           g == [k \in Tokens |-> wrapping_sub(IF k = fee_token(w.zero_for_one) THEN w.fee_growth
                                               ELSE pool.fee_growth_global[k], o[k])]
<1>1. o \in [Tokens -> Growths] /\ pool.fee_growth_global \in [Tokens -> Growths]
      /\ w.fee_growth \in Growths /\ Growths \subseteq Int
  <2>1. Growths \subseteq Int
    BY RatesTyped DEF Growths, RatesOK
  <2>2. o \in [Tokens -> Growths]
    BY DEF TickState
  <2>3. pool.fee_growth_global \in [Tokens -> Growths]
    BY DEF PoolState
  <2> QED BY <2>1, <2>2, <2>3, SwapFields
<1>2. g \in [Tokens -> Growths]
  <2> HIDE DEF o
  <2>1. ASSUME NEW k \in Tokens PROVE g[k] \in Growths
    <3> DEFINE x == IF k = fee_token(w.zero_for_one) THEN w.fee_growth
                    ELSE pool.fee_growth_global[k]
    <3>1. x \in Int /\ o[k] \in Int
      BY <1>1
    <3>2. g[k] = wrapping_sub(x, o[k])
      OBVIOUS
    <3> HIDE DEF x, g
    <3> QED BY <3>1, <3>2, WrappingType
  <2> QED BY <2>1
<1>3. cross(T, w) = [T EXCEPT !.fee_growth_outside = g]
  BY DEF cross
<1> HIDE DEF g
<1> QED BY <1>2, <1>3 DEF TickState

\* What is left at the tick that is passed.
LEMMA LeftAtTick ==
  ASSUME NEW T \in TickState
  PROVE  /\ has_limit_orders(T.orders) <=> unfilled(T.orders) # 0
         /\ is_initialized(T) <=> T.liquidity_gross # 0 \/ has_limit_orders(T.orders)
         /\ crosses(T) <=> T.liquidity_gross # 0 /\ ~has_limit_orders(T.orders)
         /\ has_limit_orders(T.orders) \in BOOLEAN
<1>1. /\ T.liquidity_gross \in Nat /\ T.orders.orders_amount \in Nat
      /\ T.orders.part_filled_orders_remaining \in Nat
  BY DEF TickState, OrdersOfTick
<1>2. has_limit_orders(T.orders) <=> T.orders.orders_amount > 0
                                     \/ T.orders.part_filled_orders_remaining > 0
  BY DEF has_limit_orders, AtTick!has_limit_orders
<1>3. unfilled(T.orders) = T.orders.orders_amount + T.orders.part_filled_orders_remaining
  BY DEF unfilled, AtTick!limit_order_unfilled_amount
<1>4. has_limit_orders(T.orders) <=> unfilled(T.orders) # 0
  <2>1. (T.orders.orders_amount > 0 \/ T.orders.part_filled_orders_remaining > 0)
          <=> unfilled(T.orders) # 0
    <3> DEFINE a == T.orders.orders_amount
               b == T.orders.part_filled_orders_remaining
               c == unfilled(T.orders)
    <3>1. a \in Nat /\ b \in Nat /\ c = a + b
      BY <1>1, <1>3
    <3> HIDE DEF a, b, c
    <3>2. (a > 0 \/ b > 0) <=> c # 0
      BY <3>1
    <3> QED BY <3>2 DEF a, b, c
  <2> QED BY <2>1, <1>2, Zenon
<1>5. has_liquidity(T) <=> T.liquidity_gross # 0
  BY <1>1 DEF has_liquidity
<1>6. has_limit_orders(T.orders) \in BOOLEAN
  BY DEF has_limit_orders, AtTick!has_limit_orders
<1> QED BY <1>4, <1>5, <1>6 DEF is_initialized, crosses

\* The tick that is passed is left on its far side, or on this side if orders
\* are left at it; the liquidity is that of the side the swap is on.
LEMMA PassSide ==
  ASSUME NEW pos, PositionsOK(pos), NEW w, SwapInv(w, pos), w.stage = "pass",
         NEW T, T = w.ticks[w.tick_next]
  PROVE  /\ w.tick_next \in Ticks /\ T \in TickState
         /\ tick_after(w) \in Ticks /\ tick_after(w) < MaxTick
         /\ PriceIn(tick_after(w), w.sqrt_price)
         /\ (IF crosses(T) THEN crossed_liquidity(w) ELSE w.liquidity) = Active(pos, tick_after(w))
         /\ ~has_limit_orders(T.orders) =>
              tick_after(w) = IF w.zero_for_one THEN w.tick_next - 1 ELSE w.tick_next
<1> DEFINE n == w.tick_next
           c == w.tick
           z == w.zero_for_one
           p == w.sqrt_price
           g == T.liquidity_gross
           h == T.liquidity_net
           left == has_limit_orders(T.orders)
           t == tick_after(w)
           L == IF crosses(T) THEN crossed_liquidity(w) ELSE w.liquidity
<1>1. /\ w \in SwapState /\ SumsHold(pos, w.ticks) /\ w.liquidity = Active(pos, c)
      /\ c < MaxTick /\ Ahead(w)
      /\ SqrtPrice[MinTick] < w.limit /\ w.limit < SqrtPrice[MaxTick]
      /\ (IF z THEN w.limit <= p /\ p < SqrtPrice[MaxTick]
          ELSE SqrtPrice[MinTick] <= p /\ p <= w.limit)
      /\ p = SqrtPrice[n]
  BY DEF SwapInv
<1>2. /\ n \in Ticks /\ n \in Int /\ c \in Ticks /\ c \in Int /\ z \in BOOLEAN /\ p \in Nat
      /\ w.limit \in Nat /\ MinTick \in Ticks /\ MaxTick \in Ticks
      /\ MinTick \in Int /\ MaxTick \in Int /\ w.ticks \in [Ticks -> TickState]
  <2>1. n \in Ticks /\ MinTick \in Ticks /\ MaxTick \in Ticks
    BY <1>1, TickAssumption DEF Ahead, Ticks
  <2> QED BY <1>1, <2>1, SwapFields, PriceOrder
<1>3. T \in TickState
  BY <1>2
<1>4. MinTick < n /\ n < MaxTick
  <2>1. SqrtPrice[MinTick] < p \/ c < n
    BY <1>1, <1>2, PriceOrder DEF Ahead
  <2>2. p < SqrtPrice[MaxTick]
    <3>1. SqrtPrice[MaxTick] \in Nat
      BY <1>2, PriceOrder
    <3> QED BY <3>1, <1>1, <1>2
  <2>3. MinTick <= n /\ n <= MaxTick /\ MinTick <= c
    BY <1>2 DEF Ticks
  <2>4. n # MaxTick
    BY <2>2, <1>1, <1>2, PriceOrder
  <2>5. n # MinTick
    <3>1. CASE c < n
      BY <3>1, <2>3, <1>2
    <3>2. CASE SqrtPrice[MinTick] < p
      BY <3>2, <1>1, <1>2, PriceOrder
    <3> QED BY <2>1, <3>1, <3>2
  <2> QED BY <2>3, <2>4, <2>5, <1>2
<1>5. n - 1 \in Ticks /\ n - 1 \in Int /\ n + 1 \in Ticks
  BY <1>2, <1>4 DEF Ticks
<1>6. PriceIn(n, p) /\ PriceIn(n - 1, p)
  <2>1. SqrtPrice[n] < SqrtPrice[n + 1] /\ SqrtPrice[n - 1] < SqrtPrice[n]
    BY <1>2, <1>5, PriceOrder
  <2>2. SqrtPrice[n] \in Nat /\ SqrtPrice[n + 1] \in Nat /\ SqrtPrice[n - 1] \in Nat
    BY <1>2, <1>5, PriceOrder
  <2>3. n - 1 + 1 = n
    BY <1>2
  <2>4. SqrtPrice[n - 1 + 1] = SqrtPrice[n]
    BY <2>3
  <2> HIDE DEF n, p
  <2> QED BY <1>1, <2>1, <2>2, <2>4 DEF PriceIn
<1>7. \A u \in Initialized(w.ticks) : u \in Int
  BY PriceOrder DEF Initialized
<1>8. IF z THEN Active(pos, c) = Active(pos, n) ELSE Active(pos, c) = Active(pos, n - 1)
  <2>1. CASE z
    <3>1. n <= c /\ \A u \in Initialized(w.ticks) : ~(n < u /\ u <= c)
      BY <1>1, <2>1 DEF Ahead
    <3> HIDE DEF n, c
    <3>2. Active(pos, n) = Active(pos, c)
      BY <1>1, <1>2, <3>1, ActiveKept
    <3> QED BY <2>1, <3>2
  <2>2. CASE ~z
    <3>1. c < n /\ \A u \in Initialized(w.ticks) : ~(c < u /\ u < n)
      BY <1>1, <2>2 DEF Ahead
    <3> DEFINE k == n - 1
    <3> HIDE DEF n, c
    <3>2. k \in Int /\ c <= k /\ \A u \in Initialized(w.ticks) : ~(c < u /\ u <= k)
      BY <3>1, <1>2, <1>7
    <3> HIDE DEF k
    <3>3. Active(pos, c) = Active(pos, k)
      BY <1>1, <1>2, <3>2, ActiveKept
    <3> QED BY <2>2, <3>3 DEF k
  <2> QED BY <2>1, <2>2, <1>2
<1>9. /\ Active(pos, n) = Active(pos, n - 1) + h
      /\ g = 0 => h = 0
      /\ Active(pos, n) \in Int /\ Active(pos, n - 1) \in Int /\ h \in Int /\ g \in Nat
  <2>1. g = Lower(pos, n) + Upper(pos, n) /\ h = Lower(pos, n) - Upper(pos, n)
    BY <1>1, <1>2 DEF SumsHold
  <2>2. Lower(pos, n) \in Nat /\ Upper(pos, n) \in Nat /\ Active(pos, n) \in Nat
    BY <1>2, SumsNat
  <2>3. Active(pos, n - 1) \in Nat
    <3> DEFINE k == n - 1
    <3> HIDE DEF k
    <3>1. k \in Int
      BY <1>5 DEF k
    <3>2. Active(pos, k) \in Nat
      BY <3>1, SumsNat
    <3> QED BY <3>2 DEF k
  <2>4. Active(pos, n) = Active(pos, n - 1) + Lower(pos, n) - Upper(pos, n)
    BY <1>2, CrossSum
  <2> DEFINE a == Active(pos, n)
             b == Active(pos, n - 1)
             l == Lower(pos, n)
             u == Upper(pos, n)
  <2> HIDE DEF a, b, l, u, g, h
  <2>5. /\ g = l + u /\ h = l - u /\ l \in Nat /\ u \in Nat /\ a \in Nat /\ b \in Nat
        /\ a = b + l - u
    BY <2>1, <2>2, <2>3, <2>4 DEF a, b, l, u, g, h
  <2>6. a = b + h /\ (g = 0 => h = 0) /\ a \in Int /\ b \in Int /\ h \in Int /\ g \in Nat
    BY <2>5
  <2> QED BY <2>6 DEF a, b
<1>10. (crosses(T) <=> g # 0 /\ ~left) /\ left \in BOOLEAN
  BY <1>3, LeftAtTick
<1>11. crossed_liquidity(w) = Active(pos, c) + (IF z THEN -h ELSE h)
  BY <1>1 DEF crossed_liquidity
<1>12. t = IF z = left THEN n ELSE n - 1
  BY DEF tick_after
<1>13. L = IF crosses(T) THEN Active(pos, c) + (IF z THEN -h ELSE h) ELSE Active(pos, c)
  BY <1>1, <1>11
<1> HIDE DEF t, L, left, g, h
<1>14. CASE left
  <2>1. t = (IF z THEN n ELSE n - 1) /\ L = Active(pos, c)
    BY <1>2, <1>10, <1>12, <1>13, <1>14
  <2>2. L = Active(pos, t)
    BY <1>2, <1>8, <2>1
  <2>3. t \in Ticks /\ t < MaxTick /\ PriceIn(t, p)
    BY <1>2, <1>4, <1>5, <1>6, <2>1
  <2> QED BY <1>2, <1>3, <1>14, <2>2, <2>3 DEF t, L, left
<1>15. CASE ~left
  <2>1. t = IF z THEN n - 1 ELSE n
    <3> HIDE DEF n, z
    <3>1. CASE z
      <4>1. z # left
        BY <1>10, <1>15, <3>1
      <4> QED BY <4>1, <3>1, <1>12
    <3>2. CASE ~z
      <4>1. z = left
        BY <1>2, <1>10, <1>15, <3>2
      <4> QED BY <4>1, <3>2, <1>12
    <3> QED BY <1>2, <3>1, <3>2
  <2>2. L = IF g # 0 THEN Active(pos, c) + (IF z THEN -h ELSE h) ELSE Active(pos, c)
    BY <1>10, <1>13, <1>15
  <2>3. L = IF z THEN Active(pos, n - 1) ELSE Active(pos, n)
    <3> DEFINE a == Active(pos, n)
               b == Active(pos, n - 1)
               d == Active(pos, c)
    <3>1. /\ a = b + h /\ (g = 0 => h = 0) /\ a \in Int /\ b \in Int /\ h \in Int /\ g \in Nat
          /\ (IF z THEN d = a ELSE d = b)
          /\ L = IF g # 0 THEN d + (IF z THEN -h ELSE h) ELSE d
      BY <1>8, <1>9, <2>2
    <3> HIDE DEF a, b, d, z
    <3>2. L = IF z THEN b ELSE a
      BY <3>1
    <3> QED BY <3>2 DEF a, b
  <2>4. L = Active(pos, t)
    BY <2>1, <2>3
  <2>5. t \in Ticks /\ t < MaxTick /\ PriceIn(t, p)
    BY <1>2, <1>4, <1>5, <1>6, <2>1
  <2> QED BY <1>2, <1>3, <2>1, <2>4, <2>5 DEF t, L, left
<1> QED BY <1>10, <1>14, <1>15

LEMMA PassKeeps ==
  ASSUME pool \in PoolState, NEW pos, PositionsOK(pos), NEW w, SwapInv(w, pos), w.stage = "pass",
         NEW v, v = passed(w)
  PROVE  SwapInv(v, pos) /\ v.zero_for_one = w.zero_for_one /\ v.sqrt_price = w.sqrt_price
<1> DEFINE n == w.tick_next
           T == w.ticks[n]
           emptied == ~is_initialized(T)
           crossing == crosses(T)
           T2 == IF crossing THEN cross(T, w) ELSE T
           tks == [w.ticks EXCEPT ![n] = T2]
           c2 == IF emptied THEN counted(w.count, n, FALSE) ELSE w.count
           b2 == IF emptied THEN flipped_bitmap(w.bitmap, w.count, n, FALSE) ELSE w.bitmap
           L == IF crossing THEN crossed_liquidity(w) ELSE w.liquidity
           t == tick_after(w)
<1>1. /\ w \in SwapState /\ SumsHold(pos, w.ticks) /\ OrdersOK(w.ticks)
      /\ CountsHold(Counted(w), w.count, w.bitmap) /\ Ahead(w)
      /\ SqrtPrice[MinTick] < w.limit /\ w.limit < SqrtPrice[MaxTick]
      /\ (IF w.zero_for_one THEN w.limit <= w.sqrt_price /\ w.sqrt_price < SqrtPrice[MaxTick]
          ELSE SqrtPrice[MinTick] <= w.sqrt_price /\ w.sqrt_price <= w.limit)
      /\ w.total_fee_rate = w.trade_fee_rate
      /\ (\/ Orders = {}
          \/ w.base_input /\ is_fee_on_input(w.zero_for_one) => w.trade_fee_rate = 0)
      /\ (w.remaining = 0 \/ unfilled(T.orders) = 0)
  BY DEF SwapInv
<1>2. /\ n \in Ticks /\ T \in TickState /\ t \in Ticks /\ t < MaxTick /\ PriceIn(t, w.sqrt_price)
      /\ L = Active(pos, t)
      /\ ~has_limit_orders(T.orders) => t = IF w.zero_for_one THEN n - 1 ELSE n
  BY PassSide
<1>3. /\ w.ticks \in [Ticks -> TickState] /\ w.count \in [Arrays -> Nat]
      /\ w.bitmap \in SUBSET Arrays /\ w.zero_for_one \in BOOLEAN /\ n \in Int
  BY <1>1, SwapFields
<1>4. /\ T2 \in TickState /\ T2.orders = T.orders /\ T2.liquidity_gross = T.liquidity_gross
      /\ T2.liquidity_net = T.liquidity_net
  <2> HIDE DEF T
  <2>1. CASE crossing
    BY <1>1, <1>2, <2>1, CrossType
  <2>2. CASE ~crossing
    BY <1>2, <2>2
  <2> QED BY <2>1, <2>2
<1>5. v = [w EXCEPT !.count = c2, !.bitmap = b2, !.ticks = tks, !.liquidity = L, !.tick = t,
                    !.stage = "search"]
  <2>1. v = [w EXCEPT !.count = c2, !.bitmap = b2, !.ticks[n] = T2, !.liquidity = L, !.tick = t,
                      !.stage = "search"]
    BY DEF passed
  <2> HIDE DEF c2, b2, T2, L, t, n
  <2> QED BY <2>1
<1> HIDE DEF T2, L, t
<1>6. /\ tks \in [Ticks -> TickState] /\ tks[n] = T2
      /\ \A u \in Ticks : u # n => tks[u] = w.ticks[u]
  BY <1>2, <1>3, <1>4
<1> HIDE DEF tks
<1>7. SumsHold(pos, tks) /\ OrdersOK(tks)
  BY <1>1, <1>2, <1>4, <1>6 DEF SumsHold, OrdersOK
<1>8. Initialized(tks) = Initialized(w.ticks)
  <2>1. is_initialized(T2) = is_initialized(T)
    BY <1>4 DEF is_initialized, has_liquidity
  <2>2. \A u \in Ticks : is_initialized(tks[u]) <=> is_initialized(w.ticks[u])
    BY <1>2, <1>6, <2>1
  <2> QED BY <2>2 DEF Initialized
<1>9. c2 \in [Arrays -> Nat] /\ b2 \in SUBSET Arrays /\ CountsHold(Initialized(tks), c2, b2)
  <2> DEFINE S == Counted(w)
             R == Initialized(w.ticks)
  <2>0. S = R \cup {n} /\ S \in SUBSET Ticks /\ R \in SUBSET Ticks
    BY <1>2 DEF Counted, Initialized
  <2>1. CASE emptied
    <3>1. OneTick(S, R, n, FALSE)
      <4>1. n \notin R
        BY <2>1, <1>2 DEF Initialized
      <4> HIDE DEF S, R, n
      <4> QED BY <2>0, <4>1 DEF OneTick
    <3>2. c2 = counted(w.count, n, FALSE) /\ b2 = flipped_bitmap(w.bitmap, w.count, n, FALSE)
      BY <2>1
    <3>3. CountsHold(S, w.count, w.bitmap)
      BY <1>1
    <3> HIDE DEF S, R, n, c2, b2, emptied
    <3>4. /\ counted(w.count, n, FALSE) \in [Arrays -> Nat]
          /\ flipped_bitmap(w.bitmap, w.count, n, FALSE) \in SUBSET Arrays
          /\ CountsHold(R, counted(w.count, n, FALSE), flipped_bitmap(w.bitmap, w.count, n, FALSE))
      BY <1>2, <1>3, <2>0, <3>1, <3>3, CountsFollow
    <3>5. c2 \in [Arrays -> Nat] /\ b2 \in SUBSET Arrays /\ CountsHold(R, c2, b2)
      BY <3>2, <3>4, Zenon
    <3> QED BY <1>8, <3>5, Zenon DEF R
  <2>2. CASE ~emptied
    <3>1. n \in R
      BY <2>2, <1>2 DEF Initialized
    <3>2. S = R
      <4> HIDE DEF S, R, n
      <4> QED BY <2>0, <3>1
    <3>3. c2 = w.count /\ b2 = w.bitmap
      BY <2>2
    <3> HIDE DEF c2, b2, n
    <3> QED BY <1>1, <1>3, <1>8, <3>2, <3>3
  <2> QED BY <2>1, <2>2
<1> HIDE DEF c2, b2
<1>10. L \in Nat
  <2>1. t \in Int
    BY <1>2, PriceOrder
  <2>2. Active(pos, t) \in Nat
    BY <2>1, SumsNat
  <2> QED BY <1>2, <2>2
<1>11. v \in SwapState
  <2>1. /\ w \in SwapState /\ c2 \in [Arrays -> Nat] /\ b2 \in SUBSET Arrays
        /\ tks \in [Ticks -> TickState] /\ L \in Nat /\ t \in Ticks
    BY <1>1, <1>2, <1>6, <1>9, <1>10
  <2> QED BY ONLY <1>5, <2>1 DEF SwapState
<1>12. /\ v.sqrt_price = w.sqrt_price /\ v.tick = t /\ v.stage = "search"
       /\ v.remaining = w.remaining
       /\ v.zero_for_one = w.zero_for_one /\ v.base_input = w.base_input
       /\ v.trade_fee_rate = w.trade_fee_rate /\ v.total_fee_rate = w.total_fee_rate
       /\ v.limit = w.limit /\ v.liquidity = L /\ v.array = w.array
       /\ v.contains = w.contains /\ v.ticks = tks /\ v.count = c2 /\ v.bitmap = b2
  BY ONLY <1>1, <1>5 DEF SwapState
<1>13. Counted(v) = Initialized(tks)
  BY <1>12 DEF Counted
<1>14. ASSUME loop_continues(v) PROVE Located(v)
  <2>1. ~has_limit_orders(T.orders)
    <3>1. w.remaining # 0
      BY <1>12, <1>14 DEF loop_continues
    <3> HIDE DEF T
    <3> QED BY <1>1, <1>2, <3>1, LeftAtTick
  <2>2. w.contains = TRUE /\ w.array = get_array_start_index(n)
    <3>1. w.contains /\ w.array = get_array_start_index(n)
      BY <1>1 DEF Ahead
    <3> QED BY <3>1, <1>1, SwapFields
  <2>3. CASE w.zero_for_one
    <3> DEFINE k == n - 1
    <3>1. t = k /\ k \in Int /\ k + 1 = n
      BY <1>2, <1>3, <2>1, <2>3
    <3> HIDE DEF k, n
    <3>2. \/ get_array_start_index(k + 1) = get_array_start_index(k)
          \/ get_array_start_index(k + 1) = get_array_start_index(k) + 1
      BY <3>1, ArrayOrder
    <3> QED BY <1>12, <2>2, <2>3, <3>1, <3>2 DEF Located
  <2>4. CASE ~w.zero_for_one
    <3>1. t = n
      BY <1>2, <2>1, <2>4
    <3> QED BY <1>12, <2>2, <3>1 DEF Located
  <2> QED BY <1>3, <2>3, <2>4
<1>15. SwapInv(v, pos)
  <2>1. /\ SumsHold(pos, v.ticks) /\ OrdersOK(v.ticks)
        /\ CountsHold(Counted(v), v.count, v.bitmap)
        /\ v.liquidity = Active(pos, v.tick) /\ v.tick < MaxTick
        /\ PriceIn(v.tick, v.sqrt_price)
    BY <1>2, <1>7, <1>9, <1>12, <1>13
  <2>2. /\ SqrtPrice[MinTick] < v.limit /\ v.limit < SqrtPrice[MaxTick]
        /\ IF v.zero_for_one THEN v.limit <= v.sqrt_price /\ v.sqrt_price < SqrtPrice[MaxTick]
           ELSE SqrtPrice[MinTick] <= v.sqrt_price /\ v.sqrt_price <= v.limit
    BY <1>1, <1>12
  <2>3. /\ v.total_fee_rate = v.trade_fee_rate
        /\ \/ Orders = {}
           \/ v.base_input /\ is_fee_on_input(v.zero_for_one) => v.trade_fee_rate = 0
    BY <1>1, <1>12
  <2>4. v.stage = "search" /\ (v.stage = "search" /\ loop_continues(v) => Located(v))
    BY <1>12, <1>14
  <2> QED BY <1>11, <2>1, <2>2, <2>3, <2>4 DEF SwapInv
<1> QED BY <1>12, <1>15

(***************************************************************************)
(* Beginning and end of a swap.                                            *)
(***************************************************************************)
LEMMA FeeToken == \A z \in BOOLEAN : fee_token(z) \in Tokens
BY RateAssumption DEF fee_token, Tokens

\* What the accounts hold between instructions.
LEMMA PoolFields ==
  ASSUME NEW pl \in PoolState
  PROVE  /\ pl.sqrt_price \in Nat /\ pl.tick \in Ticks /\ pl.tick \in Int /\ pl.liquidity \in Nat
         /\ pl.fee_growth_global \in [Tokens -> Growths]
         /\ pl.protocol_fees \in [Tokens -> Nat] /\ pl.fund_fees \in [Tokens -> Nat]
         /\ pl.dynamic_fee = NoFeeConfig
<1>1. pl.tick \in Ticks
  BY DEF PoolState
<1> QED BY <1>1, PriceOrder DEF PoolState

LEMMA StartKeeps ==
  ASSUME StaticFee, NothingLeftOver, PoolInv(pool, ticks, count, bitmap, position),
         NEW s \in Swaps, NEW elapsed, swap_start(s, elapsed)
  PROVE  SwapInv(swap', position)
<1> DEFINE z == s.zero_for_one
           l == effective_limit(s)
           t == pool.tick
           a0 == get_array_start_index(t)
           here(a) == a = a0
           i == tick_spacing_index_from_tick(t)
           g == pool.fee_growth_global[fee_token(z)]
           v == swap'
<1>1. /\ pool \in PoolState /\ ticks \in [Ticks -> TickState] /\ count \in [Arrays -> Nat]
      /\ bitmap \in SUBSET Arrays /\ SumsHold(position, ticks) /\ OrdersOK(ticks)
      /\ CountsHold(Initialized(ticks), count, bitmap)
      /\ pool.liquidity = Active(position, t) /\ t < MaxTick /\ PriceIn(t, pool.sqrt_price)
      /\ SqrtPrice[MinTick] <= pool.sqrt_price /\ pool.sqrt_price < SqrtPrice[MaxTick]
  BY DEF PoolInv
<1>2. /\ s.trade_fee_rate \in Rates /\ z \in BOOLEAN /\ s.base_input \in BOOLEAN
      /\ s.amount \in Nat /\ s.limit \in Nat
  BY InputAssumption DEF Rates
<1>3. limit_allowed(l, z)
  BY DEF swap_start
<1>4. PICK a \in first_tick_array_index(z) :
        v = [running |-> TRUE, zero_for_one |-> z,
             base_input |-> s.base_input, amount |-> s.amount,
             trade_fee_rate |-> s.trade_fee_rate, total_fee_rate |-> s.trade_fee_rate,
             tick_spacing_index |-> i,
             dynamic_fee |-> update_reference(pool.dynamic_fee, i, elapsed),
             limit |-> l, partial |-> s.limit # 0,
             remaining |-> s.amount, calculated |-> 0,
             sqrt_price |-> pool.sqrt_price, tick |-> pool.tick,
             liquidity |-> pool.liquidity, tick_next |-> 0,
             fee_growth |-> g,
             lp_fee |-> 0, protocol_fee |-> 0, fund_fee |-> 0,
             stage |-> "search", array |-> a, contains |-> here(a),
             ticks |-> ticks, count |-> count, bitmap |-> bitmap,
             order_in |-> 0, order_out |-> 0]
  BY DEF swap_start
<1>5. a0 \in Int
  BY <1>1, PoolFields, ArrayOrder
<1>6. \/ a0 \in bitmap /\ a = a0
      \/ a0 \notin bitmap /\ a \in next_tick_array_index(bitmap, a0, z)
  BY <1>4 DEF first_tick_array_index
<1>7. a \in Int
  <2>1. CASE a0 \in bitmap /\ a = a0
    BY <1>5, <2>1
  <2>2. CASE a \in next_tick_array_index(bitmap, a0, z)
    <3>1. \A b \in bitmap : b \in Int
      <4> DEFINE x == get_array_start_index(MinTick)
                 y == get_array_start_index(MaxTick)
      <4>1. x \in Int /\ y \in Int /\ Arrays = x .. y
        BY ArrayOrder, TickAssumption DEF Arrays
      <4> HIDE DEF x, y
      <4>2. \A b \in Arrays : b \in Int
        BY <4>1
      <4> QED BY <4>2, <1>1
    <3> HIDE DEF a0, z
    <3> QED BY <1>1, <1>2, <1>5, <2>2, <3>1, NextArray
  <2> QED BY <1>6, <2>1, <2>2
<1>8. update_reference(pool.dynamic_fee, i, elapsed) = NoFeeConfig
  BY <1>1, PoolFields DEF StaticFee, update_reference
<1>9. g \in Growths /\ i \in Int
  <2>1. g \in Growths
    BY <1>1, <1>2, PoolFields, FeeToken
  <2>2. i \in Int
    <3> DEFINE d == TickSpacing
    <3>1. d \in Nat \ {0} /\ t \in Int
      BY <1>1, PoolFields, FeeAssumption
    <3> HIDE DEF d, t
    <3>2. t \div d \in Int
      BY <3>1
    <3> QED BY <3>2 DEF d, tick_spacing_index_from_tick
  <2> QED BY <2>1, <2>2
<1>10. /\ l \in Nat /\ SqrtPrice[MinTick] < l /\ l < SqrtPrice[MaxTick]
       /\ IF z THEN l < pool.sqrt_price ELSE pool.sqrt_price < l
  <2>1. /\ SqrtPrice[MinTick] \in Nat /\ SqrtPrice[MaxTick] \in Nat /\ SqrtPrice[MaxTick] > 0
        /\ pool.sqrt_price \in Nat
    <3>1. MinTick \in Ticks /\ MaxTick \in Ticks
      BY TickAssumption DEF Ticks
    <3> QED BY <1>1, <3>1, PriceOrder, PoolFields
  <2>2. l \in Nat
    BY <1>2, <2>1 DEF effective_limit
  <2>3. IF z THEN SqrtPrice[MinTick] < l /\ l < pool.sqrt_price
        ELSE pool.sqrt_price < l /\ l < SqrtPrice[MaxTick]
    BY <1>3 DEF limit_allowed
  <2> HIDE DEF l, z
  <2> QED BY <1>1, <2>1, <2>2, <2>3
<1>11. here(a) \in BOOLEAN /\ (s.limit # 0) \in BOOLEAN
  OBVIOUS
<1> DEFINE c == here(a)
           part == s.limit # 0
<1>12. (c => a = a0) /\ (~c => a # a0)
  OBVIOUS
<1> HIDE DEF l, i, g, v, c, part, here
<1>13. v = [running |-> TRUE, zero_for_one |-> z,
             base_input |-> s.base_input, amount |-> s.amount,
             trade_fee_rate |-> s.trade_fee_rate, total_fee_rate |-> s.trade_fee_rate,
             tick_spacing_index |-> i, dynamic_fee |-> NoFeeConfig,
             limit |-> l, partial |-> part,
             remaining |-> s.amount, calculated |-> 0,
             sqrt_price |-> pool.sqrt_price, tick |-> t,
             liquidity |-> pool.liquidity, tick_next |-> 0,
             fee_growth |-> g,
             lp_fee |-> 0, protocol_fee |-> 0, fund_fee |-> 0,
             stage |-> "search", array |-> a, contains |-> c,
             ticks |-> ticks, count |-> count, bitmap |-> bitmap,
             order_in |-> 0, order_out |-> 0]
  BY <1>4, <1>8, Zenon DEF c, part
<1>14. c \in BOOLEAN /\ part \in BOOLEAN
  BY <1>11 DEF c, part
<1>15. v \in SwapState
  <2>1. pool.sqrt_price \in Nat /\ t \in Ticks /\ pool.liquidity \in Nat
    BY <1>1, PoolFields
  <2> DEFINE p == pool.sqrt_price
             L == pool.liquidity
             x == s.base_input
             y == s.amount
             r == s.trade_fee_rate
  <2>2. /\ z \in BOOLEAN /\ x \in BOOLEAN /\ y \in Nat /\ r \in Rates /\ p \in Nat /\ L \in Nat
        /\ t \in Ticks /\ ticks \in [Ticks -> TickState] /\ count \in [Arrays -> Nat]
        /\ bitmap \in SUBSET Arrays
    BY <1>1, <1>2, <2>1
  <2>3. v = [running |-> TRUE, zero_for_one |-> z, base_input |-> x, amount |-> y,
             trade_fee_rate |-> r, total_fee_rate |-> r,
             tick_spacing_index |-> i, dynamic_fee |-> NoFeeConfig,
             limit |-> l, partial |-> part, remaining |-> y, calculated |-> 0,
             sqrt_price |-> p, tick |-> t, liquidity |-> L, tick_next |-> 0, fee_growth |-> g,
             lp_fee |-> 0, protocol_fee |-> 0, fund_fee |-> 0,
             stage |-> "search", array |-> a, contains |-> c,
             ticks |-> ticks, count |-> count, bitmap |-> bitmap,
             order_in |-> 0, order_out |-> 0]
    BY <1>13, Zenon
  <2> HIDE DEF z, x, y, r, p, L, t
  <2> QED BY ONLY <1>7, <1>9, <1>10, <1>14, <2>2, <2>3 DEF SwapState
<1>16. /\ v.sqrt_price = pool.sqrt_price /\ v.tick = t /\ v.stage = "search"
       /\ v.zero_for_one = z /\ v.base_input = s.base_input
       /\ v.trade_fee_rate = s.trade_fee_rate /\ v.total_fee_rate = s.trade_fee_rate
       /\ v.limit = l /\ v.liquidity = pool.liquidity /\ v.array = a
       /\ v.contains = c /\ v.ticks = ticks /\ v.count = count /\ v.bitmap = bitmap
  BY ONLY <1>13
<1>17. Counted(v) = Initialized(ticks)
  BY <1>16 DEF Counted
<1>18. Located(v)
  <2>1. CASE c
    <3>1. a = a0
      BY <1>12, <2>1
    <3> QED BY <1>16, <2>1, <3>1 DEF Located
  <2>2. CASE ~c
    <3>1. a0 \notin bitmap /\ a \in next_tick_array_index(bitmap, a0, z)
      BY <1>6, <1>12, <2>2
    <3> QED BY <1>16, <2>2, <3>1 DEF Located
  <2> QED BY <2>1, <2>2
<1>19. \/ Orders = {}
       \/ v.base_input /\ is_fee_on_input(v.zero_for_one) => v.trade_fee_rate = 0
  BY <1>16 DEF NothingLeftOver
<1>20. /\ IF v.zero_for_one THEN v.limit <= v.sqrt_price /\ v.sqrt_price < SqrtPrice[MaxTick]
          ELSE SqrtPrice[MinTick] <= v.sqrt_price /\ v.sqrt_price <= v.limit
       /\ SqrtPrice[MinTick] < v.limit /\ v.limit < SqrtPrice[MaxTick]
  <2>1. pool.sqrt_price \in Nat
    BY <1>1, PoolFields
  <2> QED BY <1>1, <1>10, <1>16, <2>1
<1> QED BY <1>1, <1>15, <1>16, <1>17, <1>18, <1>19, <1>20 DEF SwapInv, v

LEMMA EndKeeps ==
  ASSUME StaticFee, pool \in PoolState, PositionsOK(position), NEW w, SwapInv(w, position),
         w.stage = "search"
  PROVE  PoolInv(update_after_swap(w), w.ticks, w.count, w.bitmap, position)
<1> DEFINE f == fee_token(w.zero_for_one)
           G == [pool.fee_growth_global EXCEPT ![f] = IF w.lp_fee > 0 THEN w.fee_growth ELSE @]
           P == [pool.protocol_fees EXCEPT ![f] = @ + w.protocol_fee]
           F == [pool.fund_fees EXCEPT ![f] = @ + w.fund_fee]
           v == update_after_swap(w)
           x == w.sqrt_price
           y == w.tick
           L == w.liquidity
           D == final_volatility(w)
<1>1. /\ w \in SwapState /\ SumsHold(position, w.ticks) /\ OrdersOK(w.ticks)
      /\ CountsHold(Counted(w), w.count, w.bitmap) /\ L = Active(position, y)
      /\ y < MaxTick /\ PriceIn(y, x)
      /\ SqrtPrice[MinTick] < w.limit /\ w.limit < SqrtPrice[MaxTick]
      /\ (IF w.zero_for_one THEN w.limit <= x /\ x < SqrtPrice[MaxTick]
          ELSE SqrtPrice[MinTick] <= x /\ x <= w.limit)
  BY DEF SwapInv
<1>2. /\ w.ticks \in [Ticks -> TickState] /\ w.count \in [Arrays -> Nat]
      /\ w.bitmap \in SUBSET Arrays /\ w.zero_for_one \in BOOLEAN /\ x \in Nat /\ y \in Ticks
      /\ L \in Nat /\ w.fee_growth \in Growths /\ w.protocol_fee \in Nat /\ w.fund_fee \in Nat
      /\ w.dynamic_fee = NoFeeConfig /\ w.limit \in Nat
  BY <1>1, SwapFields
<1>3. Counted(w) = Initialized(w.ticks)
  BY DEF Counted
<1>4. f \in Tokens
  BY <1>2, FeeToken
<1>5. G \in [Tokens -> Growths] /\ P \in [Tokens -> Nat] /\ F \in [Tokens -> Nat]
  <2> DEFINE g == IF w.lp_fee > 0 THEN w.fee_growth ELSE pool.fee_growth_global[f]
             p == pool.protocol_fees[f] + w.protocol_fee
             q == pool.fund_fees[f] + w.fund_fee
  <2>1. /\ pool.fee_growth_global \in [Tokens -> Growths]
        /\ pool.protocol_fees \in [Tokens -> Nat] /\ pool.fund_fees \in [Tokens -> Nat]
    BY PoolFields
  <2>2. g \in Growths /\ p \in Nat /\ q \in Nat
    <3> HIDE DEF f
    <3> QED BY <1>2, <1>4, <2>1
  <2>3. /\ G = [pool.fee_growth_global EXCEPT ![f] = g]
        /\ P = [pool.protocol_fees EXCEPT ![f] = p]
        /\ F = [pool.fund_fees EXCEPT ![f] = q]
    BY <1>4, <2>1
  <2> HIDE DEF g, p, q, f, G, P, F
  <2> QED BY <1>4, <2>1, <2>2, <2>3
<1>6. D = NoFeeConfig
  BY <1>2 DEF StaticFee, final_volatility, update_volatility_accumulator
<1>7. v = [pool EXCEPT !.sqrt_price = x, !.tick = y, !.liquidity = L, !.fee_growth_global = G,
                       !.protocol_fees = P, !.fund_fees = F, !.dynamic_fee = D]
  BY DEF update_after_swap
<1> HIDE DEF G, P, F, D, v, x, y, L
<1>8. v \in PoolState
  BY <1>2, <1>5, <1>6, <1>7 DEF PoolState
<1>9. v.sqrt_price = x /\ v.tick = y /\ v.liquidity = L
  BY <1>7 DEF PoolState
<1>10. SqrtPrice[MinTick] <= x /\ x < SqrtPrice[MaxTick]
  <2>1. SqrtPrice[MinTick] \in Nat /\ SqrtPrice[MaxTick] \in Nat
    BY TickAssumption, PriceOrder DEF Ticks
  <2> QED BY <1>1, <1>2, <2>1
<1> QED BY <1>1, <1>2, <1>3, <1>8, <1>9, <1>10 DEF PoolInv, v

(***************************************************************************)
(* Changes of liquidity.                                                   *)
(***************************************************************************)
\* With the liquidity d more, a tick is initialized or not.
LEMMA TickFlips ==
  ASSUME NEW T \in TickState, NEW d \in Int, d # 0, T.liquidity_gross + d >= 0
  PROVE  /\ d > 0 => (tick_flipped(T, d) <=> ~is_initialized(T))
         /\ d < 0 => (tick_flipped(T, d) <=> T.liquidity_gross + d = 0 /\ ~has_limit_orders(T.orders))
         /\ d < 0 => is_initialized(T)
<1> DEFINE g == T.liquidity_gross
           o == has_limit_orders(T.orders)
<1>1. g \in Nat
  BY DEF TickState
<1>2. is_initialized(T) <=> g # 0 \/ o
  BY LeftAtTick
<1>3. tick_flipped(T, d) <=> ((g + d = 0) # (g = 0)) /\ ~o
  BY DEF tick_flipped
<1> HIDE DEF g, o
<1>4. CASE d > 0
  <2>1. g + d # 0
    BY <1>1, <1>4
  <2>2. tick_flipped(T, d) <=> g = 0 /\ ~o
    BY <2>1, <1>3, Zenon
  <2> QED BY <1>2, <1>4, <2>2
<1>5. CASE d < 0
  <2>1. g # 0
    BY <1>1, <1>5 DEF g
  <2>2. tick_flipped(T, d) <=> g + d = 0 /\ ~o
    BY <2>1, <1>3, Zenon
  <2> QED BY <1>2, <1>5, <2>1, <2>2 DEF g, o
<1> QED BY <1>4, <1>5

\* Counts and bitmap after a change that flips tick t or does not.
LEMMA CountsMayFollow ==
  ASSUME NEW S \in SUBSET Ticks, NEW R \in SUBSET Ticks, NEW c \in [Arrays -> Nat],
         NEW b \in SUBSET Arrays, CountsHold(S, c, b), NEW t \in Ticks, NEW add \in BOOLEAN,
         NEW f \in BOOLEAN, f => OneTick(S, R, t, add), ~f => R = S,
         NEW c2, c2 = IF f THEN counted(c, t, add) ELSE c,
         NEW b2, b2 = IF f THEN flipped_bitmap(b, c, t, add) ELSE b
  PROVE  c2 \in [Arrays -> Nat] /\ b2 \in SUBSET Arrays /\ CountsHold(R, c2, b2)
<1>1. CASE f
  <2>1. OneTick(S, R, t, add)
    BY <1>1, Zenon
  <2>2. c2 = counted(c, t, add) /\ b2 = flipped_bitmap(b, c, t, add)
    BY <1>1, Zenon
  <2>3. CASE add = TRUE
    <3>1. OneTick(S, R, t, TRUE)
      BY <2>1, <2>3, Zenon
    <3>2. /\ counted(c, t, TRUE) \in [Arrays -> Nat] /\ flipped_bitmap(b, c, t, TRUE) \in SUBSET Arrays
          /\ CountsHold(R, counted(c, t, TRUE), flipped_bitmap(b, c, t, TRUE))
      BY <3>1, CountsFollow
    <3> QED BY <2>2, <2>3, <3>2, Zenon
  <2>4. CASE add = FALSE
    <3>1. OneTick(S, R, t, FALSE)
      BY <2>1, <2>4, Zenon
    <3>2. /\ counted(c, t, FALSE) \in [Arrays -> Nat] /\ flipped_bitmap(b, c, t, FALSE) \in SUBSET Arrays
          /\ CountsHold(R, counted(c, t, FALSE), flipped_bitmap(b, c, t, FALSE))
      BY <3>1, CountsFollow
    <3> QED BY <2>2, <2>4, <3>2, Zenon
  <2> QED BY <2>3, <2>4, Zenon
<1>2. CASE ~f
  BY <1>2
<1> QED BY <1>1, <1>2

\* V is tick T after a change of liquidity, cleared if nothing is left at it.
Changed(V, T, d, net, o) ==
  LET U == [T EXCEPT !.liquidity_gross = T.liquidity_gross + d, !.liquidity_net = net,
                     !.fee_growth_outside = o]
  IN V = IF d < 0 /\ tick_flipped(T, d) THEN clear(U) ELSE U

AfterChange(V, T, d, net) ==
  /\ V \in TickState /\ V.orders = T.orders
  /\ V.liquidity_gross = T.liquidity_gross + d /\ V.liquidity_net = net
  /\ d > 0 => is_initialized(V)
  /\ d < 0 => (is_initialized(V) <=> ~tick_flipped(T, d))

LEMMA ChangedTick ==
  ASSUME NEW T \in TickState, NEW d \in Int, d # 0, T.liquidity_gross + d >= 0,
         NEW net \in Int, T.liquidity_gross + d = 0 => net = 0, NEW o \in [Tokens -> Growths],
         NEW V, Changed(V, T, d, net, o)
  PROVE  AfterChange(V, T, d, net)
<1> DEFINE g == T.liquidity_gross + d
           U == [T EXCEPT !.liquidity_gross = g, !.liquidity_net = net, !.fee_growth_outside = o]
<1> DEFINE zero == [k \in Tokens |-> 0]
<1>1. T.liquidity_gross \in Nat
  BY DEF TickState
<1>2. g \in Nat /\ zero \in [Tokens -> Growths]
  <2>1. 0 \in Growths
    BY RatesTyped DEF RatesOK, Growths
  <2> QED BY <1>1, <2>1
<1>3. V = IF d < 0 /\ tick_flipped(T, d) THEN clear(U) ELSE U
  BY DEF Changed
<1> HIDE DEF zero, g
<1>4. U \in TickState /\ U.orders = T.orders /\ U.liquidity_gross = g /\ U.liquidity_net = net
  BY <1>2 DEF TickState
<1> HIDE DEF U
<1> DEFINE C == clear(U)
<1>5. C = [U EXCEPT !.liquidity_gross = 0, !.liquidity_net = 0, !.fee_growth_outside = zero]
  BY DEF clear, zero
<1> HIDE DEF C
<1>6. /\ C \in TickState /\ C.orders = T.orders
      /\ C.liquidity_gross = 0 /\ C.liquidity_net = 0
  <2>1. 0 \in Nat /\ 0 \in Int
    OBVIOUS
  <2> QED BY ONLY <2>1, <1>2, <1>4, <1>5 DEF TickState
<1>7. /\ d > 0 => (tick_flipped(T, d) <=> ~is_initialized(T))
      /\ d < 0 => (tick_flipped(T, d) <=> g = 0 /\ ~has_limit_orders(T.orders))
  BY TickFlips DEF g
<1>8. V = IF d < 0 /\ tick_flipped(T, d) THEN C ELSE U
  BY <1>3 DEF C
<1>9. /\ V \in TickState /\ V.orders = T.orders /\ V.liquidity_gross = g /\ V.liquidity_net = net
  <2>1. CASE d < 0 /\ tick_flipped(T, d)
    <3>1. g = 0
      BY <1>7, <2>1
    <3>2. net = 0
      BY <3>1 DEF g
    <3> QED BY <1>6, <1>8, <2>1, <3>1, <3>2
  <2>2. CASE ~(d < 0 /\ tick_flipped(T, d))
    BY <1>4, <1>8, <2>2
  <2> QED BY <2>1, <2>2
<1>10. is_initialized(V) <=> g # 0 \/ has_limit_orders(T.orders)
  BY <1>9, LeftAtTick
<1>11. d > 0 => g # 0
  BY <1>1 DEF g
<1> QED BY <1>7, <1>9, <1>10, <1>11 DEF g, AfterChange


\* Liquidity of a position added to or removed from its range.
LEMMA ModifyTicks ==
  ASSUME pool \in PoolState, ticks \in [Ticks -> TickState], PositionsOK(position),
         SumsHold(position, ticks), OrdersOK(ticks),
         NEW qos, PositionsOK(qos), NEW p \in Positions, NEW lo \in Ticks, NEW up \in Ticks,
         lo < up, NEW d \in Int, d # 0, Grows(position, qos, p, lo, up, d),
         NEW tks, tks = cleared_ticks(updated_ticks(lo, up, d), lo, up, d)
  PROVE  /\ tks \in [Ticks -> TickState] /\ SumsHold(qos, tks) /\ OrdersOK(tks)
         /\ \A t \in Ticks \ {lo, up} : tks[t] = ticks[t]
         /\ \A t \in {lo, up} :
              /\ d > 0 => (tick_flipped(ticks[t], d) <=> ~is_initialized(ticks[t]))
              /\ d < 0 => is_initialized(ticks[t])
              /\ d > 0 => is_initialized(tks[t])
              /\ d < 0 => (is_initialized(tks[t]) <=> ~tick_flipped(ticks[t], d))
<1>1. lo \in Int /\ up \in Int /\ lo # up /\ \A t \in Ticks : t \in Int
  BY PriceOrder
<1>2. \A t \in Ticks : ticks[t] \in TickState /\ ticks[t].liquidity_gross \in Nat
                       /\ ticks[t].liquidity_net \in Int
  BY DEF TickState
<1> DEFINE U == updated_ticks(lo, up, d)
           A == tick_update(ticks[lo], lo, d, FALSE)
           B == tick_update(ticks[up], up, d, TRUE)
<1>3. U = [ticks EXCEPT ![lo] = A, ![up] = B]
  BY <1>1 DEF updated_ticks
<1>4. /\ \A t \in Ticks \ {lo, up} : tks[t] = ticks[t]
      /\ tks[lo] = IF d < 0 /\ tick_flipped(ticks[lo], d) THEN clear(A) ELSE A
      /\ tks[up] = IF d < 0 /\ tick_flipped(ticks[up], d) THEN clear(B) ELSE B
      /\ tks = [t \in Ticks |-> tks[t]]
  <2>1. tks = [t \in Ticks |-> IF d < 0 /\ t \in {lo, up} /\ tick_flipped(ticks[t], d)
                               THEN clear(U[t]) ELSE U[t]]
    BY DEF cleared_ticks
  <2> HIDE DEF U, A, B
  <2>2. U[lo] = A /\ U[up] = B /\ \A t \in Ticks \ {lo, up} : U[t] = ticks[t]
    BY <1>1, <1>3
  <2>3. /\ \A t \in Ticks \ {lo, up} : tks[t] = ticks[t]
        /\ tks[lo] = IF d < 0 /\ tick_flipped(ticks[lo], d) THEN clear(A) ELSE A
        /\ tks[up] = IF d < 0 /\ tick_flipped(ticks[up], d) THEN clear(B) ELSE B
    BY <2>1, <2>2
  <2> QED BY <2>1, <2>3
<1>5. \A t \in Ticks :
        /\ Lower(qos, t) = Lower(position, t) + (IF t = lo THEN d ELSE 0)
        /\ Upper(qos, t) = Upper(position, t) + (IF t = up THEN d ELSE 0)
        /\ Lower(qos, t) \in Nat /\ Upper(qos, t) \in Nat
        /\ Lower(position, t) \in Nat /\ Upper(position, t) \in Nat
        /\ ticks[t].liquidity_gross = Lower(position, t) + Upper(position, t)
        /\ ticks[t].liquidity_net = Lower(position, t) - Upper(position, t)
  <2> TAKE t \in Ticks
  <2>1. t \in Int
    BY <1>1
  <2>2. /\ Lower(qos, t) = Lower(position, t) + (IF t = lo THEN d ELSE 0)
        /\ Upper(qos, t) = Upper(position, t) + (IF t = up THEN d ELSE 0)
    BY <2>1, GrownSums
  <2>3. /\ Lower(qos, t) \in Nat /\ Upper(qos, t) \in Nat
        /\ Lower(position, t) \in Nat /\ Upper(position, t) \in Nat
    BY <2>1, SumsNat
  <2> QED BY <2>2, <2>3 DEF SumsHold
<1>6. /\ ticks[lo].liquidity_gross + d = Lower(qos, lo) + Upper(qos, lo)
      /\ ticks[lo].liquidity_net + d = Lower(qos, lo) - Upper(qos, lo)
      /\ ticks[lo].liquidity_gross + d >= 0
      /\ ticks[lo].liquidity_gross + d = 0 => ticks[lo].liquidity_net + d = 0
  BY <1>1, <1>5
<1>7. /\ ticks[up].liquidity_gross + d = Lower(qos, up) + Upper(qos, up)
      /\ ticks[up].liquidity_net - d = Lower(qos, up) - Upper(qos, up)
      /\ ticks[up].liquidity_gross + d >= 0
      /\ ticks[up].liquidity_gross + d = 0 => ticks[up].liquidity_net - d = 0
  BY <1>1, <1>5
<1>8. /\ tks[lo] \in TickState /\ tks[lo].orders = ticks[lo].orders
      /\ tks[lo].liquidity_gross = ticks[lo].liquidity_gross + d
      /\ tks[lo].liquidity_net = ticks[lo].liquidity_net + d
      /\ d > 0 => is_initialized(tks[lo])
      /\ d < 0 => (is_initialized(tks[lo]) <=> ~tick_flipped(ticks[lo], d))
  <2> DEFINE T == ticks[lo]
             V == tks[lo]
             net == T.liquidity_net + d
             g == T.liquidity_gross + d
             o == IF ~has_liquidity(T) /\ lo <= pool.tick THEN pool.fee_growth_global
                  ELSE T.fee_growth_outside
  <2>1. T \in TickState /\ T.liquidity_gross + d >= 0 /\ net \in Int /\ (T.liquidity_gross + d = 0 => net = 0)
    BY <1>2, <1>6
  <2>2. o \in [Tokens -> Growths]
    BY <2>1, PoolFields DEF TickState
  <2>3. A = [T EXCEPT !.liquidity_gross = g, !.liquidity_net = net, !.fee_growth_outside = o]
    BY DEF tick_update
  <2>4. Changed(V, T, d, net, o)
    BY <1>4, <2>3 DEF Changed
  <2> HIDE DEF T, V, net, g, o, A, B
  <2>5. AfterChange(V, T, d, net)
    BY <2>1, <2>2, <2>4, ChangedTick
  <2> QED BY <2>5 DEF T, V, net, AfterChange
<1>9. /\ tks[up] \in TickState /\ tks[up].orders = ticks[up].orders
      /\ tks[up].liquidity_gross = ticks[up].liquidity_gross + d
      /\ tks[up].liquidity_net = ticks[up].liquidity_net - d
      /\ d > 0 => is_initialized(tks[up])
      /\ d < 0 => (is_initialized(tks[up]) <=> ~tick_flipped(ticks[up], d))
  <2> DEFINE T == ticks[up]
             V == tks[up]
             net == T.liquidity_net - d
             g == T.liquidity_gross + d
             o == IF ~has_liquidity(T) /\ up <= pool.tick THEN pool.fee_growth_global
                  ELSE T.fee_growth_outside
  <2>1. T \in TickState /\ T.liquidity_gross + d >= 0 /\ net \in Int /\ (T.liquidity_gross + d = 0 => net = 0)
    BY <1>2, <1>7
  <2>2. o \in [Tokens -> Growths]
    BY <2>1, PoolFields DEF TickState
  <2>3. B = [T EXCEPT !.liquidity_gross = g, !.liquidity_net = net, !.fee_growth_outside = o]
    BY DEF tick_update
  <2>4. Changed(V, T, d, net, o)
    BY <1>4, <2>3 DEF Changed
  <2> HIDE DEF T, V, net, g, o, A, B
  <2>5. AfterChange(V, T, d, net)
    BY <2>1, <2>2, <2>4, ChangedTick
  <2> QED BY <2>5 DEF T, V, net, AfterChange
<1>10. \A t \in Ticks : tks[t] \in TickState /\ tks[t].orders = ticks[t].orders
  BY <1>2, <1>4, <1>8, <1>9
<1>11. tks \in [Ticks -> TickState]
  BY <1>4, <1>10
<1>12. SumsHold(qos, tks)
  <2> SUFFICES ASSUME NEW t \in Ticks
               PROVE  /\ tks[t].liquidity_gross = Lower(qos, t) + Upper(qos, t)
                      /\ tks[t].liquidity_net = Lower(qos, t) - Upper(qos, t)
    BY DEF SumsHold
  <2>1. CASE t = lo
    BY <2>1, <1>6, <1>8
  <2>2. CASE t = up
    BY <2>2, <1>7, <1>9
  <2>3. CASE t # lo /\ t # up
    BY <2>3, <1>4, <1>5
  <2> QED BY <2>1, <2>2, <2>3
<1>13. OrdersOK(tks)
  BY <1>10 DEF OrdersOK
<1>14. \A t \in {lo, up} :
         /\ d > 0 => (tick_flipped(ticks[t], d) <=> ~is_initialized(ticks[t]))
         /\ d < 0 => is_initialized(ticks[t])
  <2> SUFFICES ASSUME NEW t \in {lo, up}
               PROVE  /\ d > 0 => (tick_flipped(ticks[t], d) <=> ~is_initialized(ticks[t]))
                      /\ d < 0 => is_initialized(ticks[t])
    OBVIOUS
  <2>1. ticks[t] \in TickState /\ ticks[t].liquidity_gross + d >= 0
    BY <1>2, <1>6, <1>7
  <2> QED BY <2>1, TickFlips
<1> QED BY <1>4, <1>8, <1>9, <1>11, <1>12, <1>13, <1>14

\* One flip, seen as a set of initialized ticks.
Flip(S, R, t, d, f, add) ==
  /\ d \in Int /\ d # 0 /\ f \in BOOLEAN
  /\ d > 0 => (f <=> t \notin S)
  /\ d < 0 => t \in S
  /\ R = IF ~f THEN S ELSE IF d > 0 THEN S \cup {t} ELSE S \ {t}
  /\ add = (d > 0)

Flipped(S, R, t, d, f, add) ==
  /\ add \in BOOLEAN
  /\ f => OneTick(S, R, t, add)
  /\ ~f => R = S
  /\ d > 0 => t \in R
  /\ d < 0 => (t \in R <=> ~f)
  /\ \A u : u # t => (u \in R <=> u \in S)

LEMMA FlipIsOneTick ==
  ASSUME NEW S, NEW R, NEW t, NEW d, NEW f, NEW add, Flip(S, R, t, d, f, add)
  PROVE  Flipped(S, R, t, d, f, add)
<1>0. /\ d \in Int /\ d # 0 /\ f \in BOOLEAN
      /\ d > 0 => (f <=> t \notin S)
      /\ d < 0 => t \in S
      /\ R = IF ~f THEN S ELSE IF d > 0 THEN S \cup {t} ELSE S \ {t}
      /\ add = (d > 0)
  BY Zenon DEF Flip
<1>1. CASE d > 0
  <2>1. add = TRUE
    BY <1>0, <1>1
  <2>2. f => t \notin S /\ R = S \cup {t}
    BY <1>0, <1>1
  <2>3. f => OneTick(S, R, t, TRUE)
    BY <2>2 DEF OneTick
  <2>4. add \in BOOLEAN /\ (f => OneTick(S, R, t, add))
    BY <2>1, <2>3, Zenon
  <2>5. ~(d < 0) /\ (~f => R = S) /\ t \in R /\ \A u : u # t => (u \in R <=> u \in S)
    BY <1>0, <1>1
  <2> QED BY <2>4, <2>5, Zenon DEF Flipped
<1>2. CASE d < 0
  <2>1. add = FALSE
    <3>1. (d > 0) = FALSE
      BY <1>0, <1>2
    <3> QED BY <1>0, <3>1, Zenon
  <2>2. f => t \in S /\ R = S \ {t}
    BY <1>0, <1>2
  <2>3. f => OneTick(S, R, t, FALSE)
    BY <2>2 DEF OneTick
  <2>4. add \in BOOLEAN /\ (f => OneTick(S, R, t, add))
    BY <2>1, <2>3, Zenon
  <2>5. ~(d > 0) /\ (~f => R = S) /\ (t \in R <=> ~f) /\ \A u : u # t => (u \in R <=> u \in S)
    BY <1>0, <1>2
  <2> QED BY <2>4, <2>5, Zenon DEF Flipped
<1> QED BY <1>0, <1>1, <1>2

\* Liquidity of a position added or removed.
LEMMA ModifyKeeps ==
  ASSUME PoolInv(pool, ticks, count, bitmap, position),
         NEW qos, PositionsOK(qos), NEW p \in Positions, NEW lo \in Ticks, NEW up \in Ticks,
         lo < up, NEW d \in Int, d # 0, Grows(position, qos, p, lo, up, d),
         modify_position(lo, up, d)
  PROVE  PoolInv(pool', ticks', count', bitmap', qos)
<1>1. /\ pool \in PoolState /\ ticks \in [Ticks -> TickState]
      /\ count \in [Arrays -> Nat] /\ bitmap \in SUBSET Arrays
      /\ PositionsOK(position) /\ SumsHold(position, ticks) /\ OrdersOK(ticks)
      /\ CountsHold(Initialized(ticks), count, bitmap)
      /\ pool.liquidity = Active(position, pool.tick)
      /\ pool.tick < MaxTick /\ PriceIn(pool.tick, pool.sqrt_price)
      /\ SqrtPrice[MinTick] <= pool.sqrt_price /\ pool.sqrt_price < SqrtPrice[MaxTick]
  BY DEF PoolInv
<1>2. /\ ticks' = cleared_ticks(updated_ticks(lo, up, d), lo, up, d)
      /\ pool' = (IF in_range(lo, up, pool.tick)
                  THEN [pool EXCEPT !.liquidity = @ + d] ELSE pool)
      /\ flip_arrays(lo, up, d)
  BY Zenon DEF modify_position
<1> DEFINE tks == ticks'
           S == Initialized(ticks)
           f == tick_flipped(ticks[lo], d)
           g == tick_flipped(ticks[up], d)
           add == d > 0
           R == IF ~f THEN S ELSE IF d > 0 THEN S \cup {lo} ELSE S \ {lo}
           Q == IF ~g THEN R ELSE IF d > 0 THEN R \cup {up} ELSE R \ {up}
           c1 == IF f THEN counted(count, lo, add) ELSE count
           b1 == IF f THEN flipped_bitmap(bitmap, count, lo, add) ELSE bitmap
<1>3. /\ tks \in [Ticks -> TickState] /\ SumsHold(qos, tks) /\ OrdersOK(tks)
      /\ \A t \in Ticks \ {lo, up} : tks[t] = ticks[t]
      /\ \A t \in {lo, up} :
           /\ d > 0 => (tick_flipped(ticks[t], d) <=> ~is_initialized(ticks[t]))
           /\ d < 0 => is_initialized(ticks[t])
           /\ d > 0 => is_initialized(tks[t])
           /\ d < 0 => (is_initialized(tks[t]) <=> ~tick_flipped(ticks[t], d))
  <2>1. tks = cleared_ticks(updated_ticks(lo, up, d), lo, up, d)
    BY <1>2
  <2> HIDE DEF tks
  <2> QED BY <1>1, <2>1, ModifyTicks
<1>4. count' = (IF g THEN counted(c1, up, add) ELSE c1)
      /\ bitmap' = (IF g THEN flipped_bitmap(b1, c1, up, add) ELSE b1)
  BY <1>2, Zenon DEF flip_arrays
<1>5. lo # up /\ f \in BOOLEAN /\ g \in BOOLEAN
  <2>1. lo \in Int /\ up \in Int
    BY PriceOrder
  <2>2. f \in BOOLEAN /\ g \in BOOLEAN
    BY DEF tick_flipped
  <2> QED BY <2>1, <2>2
<1>6. S \in SUBSET Ticks /\ R \in SUBSET Ticks /\ Q \in SUBSET Ticks
  BY DEF Initialized
<1>7. /\ \A t \in Ticks : t \in S <=> is_initialized(ticks[t])
      /\ \A t \in Ticks : t \in Initialized(tks) <=> is_initialized(tks[t])
      /\ Initialized(tks) \in SUBSET Ticks
  BY DEF Initialized
<1>8. /\ d > 0 => (f <=> lo \notin S)
      /\ d < 0 => lo \in S
      /\ d > 0 => (g <=> up \notin S)
      /\ d < 0 => up \in S
      /\ d > 0 => lo \in Initialized(tks) /\ up \in Initialized(tks)
      /\ d < 0 => (lo \in Initialized(tks) <=> ~f) /\ (up \in Initialized(tks) <=> ~g)
      /\ \A t \in Ticks \ {lo, up} : t \in Initialized(tks) <=> t \in S
  <2> HIDE DEF S, tks
  <2> QED BY <1>3, <1>7
<1>9. /\ add \in BOOLEAN
      /\ f => OneTick(S, R, lo, add)
      /\ ~f => R = S
      /\ d > 0 => lo \in R
      /\ d < 0 => (lo \in R <=> ~f)
      /\ \A u : u # lo => (u \in R <=> u \in S)
  <2>1. R = IF ~f THEN S ELSE IF d > 0 THEN S \cup {lo} ELSE S \ {lo}
    OBVIOUS
  <2>2. add = (d > 0)
    OBVIOUS
  <2> HIDE DEF S, R, f, g, add, tks
  <2>3. (d > 0 => (f <=> lo \notin S)) /\ (d < 0 => lo \in S)
    BY <1>8
  <2>4. Flip(S, R, lo, d, f, add)
    BY <1>5, <2>1, <2>2, <2>3, Zenon DEF Flip
  <2>5. Flipped(S, R, lo, d, f, add)
    BY <2>4, FlipIsOneTick, Zenon
  <2> QED BY <2>5, Zenon DEF Flipped
<1>10. /\ g => OneTick(R, Q, up, add)
       /\ ~g => Q = R
       /\ d > 0 => up \in Q
       /\ d < 0 => (up \in Q <=> ~g)
       /\ \A u : u # up => (u \in Q <=> u \in R)
  <2>1. Q = IF ~g THEN R ELSE IF d > 0 THEN R \cup {up} ELSE R \ {up}
    OBVIOUS
  <2>2. add = (d > 0)
    OBVIOUS
  <2> HIDE DEF S, R, Q, f, g, add, tks
  <2>3. (d > 0 => (g <=> up \notin R)) /\ (d < 0 => up \in R)
    BY <1>5, <1>8, <1>9
  <2>4. Flip(R, Q, up, d, g, add)
    BY <1>5, <2>1, <2>2, <2>3, Zenon DEF Flip
  <2>5. Flipped(R, Q, up, d, g, add)
    BY <2>4, FlipIsOneTick, Zenon
  <2> QED BY <2>5, Zenon DEF Flipped
<1>11. Q = Initialized(tks)
  <2> HIDE DEF S, R, Q, f, g, add, tks
  <2>1. ASSUME NEW t \in Ticks PROVE t \in Q <=> t \in Initialized(tks)
    <3>1. CASE t = lo
      BY <3>1, <1>5, <1>8, <1>9, <1>10
    <3>2. CASE t = up
      BY <3>2, <1>5, <1>8, <1>9, <1>10
    <3>3. CASE t # lo /\ t # up
      BY <3>3, <1>5, <1>8, <1>9, <1>10
    <3> QED BY <3>1, <3>2, <3>3
  <2> QED BY <1>6, <1>7, <2>1
<1>12. c1 \in [Arrays -> Nat] /\ b1 \in SUBSET Arrays /\ CountsHold(R, c1, b1)
  <2>1. c1 = (IF f THEN counted(count, lo, add) ELSE count)
        /\ b1 = (IF f THEN flipped_bitmap(bitmap, count, lo, add) ELSE bitmap)
    BY Zenon
  <2>2. CountsHold(S, count, bitmap)
    BY <1>1
  <2>3. add \in BOOLEAN /\ (f => OneTick(S, R, lo, add)) /\ (~f => R = S)
    BY <1>9, Zenon
  <2> HIDE DEF S, R, f, add, c1, b1
  <2> QED BY <1>1, <1>5, <1>6, <2>1, <2>2, <2>3, CountsMayFollow
<1>13. count' \in [Arrays -> Nat] /\ bitmap' \in SUBSET Arrays /\ CountsHold(Q, count', bitmap')
  <2>1. add \in BOOLEAN /\ (g => OneTick(R, Q, up, add)) /\ (~g => Q = R)
    BY <1>9, <1>10, Zenon
  <2> HIDE DEF R, Q, g, add, c1, b1
  <2> QED BY <1>4, <1>5, <1>6, <1>12, <2>1, CountsMayFollow
<1>14. /\ pool' \in PoolState /\ pool'.liquidity = Active(qos, pool.tick)
       /\ pool'.tick = pool.tick /\ pool'.sqrt_price = pool.sqrt_price
  <2> DEFINE n == pool.liquidity + d
  <2>1. pool.tick \in Int /\ pool.liquidity \in Nat
    BY <1>1, PoolFields
  <2>2. Active(qos, pool.tick) = Active(position, pool.tick) + (IF in_range(lo, up, pool.tick) THEN d ELSE 0)
    BY <1>1, <2>1, GrownSums
  <2>3. Active(qos, pool.tick) \in Nat
    BY <2>1, SumsNat
  <2>4. CASE in_range(lo, up, pool.tick)
    <3>1. n \in Nat /\ n = Active(qos, pool.tick)
      BY <1>1, <2>1, <2>2, <2>3, <2>4
    <3>2. pool' = [pool EXCEPT !.liquidity = n]
      BY <1>2, <2>4
    <3> HIDE DEF n
    <3> QED BY <1>1, <3>1, <3>2 DEF PoolState
  <2>5. CASE ~in_range(lo, up, pool.tick)
    BY <1>1, <1>2, <2>1, <2>2, <2>5
  <2> QED BY <2>4, <2>5
<1>15. CountsHold(Initialized(ticks'), count', bitmap')
  BY <1>11, <1>13, Zenon
<1> QED BY <1>1, <1>3, <1>13, <1>14, <1>15 DEF PoolInv

(***************************************************************************)
(* Instructions on positions.                                              *)
(***************************************************************************)
\* The growth inside a range.
LEMMA InsideType ==
  ASSUME pool \in PoolState, NEW tks, NEW lo, NEW up, NEW k \in Tokens,
         tks[lo].fee_growth_outside \in [Tokens -> Growths],
         tks[up].fee_growth_outside \in [Tokens -> Growths]
  PROVE  get_fee_growth_inside(tks, lo, up, k) \in Int
<1> DEFINE global == pool.fee_growth_global[k]
           x == tks[lo].fee_growth_outside[k]
           y == tks[up].fee_growth_outside[k]
           below == IF pool.tick >= lo THEN x ELSE wrapping_sub(global, x)
           above == IF pool.tick < up THEN y ELSE wrapping_sub(global, y)
           mid == wrapping_sub(global, below)
<1>0. Growths \subseteq Int
  BY DEF Growths
<1>1. global \in Int /\ x \in Int /\ y \in Int
  BY <1>0, PoolFields
<1>2. get_fee_growth_inside(tks, lo, up, k) = wrapping_sub(mid, above)
  BY DEF get_fee_growth_inside
<1> HIDE DEF global, x, y
<1>3. below \in Int /\ above \in Int
  BY <1>0, <1>1, WrappingType
<1> HIDE DEF below, above
<1>4. mid \in Int
  BY <1>0, <1>1, <1>3, WrappingType
<1> HIDE DEF mid
<1> QED BY <1>0, <1>2, <1>3, <1>4, WrappingType

\* What a position is owed once it is brought up to date.
LEMMA OwedType ==
  ASSUME NEW owed \in Int, NEW last \in Int, NEW latest \in Int, NEW n \in Nat
  PROVE  calculate_latest_token_fees(owed, last, latest, n) \in Int
<1> DEFINE x == wrapping_sub(latest, last)
           m == mul_div_floor(x, n, Q64)
<1>1. x \in Nat
  BY WrappingType DEF Growths
<1> HIDE DEF x
<1>2. m \in Nat
  BY <1>1, RateAssumption, FloorNat
<1> HIDE DEF m
<1>3. to_underflow_u64(m) \in Int
  BY <1>2 DEF to_underflow_u64
<1>4. calculate_latest_token_fees(owed, last, latest, n) = owed + to_underflow_u64(m)
  BY DEF calculate_latest_token_fees, m, x
<1> QED BY <1>3, <1>4

\* A position brought up to date.
LEMMA PositionUpdated ==
  ASSUME pool \in PoolState, NEW q \in PositionState, NEW tks,
         \A t \in Ticks : tks[t].fee_growth_outside \in [Tokens -> Growths],
         NEW u, u = update_fee_and_reward(q, tks)
  PROVE  u \in PositionState /\ u.open /\ u.lower = q.lower /\ u.upper = q.upper
         /\ u.liquidity = q.liquidity
<1> DEFINE inside == [k \in Tokens |-> get_fee_growth_inside(tks, q.lower, q.upper, k)]
           owed == [k \in Tokens |->
                      calculate_latest_token_fees(q.token_fees_owed[k], q.fee_growth_inside_last[k],
                                                  inside[k], q.liquidity)]
<1>1. q.lower \in Ticks /\ q.upper \in Ticks /\ q.liquidity \in Nat /\ q.open
      /\ q.fee_growth_inside_last \in [Tokens -> Int] /\ q.token_fees_owed \in [Tokens -> Int]
  BY DEF PositionState
<1>2. \A k \in Tokens : inside[k] \in Int
  BY <1>1, InsideType
<1>3. inside \in [Tokens -> Int]
  BY <1>2
<1>4. u = [q EXCEPT !.fee_growth_inside_last = inside, !.token_fees_owed = owed]
  BY DEF update_fee_and_reward
<1> HIDE DEF inside
<1>5. \A k \in Tokens : owed[k] \in Int
  BY <1>1, <1>2, OwedType
<1>6. owed \in [Tokens -> Int]
  BY <1>5
<1> HIDE DEF owed
<1> QED BY <1>1, <1>3, <1>4, <1>6 DEF PositionState

\* The growth outside of the ticks while their liquidity changes.
LEMMA OutsideType ==
  ASSUME pool \in PoolState, ticks \in [Ticks -> TickState], NEW lo \in Ticks, NEW up \in Ticks,
         lo < up, NEW d
  PROVE  \A t \in Ticks : /\ updated_ticks(lo, up, d)[t].fee_growth_outside \in [Tokens -> Growths]
                          /\ ticks[t].fee_growth_outside \in [Tokens -> Growths]
<1> DEFINE A == tick_update(ticks[lo], lo, d, FALSE)
           B == tick_update(ticks[up], up, d, TRUE)
           U == updated_ticks(lo, up, d)
<1>1. lo # up
  BY PriceOrder
<1>2. U = [ticks EXCEPT ![lo] = A, ![up] = B]
  BY <1>1 DEF updated_ticks
<1>3. \A t \in Ticks : ticks[t] \in TickState /\ ticks[t].fee_growth_outside \in [Tokens -> Growths]
  BY DEF TickState
<1>4. A.fee_growth_outside \in [Tokens -> Growths]
  <2> DEFINE T == ticks[lo]
             o == IF ~has_liquidity(T) /\ lo <= pool.tick THEN pool.fee_growth_global
                  ELSE T.fee_growth_outside
             n == T.liquidity_net + d
             g == T.liquidity_gross + d
  <2>1. o \in [Tokens -> Growths]
    BY <1>3, PoolFields
  <2>2. A = [T EXCEPT !.liquidity_gross = g, !.liquidity_net = n, !.fee_growth_outside = o]
    BY DEF tick_update
  <2>3. T \in TickState
    BY <1>3
  <2> HIDE DEF o, n, g, T, A
  <2> QED BY <2>1, <2>2, <2>3 DEF TickState
<1>5. B.fee_growth_outside \in [Tokens -> Growths]
  <2> DEFINE T == ticks[up]
             o == IF ~has_liquidity(T) /\ up <= pool.tick THEN pool.fee_growth_global
                  ELSE T.fee_growth_outside
             n == T.liquidity_net - d
             g == T.liquidity_gross + d
  <2>1. o \in [Tokens -> Growths]
    BY <1>3, PoolFields
  <2>2. B = [T EXCEPT !.liquidity_gross = g, !.liquidity_net = n, !.fee_growth_outside = o]
    BY DEF tick_update
  <2>3. T \in TickState
    BY <1>3
  <2> HIDE DEF o, n, g, T, B
  <2> QED BY <2>1, <2>2, <2>3 DEF TickState
<1> HIDE DEF A, B, U
<1>6. \A t \in Ticks : U[t].fee_growth_outside \in [Tokens -> Growths]
  BY <1>2, <1>3, <1>4, <1>5
<1> QED BY <1>3, <1>6 DEF U

\* Position p becomes q.
LEMMA PositionPut ==
  ASSUME NEW pos, PositionsOK(pos), NEW p \in Positions, NEW q \in PositionState,
         q.lower < q.upper, NEW d,
         \/ /\ pos[p].open /\ pos[p].lower = q.lower /\ pos[p].upper = q.upper
            /\ q.liquidity = pos[p].liquidity + d
         \/ ~pos[p].open /\ q.liquidity = d,
         NEW qos, qos = [pos EXCEPT ![p] = q]
  PROVE  PositionsOK(qos) /\ Grows(pos, qos, p, q.lower, q.upper, d)
<1>1. /\ pos \in [Positions -> PositionState \cup {NoPosition}]
      /\ \A r \in Positions : pos[r].open => pos[r].lower < pos[r].upper
  BY DEF PositionsOK
<1>2. q.open
  BY DEF PositionState
<1>3. qos[p] = q /\ \A r \in Positions : r # p => qos[r] = pos[r]
  BY <1>1
<1>4. qos \in [Positions -> PositionState \cup {NoPosition}]
  BY <1>1
<1>5. PositionsOK(qos)
  BY <1>1, <1>3, <1>4 DEF PositionsOK
<1> QED BY <1>2, <1>3, <1>5 DEF Grows

\* Nothing else changes if the liquidity of the position is as it was.
LEMMA LiquidityKept ==
  ASSUME NEW pos, NEW qos, PositionsOK(pos), PositionsOK(qos),
         \A t \in Ticks : /\ Lower(qos, t) = Lower(pos, t) /\ Upper(qos, t) = Upper(pos, t)
                          /\ Active(qos, t) = Active(pos, t),
         NEW pl, NEW tks, NEW c, NEW b, PoolInv(pl, tks, c, b, pos)
  PROVE  PoolInv(pl, tks, c, b, qos)
<1>1. pl.tick \in Ticks
  BY PoolFields DEF PoolInv
<1>2. SumsHold(qos, tks)
  BY DEF SumsHold, PoolInv
<1> QED BY <1>1, <1>2 DEF PoolInv

LEMMA SameLiquidity ==
  ASSUME NEW pos, NEW qos, PositionsOK(pos), PositionsOK(qos), NEW p \in Positions, NEW lo, NEW up,
         Grows(pos, qos, p, lo, up, 0), NEW t \in Ticks
  PROVE  /\ Lower(qos, t) = Lower(pos, t) /\ Upper(qos, t) = Upper(pos, t)
         /\ Active(qos, t) = Active(pos, t)
<1>1. t \in Int /\ 0 \in Int
  BY PriceOrder
<1>2. /\ Lower(qos, t) = Lower(pos, t) + (IF t = lo THEN 0 ELSE 0)
      /\ Upper(qos, t) = Upper(pos, t) + (IF t = up THEN 0 ELSE 0)
      /\ Active(qos, t) = Active(pos, t) + (IF in_range(lo, up, t) THEN 0 ELSE 0)
  BY <1>1, GrownSums
<1>3. Lower(pos, t) \in Nat /\ Upper(pos, t) \in Nat /\ Active(pos, t) \in Nat
  BY <1>1, SumsNat
<1> QED BY <1>2, <1>3

\* A new position.
LEMMA NewPositionType ==
  ASSUME NEW r \in Ranges, NEW n \in Nat, NEW inside \in [Tokens -> Int],
         NEW q, q = new_position(r, n, inside)
  PROVE  q \in PositionState /\ q.lower = r[1] /\ q.upper = r[2] /\ q.liquidity = n
         /\ r[1] \in Ticks /\ r[2] \in Ticks /\ r[1] < r[2]
<1>1. r[1] \in Ticks /\ r[2] \in Ticks /\ r[1] < r[2]
  BY InputAssumption
<1> DEFINE zero == [k \in Tokens |-> 0]
<1>2. zero \in [Tokens -> Int]
  OBVIOUS
<1>3. q = [open |-> TRUE, lower |-> r[1], upper |-> r[2], liquidity |-> n,
           fee_growth_inside_last |-> inside, token_fees_owed |-> zero]
  BY DEF new_position
<1> HIDE DEF zero
<1> QED BY <1>1, <1>2, <1>3 DEF PositionState

LEMMA OpenKeeps ==
  ASSUME PoolInv(pool, ticks, count, bitmap, position),
         NEW p \in Positions, NEW r \in Ranges, NEW d \in Deltas, open_position(p, r, d)
  PROVE  PoolInv(pool', ticks', count', bitmap', position')
<1>1. pool \in PoolState /\ ticks \in [Ticks -> TickState] /\ PositionsOK(position)
  BY DEF PoolInv
<1>2. d \in Nat /\ d \in Int
  BY InputAssumption
<1>3. ~position[p].open
  BY Zenon DEF open_position
<1>4. CASE d = 0
  <2> DEFINE zero == [k \in Tokens |-> 0]
             q == new_position(r, 0, zero)
             qos == [position EXCEPT ![p] = q]
  <2>1. /\ position' = qos
        /\ UNCHANGED <<pool, ticks, count, bitmap>>
    BY <1>4 DEF open_position
  <2>2. zero \in [Tokens -> Int]
    OBVIOUS
  <2> HIDE DEF zero
  <2>3. q \in PositionState /\ q.lower = r[1] /\ q.upper = r[2] /\ q.liquidity = 0 /\ r[1] < r[2]
    BY <2>2, NewPositionType
  <2> HIDE DEF q
  <2>4. PositionsOK(qos) /\ Grows(position, qos, p, q.lower, q.upper, 0)
    BY <1>1, <1>3, <2>3, PositionPut
  <2> HIDE DEF qos
  <2>5. PoolInv(pool, ticks, count, bitmap, qos)
    BY <1>1, <2>4, SameLiquidity, LiquidityKept
  <2> QED BY <2>1, <2>5
<1>5. CASE d # 0
  <2> DEFINE inside == [k \in Tokens |-> get_fee_growth_inside(updated_ticks(r[1], r[2], d),
                                                               r[1], r[2], k)]
             q == new_position(r, d, inside)
             qos == [position EXCEPT ![p] = q]
  <2>1. position' = qos /\ modify_position(r[1], r[2], d)
    BY <1>5, Zenon DEF open_position, add_liquidity
  <2>2. r[1] \in Ticks /\ r[2] \in Ticks /\ r[1] < r[2]
    BY InputAssumption
  <2>3. inside \in [Tokens -> Int]
    <3> DEFINE U == updated_ticks(r[1], r[2], d)
    <3>1. \A t \in Ticks : U[t].fee_growth_outside \in [Tokens -> Growths]
      BY <1>1, <2>2, OutsideType
    <3> HIDE DEF U
    <3>2. \A k \in Tokens : get_fee_growth_inside(U, r[1], r[2], k) \in Int
      BY <1>1, <2>2, <3>1, InsideType
    <3> QED BY <3>2 DEF U
  <2> HIDE DEF inside
  <2>4. q \in PositionState /\ q.lower = r[1] /\ q.upper = r[2] /\ q.liquidity = d
    BY <1>2, <2>3, NewPositionType
  <2> HIDE DEF q
  <2>5. PositionsOK(qos) /\ Grows(position, qos, p, r[1], r[2], d)
    BY <1>1, <1>3, <2>2, <2>4, PositionPut
  <2> HIDE DEF qos
  <2>6. PoolInv(pool', ticks', count', bitmap', qos)
    BY <1>2, <1>5, <2>1, <2>2, <2>5, ModifyKeeps
  <2> QED BY <2>1, <2>6
<1> QED BY <1>4, <1>5

LEMMA IncreaseKeeps ==
  ASSUME PoolInv(pool, ticks, count, bitmap, position),
         NEW p \in Positions, NEW d \in Deltas, increase_liquidity(p, d)
  PROVE  PoolInv(pool', ticks', count', bitmap', position')
<1> DEFINE pos == position[p]
           U == updated_ticks(pos.lower, pos.upper, d)
           u == update_fee_and_reward(pos, U)
           n == pos.liquidity + d
           q == [u EXCEPT !.liquidity = n]
           qos == [position EXCEPT ![p] = q]
<1>1. pool \in PoolState /\ ticks \in [Ticks -> TickState] /\ PositionsOK(position)
  BY DEF PoolInv
<1>2. d \in Nat /\ d \in Int
  BY InputAssumption
<1>3. pos.open /\ d > 0 /\ modify_position(pos.lower, pos.upper, d)
  BY Zenon DEF increase_liquidity, add_liquidity
<1>4. position' = [position EXCEPT ![p] = [u EXCEPT !.liquidity = @ + d]]
  BY Zenon DEF increase_liquidity
<1>5. /\ pos \in PositionState /\ pos.liquidity \in Nat
      /\ pos.lower \in Ticks /\ pos.upper \in Ticks /\ pos.lower < pos.upper
  BY <1>1, <1>3, PositionType
<1>6. \A t \in Ticks : U[t].fee_growth_outside \in [Tokens -> Growths]
  BY <1>1, <1>5, OutsideType
<1>7. u \in PositionState /\ u.lower = pos.lower /\ u.upper = pos.upper /\ u.liquidity = pos.liquidity
  <2> HIDE DEF U, pos
  <2> QED BY <1>1, <1>5, <1>6, PositionUpdated
<1>8. position' = qos
  <2> HIDE DEF u
  <2> QED BY <1>4, <1>7
<1>9. n \in Nat
  BY <1>2, <1>5
<1> HIDE DEF u, n
<1>10. q \in PositionState /\ q.lower = pos.lower /\ q.upper = pos.upper /\ q.liquidity = n
  BY <1>7, <1>9 DEF PositionState
<1> HIDE DEF q
<1>11. PositionsOK(qos) /\ Grows(position, qos, p, q.lower, q.upper, d)
  BY <1>1, <1>3, <1>5, <1>10, PositionPut DEF n
<1> HIDE DEF qos, pos
<1>12. Grows(position, qos, p, pos.lower, pos.upper, d)
  BY <1>10, <1>11
<1>13. PoolInv(pool', ticks', count', bitmap', qos)
  BY <1>2, <1>3, <1>5, <1>11, <1>12, ModifyKeeps
<1> QED BY <1>8, <1>13

\* What a position is after fees are paid out of it.
LEMMA PaidType ==
  ASSUME NEW after \in PositionState, NEW fees \in [Tokens -> Int],
         NEW q, q = [after EXCEPT !.token_fees_owed = [k \in Tokens |-> @[k] - fees[k]]]
  PROVE  q \in PositionState /\ q.lower = after.lower /\ q.upper = after.upper
         /\ q.liquidity = after.liquidity
<1> DEFINE left == [k \in Tokens |-> after.token_fees_owed[k] - fees[k]]
<1>1. after.token_fees_owed \in [Tokens -> Int]
  BY DEF PositionState
<1>2. left \in [Tokens -> Int]
  BY <1>1
<1>3. q = [after EXCEPT !.token_fees_owed = left]
  OBVIOUS
<1> HIDE DEF left
<1> QED BY <1>2, <1>3 DEF PositionState

LEMMA DecreaseKeeps ==
  ASSUME PoolInv(pool, ticks, count, bitmap, position),
         NEW p \in Positions, NEW d \in Deltas, decrease_liquidity(p, d)
  PROVE  PoolInv(pool', ticks', count', bitmap', position')
<1> DEFINE pos == position[p]
           burns == "DecreaseLiquidity" \in status
           after == IF burns THEN burnt(pos, d) ELSE pos
           fees == [k \in Tokens |-> IF "CollectFee" \in status THEN after.token_fees_owed[k] ELSE 0]
           q == [after EXCEPT !.token_fees_owed = [k \in Tokens |-> @[k] - fees[k]]]
           qos == [position EXCEPT ![p] = q]
           e == IF burns THEN -d ELSE 0
<1>1. pool \in PoolState /\ ticks \in [Ticks -> TickState] /\ PositionsOK(position)
  BY DEF PoolInv
<1>2. d \in Nat
  BY InputAssumption
<1>3. /\ pos.open /\ d <= pos.liquidity
      /\ IF burns /\ d > 0 THEN modify_position(pos.lower, pos.upper, -d)
         ELSE UNCHANGED <<pool, ticks, count, bitmap>>
      /\ position' = qos
  BY Zenon DEF decrease_liquidity
<1>4. /\ pos \in PositionState /\ pos.liquidity \in Nat
      /\ pos.lower \in Ticks /\ pos.upper \in Ticks /\ pos.lower < pos.upper
  BY <1>1, <1>3, PositionType
<1>5. /\ after \in PositionState /\ after.lower = pos.lower /\ after.upper = pos.upper
      /\ after.liquidity = pos.liquidity + e
  <2>1. CASE burns
    <3> DEFINE tks == IF d = 0 THEN ticks ELSE updated_ticks(pos.lower, pos.upper, -d)
               u == update_fee_and_reward(pos, tks)
               n == pos.liquidity - d
    <3>1. \A t \in Ticks : tks[t].fee_growth_outside \in [Tokens -> Growths]
      <4> DEFINE U == updated_ticks(pos.lower, pos.upper, -d)
      <4>1. \A t \in Ticks : /\ U[t].fee_growth_outside \in [Tokens -> Growths]
                             /\ ticks[t].fee_growth_outside \in [Tokens -> Growths]
        BY <1>1, <1>4, OutsideType
      <4> HIDE DEF U
      <4> QED BY <4>1 DEF U
    <3>2. u \in PositionState /\ u.lower = pos.lower /\ u.upper = pos.upper /\ u.liquidity = pos.liquidity
      <4> HIDE DEF tks, pos
      <4> QED BY <1>1, <1>4, <3>1, PositionUpdated
    <3>3. after = [u EXCEPT !.liquidity = n]
      <4>1. after = [u EXCEPT !.liquidity = @ - d]
        BY <2>1 DEF burnt
      <4> HIDE DEF u, after
      <4> QED BY <3>2, <4>1
    <3>4. n \in Nat /\ n = pos.liquidity + e
      BY <1>2, <1>3, <1>4, <2>1
    <3> HIDE DEF u, n, after
    <3> QED BY <3>2, <3>3, <3>4 DEF PositionState
  <2>2. CASE ~burns
    BY <1>4, <2>2
  <2> QED BY <2>1, <2>2
<1>6. e \in Int
  BY <1>2
<1>7. q \in PositionState /\ q.lower = pos.lower /\ q.upper = pos.upper
      /\ q.liquidity = pos.liquidity + e
  <2>1. fees \in [Tokens -> Int]
    <3>1. after.token_fees_owed \in [Tokens -> Int]
      BY <1>5 DEF PositionState
    <3> HIDE DEF after
    <3> QED BY <3>1
  <2> HIDE DEF after, fees
  <2>2. q \in PositionState /\ q.lower = after.lower /\ q.upper = after.upper
        /\ q.liquidity = after.liquidity
    BY <1>5, <2>1, PaidType
  <2> QED BY <1>5, <2>2
<1> HIDE DEF q
<1>8. PositionsOK(qos) /\ Grows(position, qos, p, q.lower, q.upper, e)
  <2> HIDE DEF e
  <2> QED BY <1>1, <1>3, <1>4, <1>7, PositionPut
<1> HIDE DEF qos
<1>9. Grows(position, qos, p, pos.lower, pos.upper, e)
  BY <1>7, <1>8
<1>10. CASE burns /\ d > 0
  <2> DEFINE m == -d
  <2>1. m \in Int /\ m # 0 /\ e = m
    BY <1>2, <1>10
  <2>2. modify_position(pos.lower, pos.upper, m)
    BY <1>3, <1>10
  <2>3. Grows(position, qos, p, pos.lower, pos.upper, m)
    BY <1>9, <2>1
  <2> HIDE DEF m, e, pos
  <2>4. PoolInv(pool', ticks', count', bitmap', qos)
    BY <1>4, <1>8, <2>1, <2>2, <2>3, ModifyKeeps
  <2> QED BY <1>3, <2>4
<1>11. CASE ~(burns /\ d > 0)
  <2>1. e = 0 /\ UNCHANGED <<pool, ticks, count, bitmap>>
    BY <1>2, <1>3, <1>11
  <2>2. Grows(position, qos, p, pos.lower, pos.upper, 0)
    BY <1>9, <2>1
  <2> HIDE DEF e, pos, burns
  <2>3. PoolInv(pool, ticks, count, bitmap, qos)
    BY <1>1, <1>8, <2>2, SameLiquidity, LiquidityKept
  <2> QED BY <1>3, <2>1, <2>3
<1> QED BY <1>10, <1>11

LEMMA CloseKeeps ==
  ASSUME PoolInv(pool, ticks, count, bitmap, position),
         NEW p \in Positions, close_position(p)
  PROVE  PoolInv(pool', ticks', count', bitmap', position')
<1> DEFINE pos == position[p]
           qos == [position EXCEPT ![p] = NoPosition]
<1>1. PositionsOK(position)
  BY DEF PoolInv
<1>2. pos.open /\ pos.liquidity = 0 /\ position' = qos /\ UNCHANGED <<pool, ticks, count, bitmap>>
  BY DEF close_position
<1>3. /\ position \in [Positions -> PositionState \cup {NoPosition}]
      /\ \A r \in Positions : position[r].open => position[r].lower < position[r].upper
  BY <1>1 DEF PositionsOK
<1>4. qos \in [Positions -> PositionState \cup {NoPosition}]
  BY <1>3
<1>5. qos[p] = NoPosition /\ \A r \in Positions : r # p => qos[r] = position[r]
  BY <1>3
<1> HIDE DEF qos
<1>6. ~qos[p].open
  BY <1>5 DEF NoPosition
<1>7. PositionsOK(qos)
  BY <1>3, <1>4, <1>5, <1>6 DEF PositionsOK
<1>8. Grows(qos, position, p, pos.lower, pos.upper, 0)
  <2>1. \A r \in Positions : r # p => position[r] = qos[r]
    BY <1>5
  <2> QED BY <1>2, <1>6, <2>1 DEF Grows
<1> HIDE DEF pos
<1>9. \A t \in Ticks : /\ Lower(qos, t) = Lower(position, t) /\ Upper(qos, t) = Upper(position, t)
                       /\ Active(qos, t) = Active(position, t)
  BY <1>1, <1>7, <1>8, SameLiquidity
<1>10. PoolInv(pool, ticks, count, bitmap, qos)
  BY <1>1, <1>7, <1>9, LiquidityKept
<1> QED BY <1>2, <1>10

(***************************************************************************)
(* Orders and the administrator.                                           *)
(***************************************************************************)
LEMMA OrdersKeep ==
  ASSUME PoolInv(pool, ticks, count, bitmap, position),
         Orders # {}, NEW t \in Ticks, NEW oa \in OrdersOfTick, set_orders(t, oa)
  PROVE  PoolInv(pool, ticks', count', bitmap', position)
<1>1. /\ ticks \in [Ticks -> TickState] /\ count \in [Arrays -> Nat] /\ bitmap \in SUBSET Arrays
      /\ SumsHold(position, ticks) /\ OrdersOK(ticks)
      /\ CountsHold(Initialized(ticks), count, bitmap)
  BY DEF PoolInv
<1> DEFINE T == [ticks[t] EXCEPT !.orders = oa]
           tks == ticks'
           before == is_initialized(ticks[t])
           after == is_initialized(T)
           same == before = after
           S == Initialized(ticks)
           R == Initialized(tks)
<1>2. /\ tks = [ticks EXCEPT ![t] = T]
      /\ count' = (IF same THEN count ELSE counted(count, t, after))
      /\ bitmap' = (IF same THEN bitmap ELSE flipped_bitmap(bitmap, count, t, after))
  BY Zenon DEF set_orders
<1>4. /\ tks \in [Ticks -> TickState] /\ SumsHold(position, tks) /\ OrdersOK(tks)
      /\ \A u \in Ticks : u # t => tks[u] = ticks[u]
      /\ tks[t] = T
  <2>1. /\ T \in TickState /\ T.liquidity_gross = ticks[t].liquidity_gross
        /\ T.liquidity_net = ticks[t].liquidity_net
    <3> DEFINE old == ticks[t]
    <3>1. old \in TickState
      BY <1>1
    <3> HIDE DEF old
    <3>2. [old EXCEPT !.orders = oa] \in TickState
      BY <3>1 DEF TickState
    <3> QED BY <3>1, <3>2 DEF old, TickState
  <2> HIDE DEF T, tks
  <2>2. \A u \in Ticks : tks[u] = IF u = t THEN T ELSE ticks[u]
    BY <1>1, <1>2
  <2>3. SumsHold(position, tks)
    BY <1>1, <2>1, <2>2 DEF SumsHold
  <2>4. tks \in [Ticks -> TickState]
    BY <1>1, <1>2, <2>1
  <2> QED BY <2>2, <2>3, <2>4 DEF OrdersOK
<1>5. before \in BOOLEAN /\ after \in BOOLEAN /\ same \in BOOLEAN
  BY DEF is_initialized, has_liquidity, has_limit_orders, AtTick!has_limit_orders
<1>6. /\ S \in SUBSET Ticks /\ R \in SUBSET Ticks
      /\ t \in S <=> before
      /\ t \in R <=> after
      /\ \A u \in Ticks : u # t => (u \in R <=> u \in S)
  <2> HIDE DEF tks, T
  <2> QED BY <1>4 DEF Initialized
<1>7. same => R = S
  <2> HIDE DEF R, S, tks, before, after
  <2> QED BY <1>5, <1>6
<1>8. ~same => OneTick(S, R, t, after)
  <2> HIDE DEF R, S, tks, T
  <2>1. CASE after /\ ~before
    <3>1. t \notin S /\ R = S \cup {t}
      <4> HIDE DEF before, after
      <4> QED BY <1>6, <2>1
    <3> QED BY <2>1, <3>1 DEF OneTick
  <2>2. CASE ~after /\ before
    <3>1. t \in S /\ R = S \ {t}
      <4> HIDE DEF before, after
      <4> QED BY <1>6, <2>2
    <3> QED BY <2>2, <3>1 DEF OneTick
  <2> QED BY <1>5, <2>1, <2>2, Zenon
<1>9. count' \in [Arrays -> Nat] /\ bitmap' \in SUBSET Arrays /\ CountsHold(R, count', bitmap')
  <2> DEFINE f == ~same
  <2>1. f \in BOOLEAN /\ (f => OneTick(S, R, t, after)) /\ (~f => R = S)
    BY <1>7, <1>8, Zenon
  <2>2. count' = (IF f THEN counted(count, t, after) ELSE count)
        /\ bitmap' = (IF f THEN flipped_bitmap(bitmap, count, t, after) ELSE bitmap)
    BY <1>2, Zenon
  <2>3. after \in BOOLEAN
    BY <1>5
  <2>4. CountsHold(S, count, bitmap)
    BY <1>1
  <2> HIDE DEF S, R, after, same, f
  <2> QED BY <1>1, <1>6, <2>1, <2>2, <2>3, <2>4, CountsMayFollow
<1> QED BY <1>4, <1>9 DEF PoolInv

LEMMA OpenOrderKeeps ==
  ASSUME PoolInv(pool, ticks, count, bitmap, position),
         NEW o \in Orders, open_limit_order(o)
  PROVE  PoolInv(pool', ticks', count', bitmap', position')
<1> DEFINE t == o.tick
           T == ticks[t].orders
           n == T.orders_amount + o.amount
           oa == [T EXCEPT !.orders_amount = n]
<1>1. t \in Ticks /\ o.amount \in Nat
  BY InputAssumption
<1>2. set_orders(t, oa) /\ UNCHANGED <<pool, position>>
  BY Zenon DEF open_limit_order
<1>3. T \in OrdersOfTick
  BY <1>1 DEF PoolInv, TickState
<1> HIDE DEF t, T
<1>4. n \in Nat
  BY <1>1, <1>3 DEF OrdersOfTick
<1> HIDE DEF n
<1>5. oa \in OrdersOfTick
  BY <1>3, <1>4 DEF OrdersOfTick
<1> HIDE DEF oa
<1>6. PoolInv(pool, ticks', count', bitmap', position)
  BY <1>1, <1>2, <1>5, OrdersKeep
<1> QED BY <1>2, <1>6

LEMMA DecreaseOrderKeeps ==
  ASSUME PoolInv(pool, ticks, count, bitmap, position), NEW o \in Orders,
         NEW cohort \in {"orders_amount", "part_filled_orders_remaining"},
         decrease_limit_order(o.tick, cohort, o.amount)
  PROVE  PoolInv(pool', ticks', count', bitmap', position')
<1> DEFINE t == o.tick
           T == ticks[t].orders
           real == least(o.amount, T[cohort])
           n == T[cohort] - real
           oa == [T EXCEPT ![cohort] = n]
<1>1. t \in Ticks /\ o.amount \in Nat
  BY InputAssumption
<1>2. set_orders(t, oa) /\ UNCHANGED <<pool, position>>
  BY Zenon DEF decrease_limit_order
<1>3. T \in OrdersOfTick
  BY <1>1 DEF PoolInv, TickState
<1> HIDE DEF t, T
<1>4. T[cohort] \in Nat
  BY <1>3 DEF OrdersOfTick
<1>5. n \in Nat
  BY <1>1, <1>4 DEF least
<1> HIDE DEF n
<1>6. oa \in OrdersOfTick
  <2>1. CASE cohort = "orders_amount"
    BY <1>3, <1>5, <2>1 DEF OrdersOfTick
  <2>2. CASE cohort = "part_filled_orders_remaining"
    BY <1>3, <1>5, <2>2 DEF OrdersOfTick
  <2> QED BY <2>1, <2>2
<1> HIDE DEF oa
<1>7. PoolInv(pool, ticks', count', bitmap', position)
  BY <1>1, <1>2, <1>6, OrdersKeep
<1> QED BY <1>2, <1>7

\* Fees and volatility do not matter to liquidity.
LEMMA PoolChanged ==
  ASSUME NEW pl, NEW tks, NEW c, NEW b, NEW pos, PoolInv(pl, tks, c, b, pos),
         NEW pl2 \in PoolState, pl2.tick = pl.tick, pl2.liquidity = pl.liquidity,
         pl2.sqrt_price = pl.sqrt_price
  PROVE  PoolInv(pl2, tks, c, b, pos)
BY DEF PoolInv

LEMMA ProtocolFeeKeeps ==
  ASSUME PoolInv(pool, ticks, count, bitmap, position), NEW k \in Tokens,
         NEW requested \in {1, U64Max}, collect_protocol_fee(k, requested)
  PROVE  PoolInv(pool', ticks', count', bitmap', position')
<1> DEFINE x == pool.protocol_fees[k]
           n == x - least(requested, x)
           F == [pool.protocol_fees EXCEPT ![k] = n]
           v == pool'
<1>1. pool \in PoolState
  BY DEF PoolInv
<1>2. pool.protocol_fees \in [Tokens -> Nat] /\ x \in Nat
  BY <1>1, PoolFields
<1>3. n \in Nat
  BY <1>2, RateAssumption DEF least
<1>4. v = [pool EXCEPT !.protocol_fees = F] /\ UNCHANGED <<ticks, count, bitmap, position>>
  BY DEF collect_protocol_fee
<1> HIDE DEF n, v
<1>5. F \in [Tokens -> Nat]
  BY <1>2, <1>3
<1> HIDE DEF F
<1>6. /\ v \in PoolState /\ v.tick = pool.tick /\ v.liquidity = pool.liquidity
      /\ v.sqrt_price = pool.sqrt_price
  BY <1>1, <1>4, <1>5 DEF PoolState
<1>7. PoolInv(v, ticks, count, bitmap, position)
  BY <1>6, PoolChanged
<1> QED BY <1>4, <1>7 DEF v

LEMMA FundFeeKeeps ==
  ASSUME PoolInv(pool, ticks, count, bitmap, position), NEW k \in Tokens,
         NEW requested \in {1, U64Max}, collect_fund_fee(k, requested)
  PROVE  PoolInv(pool', ticks', count', bitmap', position')
<1> DEFINE x == pool.fund_fees[k]
           n == x - least(requested, x)
           F == [pool.fund_fees EXCEPT ![k] = n]
           v == pool'
<1>1. pool \in PoolState
  BY DEF PoolInv
<1>2. pool.fund_fees \in [Tokens -> Nat] /\ x \in Nat
  BY <1>1, PoolFields
<1>3. n \in Nat
  BY <1>2, RateAssumption DEF least
<1>4. v = [pool EXCEPT !.fund_fees = F] /\ UNCHANGED <<ticks, count, bitmap, position>>
  BY DEF collect_fund_fee
<1> HIDE DEF n, v
<1>5. F \in [Tokens -> Nat]
  BY <1>2, <1>3
<1> HIDE DEF F
<1>6. /\ v \in PoolState /\ v.tick = pool.tick /\ v.liquidity = pool.liquidity
      /\ v.sqrt_price = pool.sqrt_price
  BY <1>1, <1>4, <1>5 DEF PoolState
<1>7. PoolInv(v, ticks, count, bitmap, position)
  BY <1>6, PoolChanged
<1> QED BY <1>4, <1>7 DEF v

(***************************************************************************)
(* The invariant, from the start and through every step.                   *)
(***************************************************************************)
LEMMA InitInv ==
  ASSUME StaticFee, Init
  PROVE  IInv
<1>1. PICK p \in InitialPrices :
        pool = [sqrt_price |-> p, tick |-> get_tick_at_sqrt_price(p), liquidity |-> 0,
                fee_growth_global |-> [k \in Tokens |-> 0],
                protocol_fees |-> [k \in Tokens |-> 0], fund_fees |-> [k \in Tokens |-> 0],
                dynamic_fee |-> initialize_dynamic_fee_info(get_tick_at_sqrt_price(p))]
  BY Zenon DEF Init
<1> DEFINE t0 == get_tick_at_sqrt_price(p)
           zero == [k \in Tokens |-> 0]
           T0 == [liquidity_gross |-> 0, liquidity_net |-> 0, fee_growth_outside |-> zero,
                  orders |-> NoOrders]
<1>2. MinTick \in Ticks /\ MaxTick \in Ticks /\ SqrtPrice[MinTick] \in Nat /\ SqrtPrice[MaxTick] \in Nat
  BY TickAssumption, PriceOrder DEF Ticks
<1>3. p \in Nat /\ SqrtPrice[MinTick] <= p /\ p < SqrtPrice[MaxTick]
  BY <1>2, InputAssumption
<1>4. /\ t0 \in Ticks /\ t0 < MaxTick /\ t0 + 1 \in Ticks
      /\ SqrtPrice[t0] <= p /\ p < SqrtPrice[t0 + 1]
  BY <1>3, TickAtPrice
<1>5. zero \in [Tokens -> Growths] /\ zero \in [Tokens -> Nat]
  BY RatesTyped DEF RatesOK, Growths
<1>6. initialize_dynamic_fee_info(t0) = NoFeeConfig
  BY DEF StaticFee, initialize_dynamic_fee_info
<1>7. pool = [sqrt_price |-> p, tick |-> t0, liquidity |-> 0, fee_growth_global |-> zero,
              protocol_fees |-> zero, fund_fees |-> zero, dynamic_fee |-> NoFeeConfig]
  BY <1>1, <1>6
<1>8. ticks = [t \in Ticks |-> T0] /\ count = [a \in Arrays |-> 0] /\ bitmap = {}
      /\ position = [q \in Positions |-> NoPosition] /\ status = AllOperations /\ swap = NoSwap
  BY DEF Init
<1> HIDE DEF t0, zero
<1>9. pool \in PoolState /\ pool.liquidity = 0 /\ pool.tick = t0 /\ pool.sqrt_price = p
  BY <1>3, <1>4, <1>5, <1>7 DEF PoolState
<1>10. T0 \in TickState /\ T0.liquidity_gross = 0 /\ T0.liquidity_net = 0 /\ T0.orders = NoOrders
  BY <1>5 DEF TickState, OrdersOfTick, NoOrders
<1>11. ~is_initialized(T0) /\ unfilled(NoOrders) = 0
  <2>1. unfilled(NoOrders) = 0
    BY DEF unfilled, AtTick!limit_order_unfilled_amount, NoOrders
  <2> HIDE DEF T0
  <2> QED BY <1>10, <2>1, LeftAtTick
<1> HIDE DEF T0
<1>12. ticks \in [Ticks -> TickState] /\ Initialized(ticks) = {} /\ OrdersOK(ticks)
  BY <1>8, <1>10, <1>11 DEF Initialized, OrdersOK
<1>13. PositionsOK(position) /\ \A q \in Positions : ~position[q].open
  BY <1>8 DEF PositionsOK, NoPosition
<1>14. ASSUME NEW t \in Ticks
       PROVE  Lower(position, t) = 0 /\ Upper(position, t) = 0 /\ Active(position, t) = 0
  <2> DEFINE l == lower_of(position, t)
             u == upper_of(position, t)
             v == active_of(position, t)
  <2>1. \A q \in Positions : l[q] = 0 /\ u[q] = 0 /\ v[q] = 0
    BY <1>13 DEF lower_of, upper_of, active_of
  <2>2. IsFiniteSet(Positions)
    BY InputAssumption
  <2> HIDE DEF l, u, v
  <2>3. /\ SumFunctionOnSet(l, Positions) = 0 /\ SumFunctionOnSet(u, Positions) = 0
        /\ SumFunctionOnSet(v, Positions) = 0
    BY <2>1, <2>2, SumZero
  <2> QED BY <2>3 DEF l, u, v, Lower, Upper, Active
<1>15. SumsHold(position, ticks)
  BY <1>8, <1>10, <1>14 DEF SumsHold
<1>16. CountsHold(Initialized(ticks), count, bitmap)
  <2>1. \A a \in Arrays : in_array({}, a) = {}
    BY DEF in_array
  <2>2. Cardinality({}) = 0
    BY FS_EmptySet
  <2>3. \A a \in Arrays : count[a] = 0 /\ a \notin bitmap
    BY <1>8
  <2> QED BY <1>12, <2>1, <2>2, <2>3 DEF CountsHold
<1>17. count \in [Arrays -> Nat] /\ bitmap \in SUBSET Arrays
  BY <1>8
<1>18. PriceIn(t0, p)
  <2>1. SqrtPrice[t0 + 1] \in Nat
    BY <1>4, PriceOrder
  <2> QED BY <1>3, <1>4, <2>1 DEF PriceIn
<1>19. PoolInv(pool, ticks, count, bitmap, position)
  BY <1>3, <1>4, <1>9, <1>12, <1>13, <1>14, <1>15, <1>16, <1>17, <1>18 DEF PoolInv
<1>20. ~swap.running
  BY <1>8 DEF NoSwap
<1> QED BY <1>8, <1>19, <1>20 DEF IInv

\* No step of a swap moves the price against its direction.
OneWay(w, v) ==
  IF w.zero_for_one THEN v.sqrt_price <= w.sqrt_price ELSE v.sqrt_price >= w.sqrt_price

\* The instructions that leave no swap running.
LEMMA InstructionKeeps ==
  ASSUME PoolInv(pool, ticks, count, bitmap, position), status \subseteq AllOperations,
         \/ \E p \in Positions, r \in Ranges, d \in Deltas : open_position(p, r, d)
         \/ \E p \in Positions, d \in Deltas : increase_liquidity(p, d)
         \/ \E p \in Positions, d \in Deltas : decrease_liquidity(p, d)
         \/ \E p \in Positions : close_position(p)
         \/ \E o \in Orders : open_limit_order(o)
         \/ \E o \in Orders, cohort \in {"orders_amount", "part_filled_orders_remaining"} :
              decrease_limit_order(o.tick, cohort, o.amount)
         \/ \E k \in Tokens, requested \in {1, U64Max} : collect_protocol_fee(k, requested)
         \/ \E k \in Tokens, requested \in {1, U64Max} : collect_fund_fee(k, requested)
         \/ \E s \in Statuses : update_pool_status(s)
  PROVE  /\ PoolInv(pool', ticks', count', bitmap', position') /\ status' \subseteq AllOperations
         /\ ~swap.running /\ swap' = swap
<1>1. CASE \E p \in Positions, r \in Ranges, d \in Deltas : open_position(p, r, d)
  <2>1. PICK p \in Positions, r \in Ranges, d \in Deltas : open_position(p, r, d)
    BY <1>1
  <2>2. PoolInv(pool', ticks', count', bitmap', position')
    BY <2>1, OpenKeeps
  <2>3. ~swap.running /\ swap' = swap /\ status' = status
    BY <2>1, Zenon DEF open_position, instruction
  <2> QED BY <2>2, <2>3
<1>2. CASE \E p \in Positions, d \in Deltas : increase_liquidity(p, d)
  <2>1. PICK p \in Positions, d \in Deltas : increase_liquidity(p, d)
    BY <1>2
  <2>2. PoolInv(pool', ticks', count', bitmap', position')
    BY <2>1, IncreaseKeeps
  <2>3. ~swap.running /\ swap' = swap /\ status' = status
    BY <2>1, Zenon DEF increase_liquidity, instruction
  <2> QED BY <2>2, <2>3
<1>3. CASE \E p \in Positions, d \in Deltas : decrease_liquidity(p, d)
  <2>1. PICK p \in Positions, d \in Deltas : decrease_liquidity(p, d)
    BY <1>3
  <2>2. PoolInv(pool', ticks', count', bitmap', position')
    BY <2>1, DecreaseKeeps
  <2>3. ~swap.running /\ swap' = swap /\ status' = status
    BY <2>1, Zenon DEF decrease_liquidity, instruction
  <2> QED BY <2>2, <2>3
<1>4. CASE \E p \in Positions : close_position(p)
  <2>1. PICK p \in Positions : close_position(p)
    BY <1>4
  <2>2. PoolInv(pool', ticks', count', bitmap', position')
    BY <2>1, CloseKeeps
  <2>3. ~swap.running /\ swap' = swap /\ status' = status
    BY <2>1, Zenon DEF close_position, instruction
  <2> QED BY <2>2, <2>3
<1>5. CASE \E o \in Orders : open_limit_order(o)
  <2>1. PICK o \in Orders : open_limit_order(o)
    BY <1>5
  <2>2. PoolInv(pool', ticks', count', bitmap', position')
    BY <2>1, OpenOrderKeeps
  <2>3. ~swap.running /\ swap' = swap /\ status' = status
    BY <2>1, Zenon DEF open_limit_order, instruction
  <2> QED BY <2>2, <2>3
<1>6. CASE \E o \in Orders, cohort \in {"orders_amount", "part_filled_orders_remaining"} :
             decrease_limit_order(o.tick, cohort, o.amount)
  <2>1. PICK o \in Orders, cohort \in {"orders_amount", "part_filled_orders_remaining"} :
          decrease_limit_order(o.tick, cohort, o.amount)
    BY <1>6
  <2>2. PoolInv(pool', ticks', count', bitmap', position')
    BY <2>1, DecreaseOrderKeeps
  <2>3. ~swap.running /\ swap' = swap /\ status' = status
    BY <2>1, Zenon DEF decrease_limit_order, instruction
  <2> QED BY <2>2, <2>3
<1>7. CASE \E k \in Tokens, requested \in {1, U64Max} : collect_protocol_fee(k, requested)
  <2>1. PICK k \in Tokens, requested \in {1, U64Max} : collect_protocol_fee(k, requested)
    BY <1>7
  <2>2. PoolInv(pool', ticks', count', bitmap', position')
    BY <2>1, ProtocolFeeKeeps
  <2>3. ~swap.running /\ swap' = swap /\ status' = status
    BY <2>1, Zenon DEF collect_protocol_fee, instruction
  <2> QED BY <2>2, <2>3
<1>8. CASE \E k \in Tokens, requested \in {1, U64Max} : collect_fund_fee(k, requested)
  <2>1. PICK k \in Tokens, requested \in {1, U64Max} : collect_fund_fee(k, requested)
    BY <1>8
  <2>2. PoolInv(pool', ticks', count', bitmap', position')
    BY <2>1, FundFeeKeeps
  <2>3. ~swap.running /\ swap' = swap /\ status' = status
    BY <2>1, Zenon DEF collect_fund_fee, instruction
  <2> QED BY <2>2, <2>3
<1>9. CASE \E s \in Statuses : update_pool_status(s)
  <2>1. PICK s \in Statuses : update_pool_status(s)
    BY <1>9
  <2>2. UNCHANGED <<pool, ticks, count, bitmap, position>> /\ status' = s
    BY <2>1, Zenon DEF update_pool_status
  <2>3. ~swap.running /\ swap' = swap
    BY <2>1, Zenon DEF update_pool_status, instruction
  <2>4. status' \subseteq AllOperations
    BY <2>2, InputAssumption
  <2> QED BY <2>2, <2>3, <2>4
<1> QED BY <1>1, <1>2, <1>3, <1>4, <1>5, <1>6, <1>7, <1>8, <1>9

\* The steps of a swap.
LEMMA SwapKeeps ==
  ASSUME StaticFee, IInv, run_swap
  PROVE  IInv' /\ (swap.running /\ swap'.running => OneWay(swap, swap'))
<1>1. /\ PoolInv(pool, ticks, count, bitmap, position) /\ status \subseteq AllOperations
      /\ swap.running => SwapInv(swap, position)
      /\ pool \in PoolState /\ PositionsOK(position)
  BY DEF IInv, PoolInv
<1>2. SUFFICES /\ PoolInv(pool', ticks', count', bitmap', position') /\ status' \subseteq AllOperations
               /\ swap'.running => SwapInv(swap', position')
               /\ swap.running /\ swap'.running => OneWay(swap, swap')
  BY DEF IInv
<1>3. ~NoSwap.running
  BY DEF NoSwap
<1> DEFINE Same == UNCHANGED <<pool, ticks, count, bitmap, position, status>>
<1>4. ASSUME Same, swap' = NoSwap \/ SwapInv(swap', position),
             swap.running /\ swap' # NoSwap => OneWay(swap, swap')
      PROVE  /\ PoolInv(pool', ticks', count', bitmap', position') /\ status' \subseteq AllOperations
             /\ swap'.running => SwapInv(swap', position')
             /\ swap.running /\ swap'.running => OneWay(swap, swap')
  <2>1. PoolInv(pool', ticks', count', bitmap', position') /\ status' \subseteq AllOperations
    BY <1>1, <1>4
  <2>2. CASE swap' = NoSwap
    BY <1>3, <2>1, <2>2
  <2>3. CASE swap' # NoSwap
    BY <1>4, <2>1, <2>3
  <2> QED BY <2>2, <2>3
<1>5. CASE find_next_tick
  <2> DEFINE t == nearest(found_ticks(swap), swap.zero_for_one)
             v == [swap EXCEPT !.stage = "compute", !.tick_next = t,
                               !.array = get_array_start_index(t), !.contains = TRUE]
  <2>1. swap.running /\ swap.stage = "search" /\ loop_continues(swap) /\ can_find(swap)
        /\ swap' = v /\ Same
    BY <1>5, Zenon DEF find_next_tick, in_stage, accounts
  <2>2. swap \in SwapState /\ swap.sqrt_price \in Nat
    BY <1>1, <2>1, SwapFields DEF SwapInv
  <2>3. SwapInv(v, position)
    <3>1. t = nearest(found_ticks(swap), swap.zero_for_one)
      OBVIOUS
    <3> HIDE DEF t
    <3>2. v = [swap EXCEPT !.stage = "compute", !.tick_next = t,
                           !.array = get_array_start_index(t), !.contains = TRUE]
      OBVIOUS
    <3> HIDE DEF v
    <3>3. SwapInv(swap, position)
      BY <1>1, <2>1
    <3> QED BY <2>1, <3>1, <3>2, <3>3, FindKeeps, ZenonT(30)
  <2>4. v.sqrt_price = swap.sqrt_price
    <3> HIDE DEF t
    <3> QED BY <2>2 DEF SwapState
  <2> HIDE DEF v, t
  <2>5. OneWay(swap, swap')
    BY <2>1, <2>2, <2>4 DEF OneWay
  <2> QED BY <1>4, <2>1, <2>3, <2>5
<1>6. CASE swap_compute
  <2>1. swap.running /\ swap.stage = "compute" /\ Same
    BY <1>6, Zenon DEF swap_compute, in_stage, accounts
  <2>2. SwapInv(swap, position)
    BY <1>1, <2>1
  <2>3. at_loop_top(swap) = swap
    BY <2>2, LoopTop DEF SwapInv
  <2> DEFINE s == step_to_target(swap)
             v == moved_to(apply_swap_amounts(swap, s), s.price)
  <2>4. can_compute(swap, s) /\ swap' = v
    BY <1>6, <2>3, Zenon DEF swap_compute
  <2>5. s = step_to_target(swap) /\ v = moved_to(apply_swap_amounts(swap, s), s.price)
    OBVIOUS
  <2> HIDE DEF s, v
  <2>6. SwapInv(v, position) /\ OneWay(swap, v)
    BY <1>1, <2>1, <2>2, <2>4, <2>5, ComputeKeeps DEF OneWay
  <2> QED BY <1>4, <2>1, <2>4, <2>6
<1>7. CASE swap_match
  <2> DEFINE m == match_limit_order(swap)
             v == matched(swap, m)
  <2>1. swap.running /\ swap.stage = "match" /\ Same /\ can_match(swap, m) /\ swap' = v
    BY <1>7, Zenon DEF swap_match, in_stage, accounts
  <2>2. SwapInv(swap, position) /\ m = match_limit_order(swap) /\ v = matched(swap, m)
    BY <1>1, <2>1
  <2> HIDE DEF m, v
  <2>3. /\ SwapInv(v, position) /\ v.zero_for_one = swap.zero_for_one
        /\ v.sqrt_price = swap.sqrt_price
    BY <2>1, <2>2, MatchKeeps
  <2>4. swap.sqrt_price \in Nat
    BY <2>2, SwapFields DEF SwapInv
  <2>5. OneWay(swap, swap')
    BY <2>1, <2>3, <2>4 DEF OneWay
  <2> QED BY <1>4, <2>1, <2>3, <2>5
<1>8. CASE swap_pass
  <2> DEFINE v == passed(swap)
  <2>1. swap.running /\ swap.stage = "pass" /\ Same /\ swap' = v
    BY <1>8, Zenon DEF swap_pass, in_stage, accounts
  <2>2. SwapInv(swap, position) /\ v = passed(swap)
    BY <1>1, <2>1
  <2> HIDE DEF v
  <2>3. /\ SwapInv(v, position) /\ v.zero_for_one = swap.zero_for_one
        /\ v.sqrt_price = swap.sqrt_price
    BY <1>1, <2>1, <2>2, PassKeeps
  <2>4. swap.sqrt_price \in Nat
    BY <2>2, SwapFields DEF SwapInv
  <2>5. OneWay(swap, swap')
    BY <2>1, <2>3, <2>4 DEF OneWay
  <2> QED BY <1>4, <2>1, <2>3, <2>5
<1>9. CASE swap_end
  <2>1. /\ swap.running /\ swap.stage = "search" /\ UNCHANGED <<position, status>>
        /\ pool' = update_after_swap(swap) /\ ticks' = swap.ticks /\ count' = swap.count
        /\ bitmap' = swap.bitmap /\ swap' = NoSwap
    BY <1>9, Zenon DEF swap_end, in_stage
  <2>2. PoolInv(update_after_swap(swap), swap.ticks, swap.count, swap.bitmap, position)
    BY <1>1, <2>1, EndKeeps
  <2> QED BY <1>1, <1>3, <2>1, <2>2
<1>10. CASE swap_error
  <2>1. swap' = NoSwap /\ Same
    BY <1>10, Zenon DEF swap_error, accounts
  <2> QED BY <1>4, <2>1
<1> QED BY <1>5, <1>6, <1>7, <1>8, <1>9, <1>10 DEF run_swap

LEMMA StepKeeps ==
  ASSUME StaticFee, NothingLeftOver, IInv, [Next]_vars
  PROVE  IInv' /\ (swap.running /\ swap'.running => OneWay(swap, swap'))
<1>1. /\ PoolInv(pool, ticks, count, bitmap, position) /\ status \subseteq AllOperations
      /\ swap.running => SwapInv(swap, position)
  BY DEF IInv
<1>2. CASE run_swap
  BY <1>2, SwapKeeps
<1>3. CASE \E s \in Swaps, elapsed \in Elapsed : swap_start(s, elapsed)
  <2>1. PICK s \in Swaps, elapsed \in Elapsed : swap_start(s, elapsed)
    BY <1>3
  <2>2. /\ ~swap.running
        /\ UNCHANGED <<pool, ticks, count, bitmap, position, status>>
    BY <2>1, Zenon DEF swap_start, instruction, accounts
  <2>3. SwapInv(swap', position)
    BY <1>1, <2>1, StartKeeps
  <2> QED BY <1>1, <2>2, <2>3 DEF IInv
<1>4. CASE UNCHANGED vars
  <2>1. UNCHANGED <<pool, ticks, count, bitmap, position, status, swap>>
    BY <1>4, Zenon DEF vars, accounts
  <2>2. swap.running => swap.sqrt_price \in Nat
    BY <1>1, SwapFields DEF SwapInv
  <2>3. swap.running => OneWay(swap, swap)
    BY <2>2 DEF OneWay
  <2> QED BY <1>1, <2>1, <2>3 DEF IInv
<1>5. CASE \/ \E p \in Positions, r \in Ranges, d \in Deltas : open_position(p, r, d)
           \/ \E p \in Positions, d \in Deltas : increase_liquidity(p, d)
           \/ \E p \in Positions, d \in Deltas : decrease_liquidity(p, d)
           \/ \E p \in Positions : close_position(p)
           \/ \E o \in Orders : open_limit_order(o)
           \/ \E o \in Orders, cohort \in {"orders_amount", "part_filled_orders_remaining"} :
                decrease_limit_order(o.tick, cohort, o.amount)
           \/ \E k \in Tokens, requested \in {1, U64Max} : collect_protocol_fee(k, requested)
           \/ \E k \in Tokens, requested \in {1, U64Max} : collect_fund_fee(k, requested)
           \/ \E s \in Statuses : update_pool_status(s)
  <2>1. /\ PoolInv(pool', ticks', count', bitmap', position') /\ status' \subseteq AllOperations
        /\ ~swap.running /\ swap' = swap
    BY <1>1, <1>5, InstructionKeeps
  <2> QED BY <2>1 DEF IInv
<1> QED BY <1>2, <1>3, <1>4, <1>5, Zenon DEF Next

(***************************************************************************)
(* What the invariant says.                                                *)
(***************************************************************************)
LEMMA LiquidityFollows ==
  ASSUME IInv
  PROVE  LiquidityExact
<1>1. /\ pool \in PoolState /\ ticks \in [Ticks -> TickState]
      /\ count \in [Arrays -> Nat] /\ bitmap \in SUBSET Arrays
      /\ PositionsOK(position) /\ SumsHold(position, ticks)
      /\ pool.liquidity = Active(position, pool.tick)
      /\ pool.tick < MaxTick /\ PriceIn(pool.tick, pool.sqrt_price)
      /\ status \subseteq AllOperations
  BY DEF IInv, PoolInv
<1>2. TypeOK
  <2>1. /\ pool.sqrt_price \in Nat /\ pool.tick \in (MinTick - 1) .. MaxTick /\ pool.liquidity \in Nat
    BY <1>1, PoolFields, TickAssumption DEF Ticks
  <2>2. \A k \in Tokens : /\ pool.fee_growth_global[k] \in 0 .. (Growth - 1)
                          /\ pool.protocol_fees[k] \in Nat /\ pool.fund_fees[k] \in Nat
    BY <1>1, PoolFields DEF Growths
  <2>3. \A t \in Ticks : /\ ticks[t].liquidity_gross \in Nat /\ ticks[t].liquidity_net \in Int
                         /\ \A k \in Tokens : ticks[t].fee_growth_outside[k] \in 0 .. (Growth - 1)
    BY <1>1 DEF TickState, Growths
  <2>4. \A p \in OpenPositions : position[p].liquidity \in Nat
    BY <1>1, PositionType DEF OpenPositions
  <2> QED BY <1>1, <2>1, <2>2, <2>3, <2>4 DEF TypeOK
<1>3. LiquidityInRange
  <2> DEFINE S == {p \in OpenPositions : in_range(position[p].lower, position[p].upper, pool.tick)}
  <2>1. \A p \in Positions :
          p \in S <=> position[p].open /\ in_range(position[p].lower, position[p].upper, pool.tick)
    BY DEF OpenPositions
  <2> HIDE DEF S
  <2>2. liquidity_of(S) = active_of(position, pool.tick)
    BY <2>1 DEF liquidity_of, active_of
  <2>3. pool.liquidity = liquidity_sum(S)
    BY <1>1, <2>2, Zenon DEF liquidity_sum, Active
  <2> QED BY <2>3 DEF S, LiquidityInRange
<1>4. TickSums
  <2> SUFFICES ASSUME NEW t \in Ticks
               PROVE  LET lower == {p \in OpenPositions : position[p].lower = t}
                          upper == {p \in OpenPositions : position[p].upper = t}
                      IN /\ ticks[t].liquidity_gross = liquidity_sum(lower) + liquidity_sum(upper)
                         /\ ticks[t].liquidity_net = liquidity_sum(lower) - liquidity_sum(upper)
    BY DEF TickSums
  <2> DEFINE L == {p \in OpenPositions : position[p].lower = t}
             U == {p \in OpenPositions : position[p].upper = t}
  <2>1. \A p \in Positions : /\ p \in L <=> position[p].open /\ position[p].lower = t
                             /\ p \in U <=> position[p].open /\ position[p].upper = t
    BY DEF OpenPositions
  <2> HIDE DEF L, U
  <2>2. liquidity_of(L) = lower_of(position, t) /\ liquidity_of(U) = upper_of(position, t)
    BY <2>1 DEF liquidity_of, lower_of, upper_of
  <2>3. liquidity_sum(L) = Lower(position, t) /\ liquidity_sum(U) = Upper(position, t)
    BY <2>2, Zenon DEF liquidity_sum, Lower, Upper
  <2>4. /\ ticks[t].liquidity_gross = liquidity_sum(L) + liquidity_sum(U)
        /\ ticks[t].liquidity_net = liquidity_sum(L) - liquidity_sum(U)
    BY <1>1, <2>3 DEF SumsHold
  <2> QED BY <2>4 DEF L, U
<1>5. PriceInTick
  BY <1>1 DEF PriceInTick, PriceIn
<1> QED BY <1>2, <1>3, <1>4, <1>5 DEF LiquidityExact

LEMMA SearchFollows ==
  ASSUME IInv
  PROVE  TicksFound
<1>1. ArraysExact
  <2>1. CountsHold(Initialized(ticks), count, bitmap)
    BY DEF IInv, PoolInv
  <2>2. \A a \in Arrays : initialized_in(ticks, a) = in_array(Initialized(ticks), a)
    BY DEF initialized_in, in_array, Initialized
  <2> QED BY <2>1, <2>2 DEF ArraysExact, CountsHold
<1>2. SearchFindsNearest
  <2> DEFINE all == {t \in Ticks : is_initialized(swap.ticks[t])
                                   /\ ahead(t, swap.tick, swap.zero_for_one)}
             F == found_ticks(swap)
  <2>1. SUFFICES ASSUME in_stage("search"), loop_continues(swap)
        PROVE  IF all = {} THEN F = {}
               ELSE F # {} /\ nearest(F, swap.zero_for_one) = nearest(all, swap.zero_for_one)
    BY DEF SearchFindsNearest
  <2>2. SwapInv(swap, position) /\ swap.stage = "search"
    BY <2>1 DEF in_stage, IInv
  <2>3. swap \in SwapState /\ Located(swap)
    BY <2>1, <2>2 DEF SwapInv
  <2>4. CountsHold(Initialized(swap.ticks), swap.count, swap.bitmap)
    <3>1. Counted(swap) = Initialized(swap.ticks)
      BY <2>2 DEF Counted
    <3> QED BY <2>2, <3>1 DEF SwapInv
  <2>5. all = {t \in Initialized(swap.ticks) : ahead(t, swap.tick, swap.zero_for_one)}
    BY DEF Initialized
  <2>6. F = found_ticks(swap)
    OBVIOUS
  <2> HIDE DEF all, F
  <2>7. /\ all = {} <=> F = {}
        /\ F # {} => nearest(F, swap.zero_for_one) = nearest(all, swap.zero_for_one)
    BY <2>3, <2>4, <2>5, <2>6, NearestFound
  <2> QED BY <2>7
<1> QED BY <1>1, <1>2 DEF TicksFound

LEMMA Invariance ==
  ASSUME StaticFee, NothingLeftOver
  PROVE  Spec => []IInv
<1>1. Init => IInv
  BY InitInv
<1>2. IInv /\ [Next]_vars => IInv'
  BY StepKeeps
<1> QED BY <1>1, <1>2, PTL DEF Spec

(***************************************************************************)
(* The volatility.  It asks nothing of positions and ticks, and holds of   *)
(* pools with a dynamic fee, also where a bounded step turns around.       *)
(***************************************************************************)
InfoFields ==
  {"tick_spacing_index_reference", "volatility_reference", "volatility_accumulator"}

\* A DynamicFeeInfo whose accumulator is what its reference gives at a group of ticks.
InfoWhole(info) == InfoFields \subseteq DOMAIN info
Measures(info, index) == info.volatility_accumulator = volatility_at(info, index)

\* Once a step has been computed the accumulator is that of the group the swap is in.
\* Only in the inner loop, after the group has changed and before the next step, does
\* it lag behind; and a swap that has not taken a step has used nothing.
Measured(w) ==
  /\ {"running", "stage", "sqrt_price", "tick_spacing_index", "dynamic_fee"} \subseteq DOMAIN w
  /\ {"base_input", "amount", "remaining", "calculated"} \subseteq DOMAIN w
  /\ w.amount \in Nat
  /\ InfoWhole(w.dynamic_fee)
  /\ w.stage \in {"match", "pass"} => Measures(w.dynamic_fee, w.tick_spacing_index)
  /\ w.stage = "search" =>
       \/ Measures(w.dynamic_fee, w.tick_spacing_index)
       \/ w.remaining = w.amount /\ w.calculated = 0

VolatilityInv ==
  /\ {"sqrt_price", "dynamic_fee"} \subseteq DOMAIN pool
  /\ InfoWhole(pool.dynamic_fee)
  /\ Measures(pool.dynamic_fee,
              tick_spacing_index_from_tick(get_tick_at_sqrt_price(pool.sqrt_price)))
  /\ swap.running => Measured(swap)

\* Setting the accumulator leaves the reference, so that it is then exact.
LEMMA AccumulatorSet ==
  ASSUME FeeConfig.enabled, NEW info, InfoWhole(info), NEW index
  PROVE  /\ InfoWhole(update_volatility_accumulator(info, index))
         /\ Measures(update_volatility_accumulator(info, index), index)
<1> DEFINE v == volatility_at(info, index)
           new == [info EXCEPT !.volatility_accumulator = v]
<1>1. update_volatility_accumulator(info, index) = new
  BY DEF update_volatility_accumulator
<1>2. v = volatility_at(info, index)
  OBVIOUS
<1> HIDE DEF v
<1>3. /\ InfoWhole(new) /\ new.volatility_accumulator = v
      /\ new.tick_spacing_index_reference = info.tick_spacing_index_reference
      /\ new.volatility_reference = info.volatility_reference
  BY DEF InfoWhole, InfoFields
<1> HIDE DEF new
<1>4. volatility_at(new, index) = volatility_at(info, index)
  BY <1>3 DEF volatility_at
<1> QED BY <1>1, <1>2, <1>3, <1>4 DEF Measures

\* What a step does before it moves: the accumulator follows the group.
LEMMA TopMeasured ==
  ASSUME FeeConfig.enabled, NEW w, Measured(w)
  PROVE  LET top == at_loop_top(w)
         IN  /\ Measured(top) /\ Measures(top.dynamic_fee, top.tick_spacing_index)
             /\ top.stage = w.stage
<1> DEFINE info == update_volatility_accumulator(w.dynamic_fee, w.tick_spacing_index)
           rate == get_total_fee_rate(w.trade_fee_rate, info)
           top == [w EXCEPT !.dynamic_fee = info, !.total_fee_rate = rate]
<1>1. InfoWhole(info) /\ Measures(info, w.tick_spacing_index)
  BY AccumulatorSet DEF Measured
<1>2. at_loop_top(w) = top
  BY DEF at_loop_top, with_fee_rate
<1> HIDE DEF info, rate
<1>3. /\ DOMAIN top = DOMAIN w /\ top.dynamic_fee = info /\ top.stage = w.stage
      /\ top.tick_spacing_index = w.tick_spacing_index /\ top.amount = w.amount
  BY DEF Measured
<1> HIDE DEF top
<1> QED BY <1>1, <1>2, <1>3 DEF Measured

\* Amounts and fees are applied without a look at the volatility.
LEMMA AmountsMeasured ==
  ASSUME NEW w, Measured(w), NEW r
  PROVE  LET v == apply_swap_amounts(w, r)
         IN  /\ DOMAIN v = DOMAIN w /\ v.dynamic_fee = w.dynamic_fee /\ v.stage = w.stage
             /\ v.tick_spacing_index = w.tick_spacing_index /\ v.amount = w.amount
<1> DEFINE rest == w.remaining - used(w, r)
           total == w.calculated + gained(w, r)
           u == [w EXCEPT !.remaining = rest, !.calculated = total]
           v == apply_swap_amounts(w, r)
<1>1. v = spilt_fees(u, r.fee)
  BY DEF apply_swap_amounts
<1> HIDE DEF rest, total
<1>2. /\ DOMAIN u = DOMAIN w /\ u.dynamic_fee = w.dynamic_fee /\ u.stage = w.stage
      /\ u.tick_spacing_index = w.tick_spacing_index /\ u.amount = w.amount
  BY DEF Measured
<1> HIDE DEF u
<1>3. {"stage", "tick_spacing_index", "dynamic_fee", "amount"} \subseteq DOMAIN u
  BY <1>2 DEF Measured
<1>4. \A a, b, c, d :
        LET x == [u EXCEPT !.protocol_fee = a, !.fund_fee = b, !.lp_fee = c, !.fee_growth = d]
            y == [u EXCEPT !.protocol_fee = a, !.fund_fee = b]
        IN  /\ DOMAIN x = DOMAIN u /\ x.dynamic_fee = u.dynamic_fee /\ x.stage = u.stage
            /\ x.tick_spacing_index = u.tick_spacing_index /\ x.amount = u.amount
            /\ DOMAIN y = DOMAIN u /\ y.dynamic_fee = u.dynamic_fee /\ y.stage = u.stage
            /\ y.tick_spacing_index = u.tick_spacing_index /\ y.amount = u.amount
  BY <1>3
<1> DEFINE p == mul_div_floor(r.fee, ProtocolFeeRate, FeeDenom)
           f == mul_div_floor(r.fee, FundFeeRate, FeeDenom)
           l == r.fee - p - f
           g == (u.fee_growth + mul_div_floor(l, Q64, u.liquidity)) % Growth
<1>5. v = IF u.liquidity > 0
          THEN [u EXCEPT !.protocol_fee = u.protocol_fee + p, !.fund_fee = u.fund_fee + f,
                         !.lp_fee = u.lp_fee + l, !.fee_growth = g]
          ELSE [u EXCEPT !.protocol_fee = u.protocol_fee + p + l, !.fund_fee = u.fund_fee + f]
  BY <1>1 DEF spilt_fees
<1> HIDE DEF v, p, f, l, g
<1>6. /\ DOMAIN v = DOMAIN u /\ v.dynamic_fee = u.dynamic_fee /\ v.stage = u.stage
      /\ v.tick_spacing_index = u.tick_spacing_index /\ v.amount = u.amount
  BY <1>4, <1>5
<1> QED BY <1>2, <1>6 DEF v

\* The step's price and tick: the group is as it was.
LEMMA PriceMeasured ==
  ASSUME NEW w, Measured(w), NEW price
  PROVE  LET v == at_price(w, price)
         IN  /\ DOMAIN v = DOMAIN w /\ v.dynamic_fee = w.dynamic_fee /\ v.stage = w.stage
             /\ v.tick_spacing_index = w.tick_spacing_index /\ v.amount = w.amount
<1> DEFINE t == IF price # SqrtPrice[w.tick_next] /\ price # w.sqrt_price
                THEN get_tick_at_sqrt_price(price) ELSE w.tick
           v == [w EXCEPT !.sqrt_price = price, !.tick = t]
<1>1. at_price(w, price) = v
  BY DEF at_price
<1> HIDE DEF t
<1> QED BY <1>1 DEF Measured

\* The next group: the reference stays, the accumulator follows with the next step.
LEMMA IndexMeasured ==
  ASSUME FeeConfig.enabled, NEW w, Measured(w), w.stage = "compute"
  PROVE  LET v == update_dynamic_fee_index(w)
         IN  Measured(v) /\ v.stage = "compute"
<1> DEFINE index == index_after_skip(w)
           info == IF at_max_volatility(w.dynamic_fee) THEN w.dynamic_fee
                   ELSE update_volatility_accumulator(w.dynamic_fee, index)
           skipped == [w EXCEPT !.tick_spacing_index = index, !.dynamic_fee = info]
           u == IF is_skipped_tick_spacing(w) THEN skipped ELSE w
           next == u.tick_spacing_index + (IF w.zero_for_one THEN -1 ELSE 1)
           v == [u EXCEPT !.tick_spacing_index = next]
<1>1. InfoWhole(info)
  BY AccumulatorSet DEF Measured
<1>2. after_skip(w, index) = skipped
  BY DEF after_skip
<1>3. update_dynamic_fee_index(w) = v
  BY <1>2 DEF update_dynamic_fee_index
<1> HIDE DEF index, info
<1>4. /\ DOMAIN skipped = DOMAIN w /\ skipped.stage = "compute" /\ skipped.amount = w.amount
      /\ skipped.dynamic_fee = info
  BY DEF Measured
<1>5. DOMAIN u = DOMAIN w /\ u.stage = "compute" /\ u.amount = w.amount /\ InfoWhole(u.dynamic_fee)
  <2> HIDE DEF skipped
  <2> QED BY <1>1, <1>4 DEF Measured
<1> HIDE DEF u, next
<1>6. DOMAIN v = DOMAIN u /\ v.stage = "compute" /\ v.amount = u.amount /\ v.dynamic_fee = u.dynamic_fee
  BY <1>5 DEF Measured
<1> HIDE DEF v
<1> QED BY <1>3, <1>5, <1>6 DEF Measured

\* A step of the inner loop leaves the accumulator exact, or goes on to the next group.
LEMMA ComputeMeasured ==
  ASSUME FeeConfig.enabled, NEW w, Measured(w), w.stage = "compute", NEW s
  PROVE  Measured(moved_to(apply_swap_amounts(at_loop_top(w), s), s.price))
<1> DEFINE top == at_loop_top(w)
           paid == apply_swap_amounts(top, s)
           moved == at_price(paid, s.price)
           to(stage) == [moved EXCEPT !.stage = stage]
<1>1. Measured(top) /\ Measures(top.dynamic_fee, top.tick_spacing_index) /\ top.stage = "compute"
  BY TopMeasured
<1> HIDE DEF top
<1>2. /\ DOMAIN paid = DOMAIN top /\ paid.dynamic_fee = top.dynamic_fee /\ paid.stage = "compute"
      /\ paid.tick_spacing_index = top.tick_spacing_index /\ paid.amount = top.amount
  BY <1>1, AmountsMeasured
<1> HIDE DEF paid
<1>3. Measured(paid)
  BY <1>1, <1>2 DEF Measured
<1>4. /\ DOMAIN moved = DOMAIN paid /\ moved.dynamic_fee = paid.dynamic_fee /\ moved.stage = "compute"
      /\ moved.tick_spacing_index = paid.tick_spacing_index /\ moved.amount = paid.amount
  BY <1>2, <1>3, PriceMeasured
<1> HIDE DEF moved
<1>5. Measured(moved) /\ Measures(moved.dynamic_fee, moved.tick_spacing_index)
  BY <1>1, <1>2, <1>3, <1>4 DEF Measured
<1>6. \A stage : /\ DOMAIN to(stage) = DOMAIN moved /\ to(stage).dynamic_fee = moved.dynamic_fee
                 /\ to(stage).tick_spacing_index = moved.tick_spacing_index
                 /\ to(stage).amount = moved.amount
  BY <1>5 DEF Measured
<1>7. \A stage : Measured(to(stage))
  <2> HIDE DEF to
  <2> QED BY <1>5, <1>6 DEF Measured
<1>8. Measured(update_dynamic_fee_index(moved))
  BY <1>4, <1>5, IndexMeasured
<1>9. moved_to(paid, s.price) \in {to("match"), to("search"), update_dynamic_fee_index(moved)}
  BY DEF moved_to, moved
<1> HIDE DEF to
<1> QED BY <1>7, <1>8, <1>9 DEF top, paid

\* Matching orders and passing the tick leave the accumulator and the group.
LEMMA MatchMeasured ==
  ASSUME NEW w, Measured(w), w.stage = "match", NEW m
  PROVE  Measured(matched(w, m))
<1> DEFINE paid == IF m.amount_in > 0 THEN apply_swap_amounts(w, m) ELSE w
           tks == [paid.ticks EXCEPT ![w.tick_next] = [@ EXCEPT !.orders = orders_after(w, m)]]
           in == paid.order_in + m.amount_in
           out == paid.order_out + m.gross_out
           v == [paid EXCEPT !.ticks = tks, !.order_in = in, !.order_out = out, !.stage = "pass"]
<1>1. matched(w, m) = v
  BY DEF matched
<1>2. /\ DOMAIN paid = DOMAIN w /\ paid.dynamic_fee = w.dynamic_fee
      /\ paid.tick_spacing_index = w.tick_spacing_index /\ paid.amount = w.amount
  BY AmountsMeasured
<1> HIDE DEF paid, tks, in, out
<1>3. /\ DOMAIN v = DOMAIN paid /\ v.dynamic_fee = paid.dynamic_fee /\ v.stage = "pass"
      /\ v.tick_spacing_index = paid.tick_spacing_index /\ v.amount = paid.amount
  BY <1>2 DEF Measured
<1> HIDE DEF v
<1> QED BY <1>1, <1>2, <1>3 DEF Measured

LEMMA PassMeasured ==
  ASSUME NEW w, Measured(w), w.stage = "pass"
  PROVE  Measured(passed(w))
<1> DEFINE t == w.tick_next
           c == IF ~is_initialized(w.ticks[t]) THEN counted(w.count, t, FALSE) ELSE w.count
           b == IF ~is_initialized(w.ticks[t]) THEN flipped_bitmap(w.bitmap, w.count, t, FALSE)
                ELSE w.bitmap
           tks == [w.ticks EXCEPT ![t] = IF crosses(w.ticks[t]) THEN cross(@, w) ELSE @]
           l == IF crosses(w.ticks[t]) THEN crossed_liquidity(w) ELSE w.liquidity
           n == tick_after(w)
           v == [w EXCEPT !.count = c, !.bitmap = b, !.ticks = tks, !.liquidity = l, !.tick = n,
                          !.stage = "search"]
<1>1. passed(w) = v
  BY DEF passed
<1> HIDE DEF c, b, tks, l, n
<1>2. /\ DOMAIN v = DOMAIN w /\ v.dynamic_fee = w.dynamic_fee /\ v.stage = "search"
      /\ v.tick_spacing_index = w.tick_spacing_index /\ v.amount = w.amount
  BY DEF Measured
<1> HIDE DEF v
<1> QED BY <1>1, <1>2 DEF Measured

\* The search changes where the swap is going, not where it is.
LEMMA FindMeasured ==
  ASSUME NEW w, Measured(w), NEW t, NEW a
  PROVE  Measured([w EXCEPT !.stage = "compute", !.tick_next = t, !.array = a, !.contains = TRUE])
<1> DEFINE v == [w EXCEPT !.stage = "compute", !.tick_next = t, !.array = a, !.contains = TRUE]
<1>1. /\ DOMAIN v = DOMAIN w /\ v.dynamic_fee = w.dynamic_fee /\ v.stage = "compute"
      /\ v.amount = w.amount
  BY DEF Measured
<1> HIDE DEF v
<1>2. Measured(v)
  BY <1>1 DEF Measured
<1> QED BY <1>2 DEF v

\* A swap starts having used nothing; only the reference may have moved.
LEMMA StartMeasured ==
  ASSUME FeeConfig.enabled, InfoWhole(pool.dynamic_fee),
         NEW s \in Swaps, NEW elapsed \in Elapsed, swap_start(s, elapsed)
  PROVE  UNCHANGED pool /\ Measured(swap')
<1> DEFINE index == tick_spacing_index_from_tick(pool.tick)
           since == least(pool.dynamic_fee.age + elapsed, FeeConfig.decay_period)
           info == update_reference(pool.dynamic_fee, index, elapsed)
<1>1. InfoWhole(info)
  BY DEF update_reference, moved_reference, InfoWhole, InfoFields
<1> HIDE DEF info
<1>2. PICK a \in first_tick_array_index(s.zero_for_one) :
       swap' = [running |-> TRUE, zero_for_one |-> s.zero_for_one,
                base_input |-> s.base_input, amount |-> s.amount,
                trade_fee_rate |-> s.trade_fee_rate, total_fee_rate |-> s.trade_fee_rate,
                tick_spacing_index |-> index, dynamic_fee |-> info,
                limit |-> effective_limit(s), partial |-> s.limit # 0,
                remaining |-> s.amount, calculated |-> 0,
                sqrt_price |-> pool.sqrt_price, tick |-> pool.tick,
                liquidity |-> pool.liquidity, tick_next |-> 0,
                fee_growth |-> pool.fee_growth_global[fee_token(s.zero_for_one)],
                lp_fee |-> 0, protocol_fee |-> 0, fund_fee |-> 0,
                stage |-> "search", array |-> a, contains |-> a = get_array_start_index(pool.tick),
                ticks |-> ticks, count |-> count, bitmap |-> bitmap,
                order_in |-> 0, order_out |-> 0]
  BY Zenon DEF swap_start, info
<1>3. s.amount \in Nat
  BY InputAssumption
<1>4. /\ {"running", "stage", "sqrt_price", "tick_spacing_index", "dynamic_fee"} \subseteq DOMAIN swap'
      /\ {"base_input", "amount", "remaining", "calculated"} \subseteq DOMAIN swap'
      /\ swap'.amount = s.amount /\ swap'.remaining = s.amount /\ swap'.calculated = 0
      /\ swap'.dynamic_fee = info /\ swap'.stage = "search"
  BY <1>2
<1>5. Measured(swap')
  BY <1>1, <1>3, <1>4 DEF Measured
<1>6. UNCHANGED pool
  BY Zenon DEF swap_start, accounts
<1> QED BY <1>5, <1>6

\* A swap that used something is written back with the accumulator of its price.
LEMMA EndMeasured ==
  ASSUME FeeConfig.enabled, {"sqrt_price", "dynamic_fee"} \subseteq DOMAIN pool,
         Measured(swap), swap.stage = "search", can_finish(swap)
  PROVE  LET v == update_after_swap(swap)
         IN  /\ {"sqrt_price", "dynamic_fee"} \subseteq DOMAIN v
             /\ InfoWhole(v.dynamic_fee)
             /\ Measures(v.dynamic_fee,
                         tick_spacing_index_from_tick(get_tick_at_sqrt_price(v.sqrt_price)))
<1> DEFINE w == swap
           index == tick_spacing_index_from_tick(get_tick_at_sqrt_price(w.sqrt_price))
           info == final_volatility(w)
           f == fee_token(w.zero_for_one)
           growth == [pool.fee_growth_global EXCEPT ![f] = IF w.lp_fee > 0 THEN w.fee_growth ELSE @]
           protocol == [pool.protocol_fees EXCEPT ![f] = @ + w.protocol_fee]
           fund == [pool.fund_fees EXCEPT ![f] = @ + w.fund_fee]
           v == [pool EXCEPT !.sqrt_price = w.sqrt_price, !.tick = w.tick, !.liquidity = w.liquidity,
                             !.fee_growth_global = growth, !.protocol_fees = protocol,
                             !.fund_fees = fund, !.dynamic_fee = info]
<1>1. ~(w.remaining = w.amount /\ w.calculated = 0)
  <2> SUFFICES ASSUME w.remaining = w.amount, w.calculated = 0 PROVE FALSE
    OBVIOUS
  <2>1. amount_in_of(w) = 0
    BY DEF amount_in_of, Measured
  <2> QED BY <2>1 DEF can_finish
<1>2. InfoWhole(w.dynamic_fee) /\ Measures(w.dynamic_fee, w.tick_spacing_index)
  BY <1>1 DEF Measured
<1>3. InfoWhole(info) /\ Measures(info, index)
  BY <1>2, AccumulatorSet DEF final_volatility
<1>4. update_after_swap(swap) = v
  BY DEF update_after_swap
<1> HIDE DEF info, growth, protocol, fund
<1>5. DOMAIN v = DOMAIN pool /\ v.sqrt_price = w.sqrt_price /\ v.dynamic_fee = info
  OBVIOUS
<1> HIDE DEF v
<1> QED BY <1>3, <1>4, <1>5

\* No other instruction moves the price or the volatility.
LEMMA OthersMeasured ==
  ASSUME {"sqrt_price", "dynamic_fee"} \subseteq DOMAIN pool,
         \/ \E p \in Positions, r \in Ranges, d \in Deltas : open_position(p, r, d)
         \/ \E p \in Positions, d \in Deltas : increase_liquidity(p, d)
         \/ \E p \in Positions, d \in Deltas : decrease_liquidity(p, d)
         \/ \E p \in Positions : close_position(p)
         \/ \E o \in Orders : open_limit_order(o)
         \/ \E o \in Orders, cohort \in {"orders_amount", "part_filled_orders_remaining"} :
              decrease_limit_order(o.tick, cohort, o.amount)
         \/ \E k \in Tokens, requested \in {1, U64Max} : collect_protocol_fee(k, requested)
         \/ \E k \in Tokens, requested \in {1, U64Max} : collect_fund_fee(k, requested)
         \/ \E s \in Statuses : update_pool_status(s)
  PROVE  /\ DOMAIN pool' = DOMAIN pool /\ UNCHANGED swap
         /\ pool'.sqrt_price = pool.sqrt_price /\ pool'.dynamic_fee = pool.dynamic_fee
<1> DEFINE Same == /\ DOMAIN pool' = DOMAIN pool
                   /\ pool'.sqrt_price = pool.sqrt_price /\ pool'.dynamic_fee = pool.dynamic_fee
<1>1. \A lower, upper, delta : modify_position(lower, upper, delta) => Same
  BY DEF modify_position
<1>2. \A lower, upper, delta : add_liquidity(lower, upper, delta) => Same
  BY <1>1, Zenon DEF add_liquidity
<1>3. UNCHANGED pool => Same
  OBVIOUS
<1>4. \A k, n : (pool' = [pool EXCEPT !.protocol_fees[k] = n] => Same)
                /\ (pool' = [pool EXCEPT !.fund_fees[k] = n] => Same)
  OBVIOUS
<1> HIDE DEF Same
<1>5. CASE \E p \in Positions, r \in Ranges, d \in Deltas : open_position(p, r, d)
  BY <1>2, <1>3, <1>5, Zenon DEF open_position, Same
<1>6. CASE \E p \in Positions, d \in Deltas : increase_liquidity(p, d)
  BY <1>2, <1>6, Zenon DEF increase_liquidity, Same
<1>7. CASE \E p \in Positions, d \in Deltas : decrease_liquidity(p, d)
  BY <1>1, <1>3, <1>7, Zenon DEF decrease_liquidity, Same
<1>8. CASE \E p \in Positions : close_position(p)
  BY <1>3, <1>8, Zenon DEF close_position, Same
<1>9. CASE \E o \in Orders : open_limit_order(o)
  BY <1>3, <1>9, Zenon DEF open_limit_order, Same
<1>10. CASE \E o \in Orders, cohort \in {"orders_amount", "part_filled_orders_remaining"} :
              decrease_limit_order(o.tick, cohort, o.amount)
  BY <1>3, <1>10, Zenon DEF decrease_limit_order, Same
<1>11. CASE \E k \in Tokens, requested \in {1, U64Max} : collect_protocol_fee(k, requested)
  <2>1. PICK k \in Tokens, requested \in {1, U64Max} : collect_protocol_fee(k, requested)
    BY <1>11
  <2>2. /\ pool' = [pool EXCEPT !.protocol_fees[k] = pool.protocol_fees[k] - least(requested, pool.protocol_fees[k])]
        /\ UNCHANGED swap
    BY <2>1 DEF collect_protocol_fee
  <2> QED BY <1>4, <2>2 DEF Same
<1>12. CASE \E k \in Tokens, requested \in {1, U64Max} : collect_fund_fee(k, requested)
  <2>1. PICK k \in Tokens, requested \in {1, U64Max} : collect_fund_fee(k, requested)
    BY <1>12
  <2>2. /\ pool' = [pool EXCEPT !.fund_fees[k] = pool.fund_fees[k] - least(requested, pool.fund_fees[k])]
        /\ UNCHANGED swap
    BY <2>1 DEF collect_fund_fee
  <2> QED BY <1>4, <2>2 DEF Same
<1>13. CASE \E s \in Statuses : update_pool_status(s)
  BY <1>3, <1>13, Zenon DEF update_pool_status, Same
<1> QED BY <1>5, <1>6, <1>7, <1>8, <1>9, <1>10, <1>11, <1>12, <1>13

LEMMA InitMeasured ==
  ASSUME FeeConfig.enabled, Init
  PROVE  VolatilityInv
<1>1. PICK p \in InitialPrices :
        pool = [sqrt_price |-> p, tick |-> get_tick_at_sqrt_price(p), liquidity |-> 0,
                fee_growth_global |-> [k \in Tokens |-> 0],
                protocol_fees |-> [k \in Tokens |-> 0], fund_fees |-> [k \in Tokens |-> 0],
                dynamic_fee |-> initialize_dynamic_fee_info(get_tick_at_sqrt_price(p))]
  BY Zenon DEF Init
<1> DEFINE index == tick_spacing_index_from_tick(get_tick_at_sqrt_price(p))
           info == initialize_dynamic_fee_info(get_tick_at_sqrt_price(p))
<1>2. /\ {"sqrt_price", "dynamic_fee"} \subseteq DOMAIN pool
      /\ pool.sqrt_price = p /\ pool.dynamic_fee = info
  BY <1>1
<1>3. index \in Int
  <2>1. MinTick \in Ticks /\ MaxTick \in Ticks
    BY TickAssumption DEF Ticks
  <2>2. SqrtPrice[MinTick] \in Nat /\ SqrtPrice[MaxTick] \in Nat
    BY <2>1, PriceOrder
  <2>3. p \in Nat /\ SqrtPrice[MinTick] <= p /\ p < SqrtPrice[MaxTick]
    BY <2>2, InputAssumption
  <2>4. get_tick_at_sqrt_price(p) \in Int
    BY <2>3, TickAtPrice, PriceOrder
  <2> QED BY <2>4, FeeAssumption DEF tick_spacing_index_from_tick
<1>4. info = [tick_spacing_index_reference |-> index, volatility_reference |-> 0,
              volatility_accumulator |-> 0, age |-> FeeConfig.decay_period]
  BY DEF initialize_dynamic_fee_info
<1> HIDE DEF info
<1>5. InfoWhole(info)
  BY <1>4 DEF InfoWhole, InfoFields
<1>6. Measures(info, index)
  <2>1. info.volatility_reference = 0 /\ info.tick_spacing_index_reference = index
        /\ info.volatility_accumulator = 0
    BY <1>4
  <2>2. VolatilityScale \in Nat /\ FeeConfig.max_volatility_accumulator \in Nat
    BY FeeAssumption
  <2>3. index - index = 0 /\ 0 + 0 * VolatilityScale = 0
    BY <1>3, <2>2
  <2> HIDE DEF index
  <2>4. volatility_at(info, index) = least(0, FeeConfig.max_volatility_accumulator)
    BY <2>1, <2>3 DEF volatility_at
  <2> QED BY <2>1, <2>2, <2>4 DEF Measures, least
<1>7. ~swap.running
  BY DEF Init, NoSwap
<1> QED BY <1>2, <1>5, <1>6, <1>7 DEF VolatilityInv

LEMMA SwapMeasured ==
  ASSUME FeeConfig.enabled, VolatilityInv, run_swap
  PROVE  VolatilityInv'
<1> DEFINE Exact(pl) ==
             /\ {"sqrt_price", "dynamic_fee"} \subseteq DOMAIN pl
             /\ InfoWhole(pl.dynamic_fee)
             /\ Measures(pl.dynamic_fee,
                         tick_spacing_index_from_tick(get_tick_at_sqrt_price(pl.sqrt_price)))
<1>1. Exact(pool) /\ (swap.running => Measured(swap))
  BY DEF VolatilityInv
<1>2. ASSUME Exact(pool'), swap' = NoSwap \/ Measured(swap') PROVE VolatilityInv'
  BY <1>2 DEF VolatilityInv, NoSwap
<1> HIDE DEF Exact
<1>3. CASE find_next_tick
  <2> DEFINE t == nearest(found_ticks(swap), swap.zero_for_one)
  <2>1. /\ UNCHANGED pool /\ swap.running
        /\ swap' = [swap EXCEPT !.stage = "compute", !.tick_next = t,
                                !.array = get_array_start_index(t), !.contains = TRUE]
    BY <1>3, Zenon DEF find_next_tick, in_stage, accounts
  <2> HIDE DEF t
  <2> QED BY <1>1, <1>2, <2>1, FindMeasured
<1>4. CASE swap_compute
  <2>1. UNCHANGED pool /\ swap.running /\ swap.stage = "compute"
    BY <1>4, Zenon DEF swap_compute, in_stage, accounts
  <2>2. PICK s : swap' = moved_to(apply_swap_amounts(at_loop_top(swap), s), s.price)
    BY <1>4, Zenon DEF swap_compute
  <2> QED BY <1>1, <1>2, <2>1, <2>2, ComputeMeasured
<1>5. CASE swap_match
  <2>1. UNCHANGED pool /\ swap.running /\ swap.stage = "match"
    BY <1>5, Zenon DEF swap_match, in_stage, accounts
  <2>2. PICK m : swap' = matched(swap, m)
    BY <1>5, Zenon DEF swap_match
  <2> QED BY <1>1, <1>2, <2>1, <2>2, MatchMeasured
<1>6. CASE swap_pass
  <2>1. UNCHANGED pool /\ swap.running /\ swap.stage = "pass" /\ swap' = passed(swap)
    BY <1>6, Zenon DEF swap_pass, in_stage, accounts
  <2> QED BY <1>1, <1>2, <2>1, PassMeasured
<1>7. CASE swap_end
  <2>1. /\ swap.running /\ swap.stage = "search" /\ can_finish(swap)
        /\ pool' = update_after_swap(swap) /\ swap' = NoSwap
    BY <1>7, Zenon DEF swap_end, in_stage
  <2>2. Exact(pool')
    BY <1>1, <2>1, EndMeasured DEF Exact
  <2> QED BY <1>2, <2>1, <2>2
<1>8. CASE swap_error
  <2>1. UNCHANGED pool /\ swap' = NoSwap
    BY <1>8, Zenon DEF swap_error, accounts
  <2> QED BY <1>1, <1>2, <2>1
<1> QED BY <1>3, <1>4, <1>5, <1>6, <1>7, <1>8 DEF run_swap

LEMMA StepMeasured ==
  ASSUME FeeConfig.enabled, VolatilityInv, [Next]_vars
  PROVE  VolatilityInv'
<1>1. CASE run_swap
  BY <1>1, SwapMeasured
<1>2. CASE \E s \in Swaps, elapsed \in Elapsed : swap_start(s, elapsed)
  <2>1. UNCHANGED pool /\ Measured(swap')
    BY <1>2, StartMeasured DEF VolatilityInv
  <2> QED BY <2>1 DEF VolatilityInv
<1>3. CASE UNCHANGED vars
  <2>1. UNCHANGED <<pool, swap>>
    BY <1>3, Zenon DEF vars, accounts
  <2> QED BY <2>1 DEF VolatilityInv
<1>4. CASE \/ \E p \in Positions, r \in Ranges, d \in Deltas : open_position(p, r, d)
           \/ \E p \in Positions, d \in Deltas : increase_liquidity(p, d)
           \/ \E p \in Positions, d \in Deltas : decrease_liquidity(p, d)
           \/ \E p \in Positions : close_position(p)
           \/ \E o \in Orders : open_limit_order(o)
           \/ \E o \in Orders, cohort \in {"orders_amount", "part_filled_orders_remaining"} :
                decrease_limit_order(o.tick, cohort, o.amount)
           \/ \E k \in Tokens, requested \in {1, U64Max} : collect_protocol_fee(k, requested)
           \/ \E k \in Tokens, requested \in {1, U64Max} : collect_fund_fee(k, requested)
           \/ \E s \in Statuses : update_pool_status(s)
  <2>1. {"sqrt_price", "dynamic_fee"} \subseteq DOMAIN pool
    BY DEF VolatilityInv
  <2>2. /\ DOMAIN pool' = DOMAIN pool /\ UNCHANGED swap
        /\ pool'.sqrt_price = pool.sqrt_price /\ pool'.dynamic_fee = pool.dynamic_fee
    BY <1>4, <2>1, OthersMeasured
  <2> QED BY <2>2 DEF VolatilityInv
<1> QED BY <1>1, <1>2, <1>3, <1>4, Zenon DEF Next

(***************************************************************************)
(* The theorems.                                                           *)
(***************************************************************************)
\* PoolState.liquidity is the liquidity of the positions around the current
\* tick, the net and gross liquidity of every tick are the sums over the
\* positions that end there, and the price lies in the current tick, whatever
\* positions are opened, changed and closed and whatever swaps cross, with
\* orders resting, partly filled or emptied on the way.
THEOREM LiquidityCorrect ==
  ASSUME StaticFee, NothingLeftOver
  PROVE  Spec => []LiquidityExact
<1>1. IInv => LiquidityExact
  BY LiquidityFollows
<1> QED BY <1>1, Invariance, PTL

\* initialized_tick_count and the bitmap of tick arrays show exactly the
\* initialized ticks, and what the loop of swap_internal finds through them
\* is the nearest initialized tick in its direction.
THEOREM SearchCorrect ==
  ASSUME StaticFee, NothingLeftOver
  PROVE  Spec => []TicksFound
<1>1. IInv => TicksFound
  BY SearchFollows
<1> QED BY <1>1, Invariance, PTL

\* "One of the two parties must be equal to 0 to exit the loop" (swap.rs:772):
\* once a swap has met the orders of a tick, it is used up or they are.
THEOREM MatchingCorrect ==
  ASSUME StaticFee, NothingLeftOver
  PROVE  Spec => [](OnePartyDone /\ OnePartyUsedUp)
<1>1. IInv => OnePartyDone /\ OnePartyUsedUp
  BY DEF IInv, SwapInv, OnePartyDone, OnePartyUsedUp, in_stage
<1> QED BY <1>1, Invariance, PTL

\* No step of the loop of swap_internal moves the price against the direction
\* of the swap.
THEOREM PriceCorrect ==
  ASSUME StaticFee, NothingLeftOver
  PROVE  Spec => PriceOneWay
<1>1. IInv /\ [Next]_vars =>
        [swap.running /\ swap'.running =>
           IF swap.zero_for_one THEN swap'.sqrt_price <= swap.sqrt_price
           ELSE swap'.sqrt_price >= swap.sqrt_price]_vars
  BY StepKeeps DEF OneWay
<1> QED BY <1>1, Invariance, PTL DEF Spec, PriceOneWay
\* Between swaps the volatility accumulator is that of the price, measured from the
\* reference, whichever groups of ticks the loop went through one by one and whichever it
\* skipped (update_volatility_accumulator_on_price in swap.rs): of every pool, with a
\* dynamic fee or without.
THEOREM VolatilityCorrect == Spec => []VolatilityExact
<1>1. CASE ~FeeConfig.enabled
  <2>1. VolatilityExact
    BY <1>1 DEF VolatilityExact
  <2> QED BY <2>1, PTL
<1>2. CASE FeeConfig.enabled
  <2>1. Init => VolatilityInv
    BY <1>2, InitMeasured
  <2>2. VolatilityInv /\ [Next]_vars => VolatilityInv'
    BY <1>2, StepMeasured
  <2>3. VolatilityInv => VolatilityExact
    BY DEF VolatilityInv, Measures, VolatilityExact
  <2> QED BY <2>1, <2>2, <2>3, PTL DEF Spec
<1> QED BY <1>1, <1>2
=============================================================================
