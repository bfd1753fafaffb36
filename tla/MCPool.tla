------------------------------- MODULE MCPool -------------------------------
(* Pool for TLC: a table of prices for seven ticks in four tick arrays and *)
(* the inputs of each run.                                                 *)
EXTENDS Pool, TLC

Prices == (-3 :> 3) @@ (-2 :> 4) @@ (-1 :> 6) @@ (0 :> 8) @@ (1 :> 12) @@ (2 :> 16) @@ (3 :> 24)

\* The same with a unit of 64, for fee growth that keeps small fees apart.
FinePrices == [t \in -3 .. 3 |-> 8 * Prices[t]]

Negative3 == -3

Swap(zero_for_one, base_input, amount, limit, trade_fee_rate) ==
  [zero_for_one |-> zero_for_one, base_input |-> base_input, amount |-> amount,
   limit |-> limit, trade_fee_rate |-> trade_fee_rate]

RestingOrder(tick, zero_for_one, amount) ==
  [tick |-> tick, zero_for_one |-> zero_for_one, amount |-> amount]

\* A reference that stays for no time, moves with half of the volatility after one
\* unit of time and with none of it after two.
VolatileFee ==
  [enabled |-> TRUE, filter_period |-> 1, decay_period |-> 2, reduction_factor |-> 1,
   dynamic_fee_control |-> 1, max_volatility_accumulator |-> 5]

\* Ranges that meet at tick 0, overlap, or share an end.
LiquidityRanges == {<<-2, 0>>, <<0, 2>>, <<-2, 2>>}
LiquiditySwaps ==
  {Swap(z, b, a, 0, 2) : z \in BOOLEAN, b \in BOOLEAN, a \in {2, 5}}
    \cup {Swap(TRUE, TRUE, 20, 48, 2), Swap(FALSE, TRUE, 20, 96, 2)}

\* Swaps go on while the administrator stops withdrawals or fee collection.
LimitedStatuses ==
  {AllOperations, AllOperations \ {"DecreaseLiquidity"}, AllOperations \ {"CollectFee"}}

\* Orders at ends of a range, at the first and at the last tick of an array.
OrderRanges == {<<-2, 0>>, <<0, 2>>, <<-2, 2>>}
RestingOrders ==
  {RestingOrder(t, TRUE, 4) : t \in {0, 1, 2}} \cup {RestingOrder(t, FALSE, 4) : t \in {-1, 0}}

\* Swaps that name their output, with and without a fee, and without a fee swaps
\* of token 0 that name their input.
OrderSwaps ==
  {Swap(z, FALSE, a, 0, 1) : z \in BOOLEAN, a \in {3, 7}}
    \cup {Swap(z, FALSE, 7, 0, 0) : z \in BOOLEAN}
    \cup {Swap(TRUE, TRUE, a, 0, 0) : a \in {3, 7}}
    \cup {Swap(TRUE, TRUE, 20, 5, 0), Swap(FALSE, FALSE, 20, 14, 1)}

\* One range, an order below it, and swaps that name their input and pay the
\* fee on it.
LeftoverOrders == {RestingOrder(-1, FALSE, 4)}
LeftoverSwaps == {Swap(FALSE, FALSE, 3, 0, 1), Swap(TRUE, TRUE, 7, 5, 1), Swap(TRUE, TRUE, 20, 5, 1)}

\* One range around the price and a swap that buys token 0.
OneRange == {<<-2, 2>>}
ExactInput == {Swap(FALSE, TRUE, 5, 0, 1)}

\* A price below every range, orders at the last tick of one array and the
\* first of the next, and a swap that has one unit left between them.
GapRanges == {<<0, 2>>}
GapOrders == {RestingOrder(-1, TRUE, 4), RestingOrder(0, TRUE, 4)}
GapSwaps == {Swap(FALSE, TRUE, a, 10, 1) : a \in {5, 7}}

\* A range below the price, with nothing in between, and a swap that reaches it.
RangeBelow == {<<-3, -1>>}
EnteringSwaps == {Swap(TRUE, TRUE, 20, 5, 1), Swap(TRUE, FALSE, 3, 5, 1)}

\* Positions are interchangeable.
PositionSymmetry == Permutations(Positions)
=============================================================================
