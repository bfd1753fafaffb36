------------------------------ MODULE MCShield ------------------------------
(* ShieldPrograms for TLC.                                                 *)
EXTENDS ShieldPrograms

Negative4 == -4
Prices == [t \in -4 .. 4 |-> <<4, 6, 8, 11, 16, 23, 32, 45, 64>>[t + 5]]

At(times, ticks) == [i \in 1 .. Len(times) |-> [time |-> times[i], tick |-> ticks[i]]]

\* A fresh pool; index 2 and 3 for the first time; index 3 after the ring has
\* wrapped, with the ticks rising, falling and steady; and the end of the ring.
Some ==
  {[observations |-> <<>>, tick |-> 0, now |-> 20],
   [observations |-> At(<<20, 22, 25>>, <<0, 1, 0>>), tick |-> 1, now |-> 26],
   [observations |-> At(<<20, 22, 24, 26>>, <<0, 1, 2, 1>>), tick |-> -1, now |-> 27],
   [observations |-> At(<<20, 22, 24, 27, 29, 31, 33, 36, 38>>,
                        <<0, 2, 1, 2, -1, -2, 0, 1, 0>>), tick |-> 1, now |-> 39],
   [observations |-> At(<<20, 23, 25, 27, 29, 32, 34, 36, 38, 40>>,
                        <<0, -1, -2, -1, -2, -2, -1, -2, -1, -2>>), tick |-> 0, now |-> 41]}

SomeArbConfigs ==
  {[min_spread_bps |-> 1, treasury_share_bps |-> share, twap_window_seconds |-> 3,
    min_sweep_amount |-> least_amount, max_sweep_amount |-> 8, cooldown_slots |-> 2,
    manipulation_tax_bps |-> tax] :
      share \in {0, 5}, least_amount \in {0, 6}, tax \in {0, 5}}

SomeSwaps ==
  {[zero_for_one |-> z, base_input |-> TRUE, amount |-> a, limit |-> 0,
    other_amount_threshold |-> 1] : z \in BOOLEAN, a \in {3, 8}}
  \cup {[zero_for_one |-> TRUE, base_input |-> TRUE, amount |-> 8, limit |-> 12,
         other_amount_threshold |-> 5],
        [zero_for_one |-> FALSE, base_input |-> FALSE, amount |-> 2, limit |-> 0,
         other_amount_threshold |-> 6]}

SomeSteps == {<<1, 1>>, <<2, 2>>}

SomeShields ==
  {[min_spread_bps |-> 1, treasury_share_bps |-> 5, twap_window_seconds |-> 2,
    min_sweep_amount |-> 1, max_sweep_amount |-> 4, cooldown_slots |-> 2,
    min_jit_lock_slots |-> lock] : lock \in {0, 3}}

SomeUpdates ==
  {[min_sweep_amount |-> 4], [max_sweep_amount |-> 2], [max_sweep_amount |-> 6],
   [min_sweep_amount |-> 4, max_sweep_amount |-> 6, treasury_share_bps |-> 10],
   [min_jit_lock_slots |-> 0, cooldown_slots |-> 0], [min_jit_lock_slots |-> 4],
   [enabled |-> FALSE], [min_spread_bps |-> 0]}
=============================================================================
