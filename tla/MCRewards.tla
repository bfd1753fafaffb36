----------------------------- MODULE MCRewards -----------------------------
(* Rewards for TLC: the ranges of the positions and the statuses.          *)
EXTENDS Rewards, TLC

\* Ranges that share an end.
Nested == {<<0, 2>>, <<0, 1>>}

\* Withdrawals are stopped and resumed.
Limited == {{"DecreaseLiquidity", "CollectReward"}, {"CollectReward"}}

\* Positions are interchangeable.
PositionSymmetry == Permutations(Positions)
=============================================================================
