------------------------------ MODULE Rewards ------------------------------
(***************************************************************************)
(* One reward of a pool of programs/amm.                                   *)
(*                                                                         *)
(* A funder deposits tokens that the pool hands out over time to the       *)
(* liquidity in range.  Nothing happens while time passes: every           *)
(* instruction that needs the reward first brings it up to date            *)
(* (PoolState::update_reward_infos), which turns the time since the last   *)
(* update into growth per unit of liquidity.  Ticks keep the growth on     *)
(* their other side, and a position learns what it has earned when it is   *)
(* touched.  The funder or the administrator may change the rate and the   *)
(* period at any time and collects what is left after the end.             *)
(*                                                                         *)
(* The three rewards of a pool are independent of each other.  The rules   *)
(* on which mints may be rewards, token transfer fees and reward_state,    *)
(* which nothing reads, are left out, and no limit orders keep a tick      *)
(* initialized.  The pool's liquidity is that of the positions in range,   *)
(* LiquidityInRange of module Pool.                                        *)
(***************************************************************************)
EXTENDS FullMath, FiniteSetsExt, Functions

CONSTANTS
  Q64,
  Growth,               \* 2^128: reward growth wraps
  U64Max,               \* the largest amount of tokens
  MinRewardPeriod, MaxRewardPeriod, IncreaseEmissionsPeriod,  \* reward_period_limit
  Positions,            \* model bound: positions that exist at once
  Ranges,               \* model bound: the <<lower, upper>> of positions
  Deltas,               \* model bound: amounts of liquidity added or removed
  MaxLiquidity,         \* model bound: the liquidity of a position
  TickRange,            \* model bound: the ticks the price moves over
  Rates,                \* model bound: the emissions_per_second_x64 asked for
  Times,                \* model bound: the open and end times asked for
  Statuses,             \* model bound: the values of status the administrator sets
  MaxTime,              \* model bound: seconds that pass
  MaxChanges            \* model bound: changes of the parameters

AllOperations == {"DecreaseLiquidity", "CollectReward"}

ASSUME RewardAssumption ==
  /\ Q64 \in Nat \ {0} /\ Growth \in Nat \ {0} /\ U64Max \in Nat
  /\ MinRewardPeriod \in Nat \ {0} /\ MaxRewardPeriod \in Nat
  /\ IncreaseEmissionsPeriod \in Nat
  /\ TickRange \subseteq Int /\ IsFiniteSet(Positions)
  /\ \A r \in Ranges : r[1] \in Int /\ r[2] \in Int /\ r[1] < r[2]
  /\ Deltas \subseteq Nat \ {0} /\ MaxLiquidity \in Nat
  /\ Rates \subseteq Nat \ {0} /\ Times \subseteq Nat
  /\ Statuses \subseteq SUBSET AllOperations
  /\ MaxTime \in Nat /\ MaxChanges \in Nat

Ticks == {r[1] : r \in Ranges} \cup {r[2] : r \in Ranges}

VARIABLES
  reward,        \* RewardInfo
  tick_current,
  outside,       \* reward_growths_outside_x64 of each tick
  position,      \* range, liquidity and PositionRewardInfo of each position
  status,        \* the operations PoolState.status allows
  vault,         \* the balance of the reward vault
  time,          \* the clock's unix_timestamp
  changes,       \* changes of the parameters so far
  dust           \* history: what rounding down when charging has lost, in 1/Q64 of a token

vars == <<reward, tick_current, outside, position, status, vault, time, changes, dust>>

NoReward ==
  [initialized |-> FALSE, open_time |-> 0, end_time |-> 0, last_update_time |-> 0,
   emissions_per_second_x64 |-> 0, reward_total_emitted |-> 0, reward_claimed |-> 0,
   reward_growth_global_x64 |-> 0]

NoPosition ==
  [open |-> FALSE, range |-> <<0, 1>>, liquidity |-> 0, growth_inside_last_x64 |-> 0,
   reward_amount_owed |-> 0]

\* mutant: the difference does not wrap
mut_wrapping_sub(a, b) == a - b

wrapping_sub(a, b) == (a - b) % Growth

(***************************************************************************)
(* The liquidity of the pool and of a tick.                                *)
(***************************************************************************)
in_range(r, t) == r[1] <= t /\ t < r[2]

sum_over_positions(amounts) == SumFunctionOnSet(amounts, Positions)

liquidity ==
  sum_over_positions([p \in Positions |-> IF in_range(position[p].range, tick_current)
                                          THEN position[p].liquidity ELSE 0])

liquidity_gross(pos, t) ==
  sum_over_positions([p \in Positions |-> IF t \in {pos[p].range[1], pos[p].range[2]}
                                          THEN pos[p].liquidity ELSE 0])

(***************************************************************************)
(* update_reward_infos.                                                    *)
(***************************************************************************)
\* mutant: what is emitted is rounded down
mut_reward_delta(r, time_delta) == mul_div_floor(time_delta, r.emissions_per_second_x64, Q64)

reward_delta(r, time_delta) == mul_div_ceil(time_delta, r.emissions_per_second_x64, Q64)

\* mutant: growth goes on past the largest total
mut_emitted(r, time_delta, active) ==
  [r EXCEPT !.reward_total_emitted = least(@ + reward_delta(r, time_delta), U64Max),
            !.reward_growth_global_x64 =
              (@ + mul_div_floor(time_delta, r.emissions_per_second_x64, active)) % Growth]

\* Past the largest total, only what is left below it is handed out.
emitted(r, time_delta, active) ==
  LET total == r.reward_total_emitted + reward_delta(r, time_delta)
      growth == IF total <= U64Max
                THEN mul_div_floor(time_delta, r.emissions_per_second_x64, active)
                ELSE mul_div_floor(U64Max - r.reward_total_emitted, Q64, active)
  IN [r EXCEPT !.reward_total_emitted = least(total, U64Max),
               !.reward_growth_global_x64 = (@ + growth) % Growth]

\* The reward at the moment latest, with so much liquidity active since the last update.
updated_until(r, latest, active) ==
  LET time_delta == saturating_sub(latest, r.last_update_time)
  IN IF active # 0 /\ time_delta = 0 THEN r
     ELSE [(IF active = 0 THEN r ELSE emitted(r, time_delta, active))
             EXCEPT !.last_update_time = latest]

update_reward_infos(r) ==
  IF \/ ~r.initialized
     \/ r.reward_total_emitted = U64Max
     \/ time <= r.open_time
  THEN r ELSE updated_until(r, least(time, r.end_time), liquidity)

(***************************************************************************)
(* Growth inside a range, and what a position has earned.                  *)
(***************************************************************************)
\* mutant: at its upper end the price still counts as inside
mut_get_reward_growths_inside(r, out, range) ==
  LET global == r.reward_growth_global_x64
      below == IF tick_current >= range[1] THEN out[range[1]]
               ELSE wrapping_sub(global, out[range[1]])
      above == IF tick_current <= range[2] THEN out[range[2]]
               ELSE wrapping_sub(global, out[range[2]])
  IN wrapping_sub(wrapping_sub(global, below), above)

get_reward_growths_inside(r, out, range) ==
  LET global == r.reward_growth_global_x64
      below == IF tick_current >= range[1] THEN out[range[1]]
               ELSE wrapping_sub(global, out[range[1]])
      above == IF tick_current < range[2] THEN out[range[2]]
               ELSE wrapping_sub(global, out[range[2]])
  IN wrapping_sub(wrapping_sub(global, below), above)

update_rewards(pos, inside) ==
  [pos EXCEPT !.reward_amount_owed =
                @ + mul_div_floor(wrapping_sub(inside, pos.growth_inside_last_x64),
                                  pos.liquidity, Q64),
              !.growth_inside_last_x64 = inside]

(***************************************************************************)
(* Positions.  modify_position initializes the ends of the range that had  *)
(* no liquidity and clears the ends that lose theirs.                      *)
(***************************************************************************)
tick_updated(r, t) ==
  IF liquidity_gross(position, t) = 0 /\ t <= tick_current
  THEN r.reward_growth_global_x64 ELSE outside[t]

outside_updated(r, range, delta) ==
  [t \in Ticks |-> IF delta # 0 /\ t \in {range[1], range[2]} THEN tick_updated(r, t)
                   ELSE outside[t]]

cleared(out, pos) == [t \in Ticks |-> IF liquidity_gross(pos, t) = 0 THEN 0 ELSE out[t]]

open_position(p, range, delta) ==
  LET r == update_reward_infos(reward)
      out == outside_updated(r, range, delta)
  IN /\ ~position[p].open
     /\ reward' = r
     /\ outside' = out
     /\ position' = [position EXCEPT ![p] =
                       [open |-> TRUE, range |-> range, liquidity |-> delta,
                        growth_inside_last_x64 |-> get_reward_growths_inside(r, out, range),
                        reward_amount_owed |-> 0]]
     /\ UNCHANGED <<tick_current, status, vault, time, changes, dust>>

increase_liquidity(p, delta) ==
  LET r == update_reward_infos(reward)
      range == position[p].range
      out == outside_updated(r, range, delta)
      pos == update_rewards(position[p], get_reward_growths_inside(r, out, range))
  IN /\ position[p].open
     /\ position[p].liquidity + delta <= MaxLiquidity
     /\ reward' = r
     /\ outside' = out
     /\ position' = [position EXCEPT ![p] = [pos EXCEPT !.liquidity = @ + delta]]
     /\ UNCHANGED <<tick_current, status, vault, time, changes, dust>>

transfer_amount(pos) ==
  IF "CollectReward" \in status THEN least(pos.reward_amount_owed, vault) ELSE 0

check_unclaimed_reward(r, pos) ==
  "CollectReward" \in status /\ pos.reward_amount_owed > 0 =>
    r.reward_total_emitted - r.reward_claimed >= pos.reward_amount_owed

\* Pays the position; the reward and the position as the decrease left them.
collect_rewards(r, out, pos, p) ==
  /\ check_unclaimed_reward(r, pos)
  /\ reward' = [r EXCEPT !.reward_claimed = @ + transfer_amount(pos)]
  /\ outside' = out
  /\ position' = [position EXCEPT ![p] =
                    [pos EXCEPT !.reward_amount_owed = @ - transfer_amount(pos)]]
  /\ vault' = vault - transfer_amount(pos)

decrease_liquidity(p, delta) ==
  LET r == update_reward_infos(reward)
      range == position[p].range
      out == outside_updated(r, range, delta)
      pos == update_rewards(position[p], get_reward_growths_inside(r, out, range))
      less == [pos EXCEPT !.liquidity = @ - delta]
  IN /\ position[p].open
     /\ delta <= position[p].liquidity
     /\ status # {}
     /\ IF "DecreaseLiquidity" \in status
        THEN collect_rewards(r, cleared(out, [position EXCEPT ![p] = less]), less, p)
        ELSE collect_rewards(reward, outside, position[p], p)
     /\ UNCHANGED <<tick_current, status, time, changes, dust>>

close_position(p) ==
  /\ position[p].open
  /\ position[p].liquidity = 0 /\ position[p].reward_amount_owed = 0
  /\ position' = [position EXCEPT ![p] = NoPosition]
  /\ UNCHANGED <<reward, tick_current, outside, status, vault, time, changes, dust>>

\* A swap moves the price and crosses the ticks with liquidity on its way.
swap(t) ==
  LET r == update_reward_infos(reward)
      passed(b) == \/ tick_current < b /\ b <= t
                   \/ t < b /\ b <= tick_current
  IN /\ t # tick_current
     /\ reward' = r
     /\ outside' = [b \in Ticks |->
                      IF passed(b) /\ liquidity_gross(position, b) > 0
                      THEN wrapping_sub(r.reward_growth_global_x64, outside[b])
                      ELSE outside[b]]
     /\ tick_current' = t
     /\ UNCHANGED <<position, status, vault, time, changes, dust>>

(***************************************************************************)
(* The funder and the administrator.                                       *)
(***************************************************************************)
initialize_reward(rate, open_time, end_time) ==
  LET reward_amount == mul_div_ceil(end_time - open_time, rate, Q64)
  IN /\ ~reward.initialized
     /\ open_time >= time /\ open_time < end_time
     /\ end_time - open_time \in MinRewardPeriod .. MaxRewardPeriod
     /\ reward_amount <= U64Max
     /\ reward' = [NoReward EXCEPT !.initialized = TRUE, !.open_time = open_time,
                                   !.end_time = end_time, !.last_update_time = open_time,
                                   !.emissions_per_second_x64 = rate]
     /\ vault' = vault + reward_amount
     /\ UNCHANGED <<tick_current, outside, position, status, time, changes, dust>>

\* A new period: the whole of it is charged, rounded up.
new_period(r, rate, open_time, end_time) ==
  [info |-> [r EXCEPT !.open_time = open_time, !.last_update_time = open_time,
                      !.end_time = end_time, !.emissions_per_second_x64 = rate],
   amount |-> mul_div_ceil(end_time - open_time, rate, Q64), rounded_down |-> 0]

\* mutant: a higher rate for the time left is not charged
mut_extension(r, rate, end_time) ==
  LET longer == saturating_sub(end_time, r.end_time)
  IN [info |-> [r EXCEPT !.end_time = end_time, !.emissions_per_second_x64 = rate],
      amount |-> mul_div_floor(longer, rate, Q64),
      rounded_down |-> (longer * rate) % Q64]

\* The current period: a higher rate for the time left and the extension are
\* charged, each rounded down.
extension(r, rate, end_time) ==
  LET left == r.end_time - time
      higher == saturating_sub(rate, r.emissions_per_second_x64)
      longer == saturating_sub(end_time, r.end_time)
  IN [info |-> [r EXCEPT !.end_time = end_time, !.emissions_per_second_x64 = rate],
      amount |-> mul_div_floor(left, higher, Q64) + mul_div_floor(longer, rate, Q64),
      rounded_down |-> ((left * higher) % Q64) + ((longer * rate) % Q64)]

\* The rate falls only close to the end.
may_lower(r, rate) ==
  rate < r.emissions_per_second_x64 => IncreaseEmissionsPeriod > r.end_time - time

period_allowed(length) == length \in MinRewardPeriod .. MaxRewardPeriod

\* Of the administrator also a period that has not begun is replaced.
starts_anew(r, admin_operator) ==
  r.last_update_time = r.end_time \/ (admin_operator /\ r.open_time > time)

normal_update(r, rate, open_time, end_time) ==
  IF starts_anew(r, FALSE) THEN period_allowed(end_time - open_time)
  ELSE period_allowed(end_time - r.end_time) /\ may_lower(r, rate)

params_updated(r, admin_operator, rate, open_time, end_time) ==
  IF starts_anew(r, admin_operator) THEN new_period(r, rate, open_time, end_time)
  ELSE extension(r, rate, end_time)

\* mutant: the past is not settled at the old rate
mut_before_update == reward

before_update == update_reward_infos(reward)

set_reward_params(admin_operator, rate, open_time, end_time) ==
  LET r == before_update
      u == params_updated(r, admin_operator, rate, open_time, end_time)
  IN /\ changes < MaxChanges
     /\ end_time > open_time /\ open_time > time
     /\ r.initialized
     /\ \/ admin_operator
        \/ time > r.open_time /\ normal_update(r, rate, open_time, end_time)
     /\ starts_anew(r, admin_operator) \/ r.end_time >= time
     /\ r.reward_total_emitted + u.amount <= U64Max
     /\ reward' = u.info
     /\ vault' = vault + u.amount
     /\ dust' = dust + u.rounded_down
     /\ changes' = changes + 1
     /\ UNCHANGED <<tick_current, outside, position, status, time>>

\* What positions may still claim.
unclaimed(r) == r.reward_total_emitted - r.reward_claimed

collect_remaining_rewards ==
  LET r == update_reward_infos(reward)
  IN /\ r.initialized
     /\ r.last_update_time = r.end_time
     /\ unclaimed(r) >= 0 /\ vault >= unclaimed(r)
     /\ reward' = r
     /\ vault' = unclaimed(r)
     /\ UNCHANGED <<tick_current, outside, position, status, time, changes, dust>>

\* The instruction that anybody may call.
update_rewards_only ==
  /\ reward' = update_reward_infos(reward)
  /\ UNCHANGED <<tick_current, outside, position, status, vault, time, changes, dust>>

update_pool_status(s) ==
  /\ status' = s
  /\ UNCHANGED <<reward, tick_current, outside, position, vault, time, changes, dust>>

advance_time ==
  /\ time < MaxTime
  /\ time' = time + 1
  /\ UNCHANGED <<reward, tick_current, outside, position, status, vault, changes, dust>>

Init ==
  /\ reward = NoReward
  /\ tick_current \in TickRange
  /\ outside = [t \in Ticks |-> 0]
  /\ position = [p \in Positions |-> NoPosition]
  /\ status = AllOperations
  /\ vault = 0
  /\ time = 0
  /\ changes = 0
  /\ dust = 0

Next ==
  \/ \E p \in Positions, range \in Ranges, delta \in Deltas : open_position(p, range, delta)
  \/ \E p \in Positions, delta \in Deltas : increase_liquidity(p, delta)
  \/ \E p \in Positions, delta \in Deltas \cup {0} : decrease_liquidity(p, delta)
  \/ \E p \in Positions : close_position(p)
  \/ \E t \in TickRange : swap(t)
  \/ \E rate \in Rates, open_time, end_time \in Times :
       initialize_reward(rate, open_time, end_time)
  \/ \E admin_operator \in BOOLEAN, rate \in Rates,
        open_time, end_time \in Times :
       set_reward_params(admin_operator, rate, open_time, end_time)
  \/ collect_remaining_rewards
  \/ update_rewards_only
  \/ \E s \in Statuses : update_pool_status(s)
  \/ advance_time

Spec == Init /\ [][Next]_vars

(***************************************************************************)
(* Properties.                                                             *)
(***************************************************************************)
opened == {p \in Positions : position[p].open}

\* The accounts hold values of their types.
TypeOK ==
  /\ reward.initialized \in BOOLEAN
  /\ \A f \in {"open_time", "end_time", "last_update_time", "emissions_per_second_x64"} :
       reward[f] \in Nat
  /\ reward.reward_total_emitted \in 0 .. U64Max
  /\ reward.reward_claimed \in 0 .. U64Max
  /\ reward.reward_growth_global_x64 \in 0 .. (Growth - 1)
  /\ outside \in [Ticks -> 0 .. (Growth - 1)]
  /\ \A p \in opened : /\ position[p].range \in Ranges
                        /\ position[p].liquidity \in Nat
                        /\ position[p].growth_inside_last_x64 \in 0 .. (Growth - 1)
                        /\ position[p].reward_amount_owed \in 0 .. U64Max
  /\ vault \in Nat

\* What each position would be owed if it were touched now.
current == update_reward_infos(reward)

earned_under(r) ==
  [p \in Positions |->
     IF position[p].open
     THEN update_rewards(position[p], get_reward_growths_inside(r, outside, position[p].range)
                        ).reward_amount_owed
     ELSE 0]

earned == earned_under(current)

\* What the period still hands out: nothing once the largest total is reached.
rest_of_period(r) ==
  least(saturating_sub(r.end_time, r.last_update_time) * r.emissions_per_second_x64,
        (U64Max - r.reward_total_emitted) * Q64)

\* However the parameters change and whenever the funder collects what is
\* left, the vault covers all that positions have earned and the rest of the
\* period, short of the fractions that set_reward_params rounded down.
RewardsFunded ==
  vault * Q64 + dust >= sum_over_positions(earned_under(current)) * Q64 + rest_of_period(current)

\* check_unclaimed_reward never refuses what positions have earned: the total
\* emitted, rounded at other moments than their shares, covers them all.
ClaimsPossible == LET r == current IN unclaimed(r) >= sum_over_positions(earned_under(r))

\* Whatever positions have earned is in the vault and can be claimed.
RewardsCovered == TypeOK /\ RewardsFunded /\ ClaimsPossible

\* Rewards are earned by the passing of time only.  A swap, a change of
\* another position or of the parameters, an update or its absence neither
\* gives nor takes: a position loses what it is paid and nothing else.
EarnedExact ==
  [][time' = time =>
       \A before \in {earned}, after \in {earned'} :
         LET paid == reward'.reward_claimed - reward.reward_claimed
         IN /\ \A p \in Positions :
                 after[p] \in {before[p], before[p] - paid}
            /\ sum_over_positions(after) = sum_over_positions(before) - paid]_vars
=============================================================================
