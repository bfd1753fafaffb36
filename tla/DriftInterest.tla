--------------------------- MODULE DriftInterest ---------------------------
(***************************************************************************)
(* Interest, averages and withdrawal limits of one token of programs/drift *)
(* (controller/spot_balance.rs, math/spot_balance.rs, math/stats.rs,       *)
(* math/spot_withdraw.rs).  Borrowers pay a rate that rises with the       *)
(* utilization; lenders get it, less the share of the insurance fund,      *)
(* which goes to the revenue pool.  Withdrawals are held back by moving    *)
(* averages of deposits, borrows and utilization.                          *)
(*                                                                         *)
(* A token k has, beside the fields of DriftSpotBalance, last_ts and       *)
(* twap_ts, dep_twap, bor_twap and util_twap, and its settings             *)
(*   optimal, optimal_rate, max_rate, min_rate   the rate's curve          *)
(*   factor         the insurance fund's share of the interest             *)
(*   threshold      withdraw_guard_threshold                               *)
(*   max_deposits, max_borrows   zero for no limit                         *)
(*   pool, status, paused, tier                                            *)
(* Rates, utilizations and shares are in percent.                          *)
(***************************************************************************)
EXTENDS DriftSpotBalance, SequencesExt

CONSTANTS
  Year,       \* ONE_YEAR, in the model's units of time
  Window,     \* SPOT_MARKET_TOKEN_TWAP_WINDOW
  Segments    \* INTEREST_RATE_SEGMENT_AND_WEIGHTS: <<end, weight>>, both in percent

ASSUME YearAssumption == Year \in Nat \ {0} /\ Window \in Nat \ {0}

NoLimit == 1000000   \* stands for u128::MAX

atLeast(x, y) == IF x > y THEN x ELSE y

atMost(x, y) == IF x < y THEN x ELSE y

(***************************************************************************)
(* Moving averages.                                                        *)
(***************************************************************************)
\* The result is pushed by one towards the side that weighs more, by the
\* products and not the values: an average may leave the range of its data.
calculate_weighted_average(data1, data2, weight1, weight2) ==
  LET new == data1 * weight1
      old == data2 * weight2
      bias == IF weight2 <= 1 THEN 0 ELSE IF old < new THEN -1 ELSE IF old > new THEN 1 ELSE 0
      twap == (new + old) \div (weight1 + weight2)
  IN  IF weight1 = 0 THEN data2
      ELSE IF weight2 = 0 THEN data1
      ELSE IF twap = 0 /\ bias < 0 THEN 0
      ELSE twap + bias

\* Without deposits any borrow is full utilization.
calculate_utilization(dep, bor) ==
  IF dep = 0 THEN IF bor = 0 THEN 0 ELSE 100 ELSE (bor * 100) \div dep

utilization(k) == calculate_utilization(deposits(k), borrows(k))

update_spot_market_twap_stats(k, now) ==
  LET since == atLeast(0, now - k.twap_ts)
      left == atLeast(1, Window - since)
      average(new, old) == calculate_weighted_average(new, old, since, left)
  IN  [k EXCEPT !.dep_twap = average(deposits(k), @),
                !.bor_twap = average(borrows(k), @),
                !.util_twap = average(utilization(k), @),
                !.twap_ts = now]

is_healthy_utilization(k) == k.util_twap <= 90 /\ utilization(k) <= 90

(***************************************************************************)
(* Interest.                                                               *)
(***************************************************************************)
\* Up to the optimal utilization the rate is a line; beyond it the rest of the
\* rate is shared out over segments that grow steeper.
segment_rate(acc, segment, util, extra) ==
  LET whole == (extra * segment[2]) \div 100
  IN  IF acc.done THEN acc
      ELSE IF util <= segment[1]
        THEN [acc EXCEPT !.done = TRUE,
                         !.rate = @ + (whole * (util - acc.from)) \div (segment[1] - acc.from)]
        ELSE [acc EXCEPT !.rate = @ + whole, !.from = segment[1]]

calculate_borrow_rate(k, util) ==
  LET slope == (k.optimal_rate * 100) \div k.optimal
      line == (util * slope) \div 100
      steep == FoldLeft(LAMBDA acc, s : segment_rate(acc, s, util, k.max_rate - k.optimal_rate),
                        [rate |-> k.optimal_rate, from |-> k.optimal, done |-> FALSE], Segments).rate
  IN  atLeast(IF util <= k.optimal THEN line ELSE steep, k.min_rate)

\* A borrow's interest is rounded up even when it is exact.
interest_at(k, util, rate) ==
  [borrow |-> ((k.cbi * rate) \div Year) \div 100 + 1,
   deposit |-> ((k.cdi * ((rate * util) \div 100)) \div Year) \div 100]

accumulated_interest(k, now, util) ==
  IF now <= k.last_ts \/ util = 0 THEN [deposit |-> 0, borrow |-> 0]
  ELSE interest_at(k, util, calculate_borrow_rate(k, util) * (now - k.last_ts))

calculate_accumulated_interest(k, now) == accumulated_interest(k, now, utilization(k))

get_interest_token_amount(bal, interest) == (bal * interest) \div Scale

\* mutant: lenders are credited with the insurance fund's share too
mut_interest_paid(k, now, i, stakers) ==
  IF i.deposit = 0 \/ i.borrow <= 1 \/ i.deposit = stakers THEN {k}
  ELSE update_revenue_pool_balances(get_interest_token_amount(k.dep, stakers), "Deposit",
         [k EXCEPT !.cdi = @ + i.deposit, !.cbi = @ + i.borrow, !.last_ts = now])

\* While the interest rounds to nothing its time is not used up: it is paid later.
interest_paid(k, now, i, stakers) ==
  IF i.deposit = 0 \/ i.borrow <= 1 \/ i.deposit = stakers THEN {k}
  ELSE update_revenue_pool_balances(get_interest_token_amount(k.dep, stakers), "Deposit",
         [k EXCEPT !.cdi = @ + i.deposit - stakers, !.cbi = @ + i.borrow, !.last_ts = now])

shared_interest(k, now, i) == interest_paid(k, now, i, (i.deposit * k.factor) \div 100)

with_interest(k, now) == shared_interest(k, now, calculate_accumulated_interest(k, now))

\* Every instruction that touches a balance starts with this.
update_spot_market_cumulative_interest(k, now) ==
  {update_spot_market_twap_stats(j, now) :
     j \in IF "UpdateCumulativeInterest" \in k.paused THEN {k} ELSE with_interest(k, now)}

(***************************************************************************)
(* Limits on withdrawals.                                                  *)
(***************************************************************************)
\* A quarter of the average may leave, or the threshold.
calculate_min_deposit_token_amount(k) ==
  k.dep_twap - atLeast(k.dep_twap \div 4, atMost(k.threshold, k.dep_twap))

max_token_borrows(k) == IF k.max_borrows > 0 THEN k.max_borrows ELSE NoLimit

calculate_max_borrow_token_amount(k) ==
  LET lesser == atMost(deposits(k), k.dep_twap)
      d == IF k.pool = 0 THEN <<3, 5, 14>> ELSE <<2, 3, 20>>
      steady == atMost(atLeast(lesser \div d[1], k.bor_twap + lesser \div d[2]), lesser - lesser \div d[3])
  IN  atMost(atLeast(k.threshold, steady), max_token_borrows(k))

max_withdraw_utilization(k) == atLeast(k.optimal, k.util_twap + atLeast(0, 100 - k.util_twap) \div 2)

\* The least deposits and the most borrows that the utilization allows.
calculate_token_utilization_limits(k) ==
  LET max == max_withdraw_utilization(k)
  IN  [min |-> atMost((borrows(k) * 100) \div max, atLeast(0, deposits(k) - k.threshold)),
       max |-> atLeast((max * deposits(k)) \div 100, k.threshold)]

\* A small holder takes out what it put in whatever the limits say.
check_user_exception_to_withdraw_limits(k, u, b, amount) ==
  /\ u.net >= 0 /\ u.cum[k.index] >= 0 /\ b.type = "Deposit"
  /\ token_amount(b, k) + amount < k.threshold \div 10

\* b is the balance after the withdrawal, k the token after it.
check_withdraw_limits(k, u, b, amount) ==
  LET limits == calculate_token_utilization_limits(k)
      enough == deposits(k) >= atLeast(calculate_min_deposit_token_amount(k), limits.min)
      fits == borrows(k) <= atMost(calculate_max_borrow_token_amount(k), limits.max)
  IN  \/ enough /\ (b.type = "Borrow" => fits)
      \/ check_user_exception_to_withdraw_limits(k, u, b, amount)

\* For a holder of that many tokens (negative when it owes them).
get_max_withdraw_for_market_with_token_amount(k, amount, leaving) ==
  LET limits == IF leaving THEN calculate_token_utilization_limits(k) ELSE [min |-> 0, max |-> NoLimit]
      withdraw_limit ==
        atLeast(0, deposits(k) - atLeast(calculate_min_deposit_token_amount(k), limits.min))
      room == atLeast(0, atMost(calculate_max_borrow_token_amount(k), limits.max) - borrows(k))
      borrow_limit == atMost(atMost(room, atLeast(0, deposits(k) - borrows(k))),
                             IF k.max_borrows > 0 THEN atLeast(0, k.max_borrows - borrows(k)) ELSE NoLimit)
  IN  IF amount > 0 /\ leaving /\ withdraw_limit <= amount THEN withdraw_limit
      ELSE atLeast(amount, 0) + borrow_limit

\* max_token_deposits, and for a new borrow the limit on borrows.
validate_max_token_deposits_and_borrows(k, check_borrows) ==
  /\ k.max_deposits = 0 \/ deposits(k) <= k.max_deposits
  /\ check_borrows /\ k.max_deposits > 0 /\ k.max_borrows > 0 => borrows(k) <= k.max_borrows

\* What leaves through one token's door: all of it must be there.
send_from_program_vault(k, amount) == IF k.vault < amount THEN {} ELSE {[k EXCEPT !.vault = @ - amount]}

receive(k, amount) == [k EXCEPT !.vault = @ + amount]
=============================================================================
