-------------------------- MODULE MCDriftInsurance --------------------------
EXTENDS DriftInsurance

MCStakers == {"s1", "s2"}

MCSegments == <<<<85, 5>>, <<90, 10>>, <<95, 15>>, <<99, 20>>, <<100, 50>>>>

MCSettings ==
  [unstaking_period |-> 1, whitelisted |-> {"keeper"}, transfer_epoch |-> 2, max_transfer |-> 40, period |-> 2,
   max_apr |-> 1000, user_factor |-> 10, max_imbalance |-> 20, max_per_period |-> 300, max_insurance |-> 240,
   epoch |-> 1, epoch_max_in |-> 60, total_in |-> 90, out_price |-> 1000, out_twap |-> 1000, slippage |-> 100,
   held |-> [i \in {0, 1} |-> 10000], rounding |-> 2]

MCToken(dep, bor, cdi, revenue, vault, i) ==
  LET t == [dep |-> dep + revenue, bor |-> bor, cdi |-> cdi, cbi |-> 100, revenue |-> [bal |-> revenue, type |-> "Deposit"],
            vault |-> 0, if_vault |-> vault, last_ts |-> 0, twap_ts |-> 0, dep_twap |-> 0, bor_twap |-> 0, util_twap |-> 50,
            optimal |-> 80, optimal_rate |-> 80, max_rate |-> 200, min_rate |-> 0, factor |-> 20, threshold |-> 0,
            max_deposits |-> 0, max_borrows |-> 0, pool |-> 0, status |-> "Active", paused |-> {}, tier |-> 0, index |-> i]
  IN  [t EXCEPT !.vault = deposits(t) - borrows(t)]

MCFund(total, user) == [total |-> total, user |-> user, base |-> 0, last_settle |-> 0, paused |-> {}]

MCStake(shares) == [open |-> shares > 0, shares |-> shares, base |-> 0, req |-> 0, value |-> 0, ts |-> 0, staked |-> 0]

MCOpening(vault, total, first, revenue, second) ==
  [k |-> [i \in {0, 1} |-> IF i = 0 THEN MCToken(10000, 5000, 100, revenue, vault, 0) ELSE MCToken(10000, 5000, 100, 0, second, 1)],
   f |-> [i \in {0, 1} |-> IF i = 0 THEN MCFund(total, first) ELSE MCFund(second, 0)],
   st |-> [s \in {"s1", "s2"} |-> MCStake(IF s = "s1" THEN first ELSE 0)],
   p |-> [tfmd |-> -300, pnl_pool |-> NoBalance, net |-> 260, net_twap |-> 260, since |-> 0, settled |-> 0, in_settlement |-> FALSE],
   rc |-> [epoch_start |-> 0, epoch_in |-> 0, current_in |-> 0, current_out |-> 0, transferred |-> 0],
   tc |-> [next |-> 0, sent |-> 0]]

\* A fund with a staker and the protocol in it, a fund of one staker alone, an empty one.
MCOpenings == {MCOpening(210, 190, 130, 4000, 100), MCOpening(200, 200, 200, 300, 0), MCOpening(0, 0, 0, 300, 70)}
=============================================================================
