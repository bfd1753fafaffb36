--------------------------- MODULE DriftInsurance ---------------------------
(***************************************************************************)
(* The insurance funds of programs/drift (controller/insurance.rs,         *)
(* math/insurance.rs, instructions/if_staker.rs and the fund's handlers of *)
(* instructions/keeper.rs).  A fund is a vault and shares in it: users     *)
(* stake for shares and leave after a waiting period, the protocol owns    *)
(* the other shares.  Revenue flows in; a market's losses flow out, and    *)
(* when they leave many shares on few tokens the shares are rebased.       *)
(*                                                                         *)
(* A world w has the tokens w.k (see DriftInterest), their funds w.f,      *)
(* the stakes w.st in fund 0, the perp market w.p that fund 0 insures, the *)
(* rebalance config w.rc that sells fund 0's tokens for fund 1's, the      *)
(* transfer config w.tc and the time w.now; w.paid is what the step pays   *)
(* out of a vault.                                                         *)
(***************************************************************************)
EXTENDS DriftInterest, Naturals

CONSTANTS
  Stakers,      \* the users with a stake
  Settings,     \* the record of the exchange's settings
  Openings,     \* the worlds to start from
  Amounts,      \* what is staked, asked for and swapped
  EndsMatch,    \* a swap's begin finds its end: the source compares the end with
                \* a placeholder of eight zero bytes, where its id belongs
  Precision,    \* PRICE_PRECISION of a share's price
  MaxNow, MaxOps

ASSUME InsuranceAssumption == EndsMatch \in BOOLEAN /\ Precision \in Nat \ {0}

VARIABLES k, f, st, p, rc, tc, now, ops

vars == <<k, f, st, p, rc, tc, now, ops>>

Tokens == {0, 1}

Admin == "admin"
RebalanceWallet == "rebalancer"
Keeper == "keeper"
Signers == Stakers \union {Admin, RebalanceWallet, Keeper}

World == [k |-> k, f |-> f, st |-> st, p |-> p, rc |-> rc, tc |-> tc, now |-> now, paid |-> 0]

Then(worlds, step(_)) == UNION {step(w) : w \in worlds}

(***************************************************************************)
(* Shares and tokens.  Both conversions round down.                        *)
(***************************************************************************)
\* mutant: shares are rounded up
mut_vault_amount_to_if_shares(amount, total, vault) ==
  IF vault > 0 THEN {(amount * total + vault - 1) \div vault} ELSE IF total = 0 THEN {amount} ELSE {}

\* An empty vault sells a share for a token, if no shares are out.
vault_amount_to_if_shares(amount, total, vault) ==
  IF vault > 0 THEN {(amount * total) \div vault} ELSE IF total = 0 THEN {amount} ELSE {}

if_shares_to_vault_amount(n, total, vault) ==
  IF n > total THEN {} ELSE IF total > 0 THEN {(vault * n) \div total} ELSE {0}

calculate_share_price(total, vault) == IF total > 0 THEN (vault * Precision) \div total ELSE 0

\* The price may fall by one: it is unsigned, so that a rise is an error.
price_kept(before, after) == before > 0 /\ after > 0 => before - after \in {0, 1}

get_protocol_shares(fund) == fund.total - fund.user

log10_iter[n \in 0..100000] == IF n < 10 THEN 0 ELSE 1 + log10_iter[n \div 10]

pow10[e \in 0..10] == IF e = 0 THEN 1 ELSE 10 * pow10[e - 1]

calculate_rebase_info(total, vault) == log10_iter[(total \div 10) \div vault]

(***************************************************************************)
(* Rebases.                                                                *)
(***************************************************************************)
\* A fund with tokens and no shares gives them all to the protocol.
apply_rebase_to_insurance_fund(vault, fund) ==
  LET expo == calculate_rebase_info(fund.total, vault)
      rebased == IF vault # 0 /\ vault < fund.total
                   THEN [fund EXCEPT !.total = @ \div pow10[expo], !.user = @ \div pow10[expo], !.base = @ + expo]
                   ELSE fund
  IN  IF vault # 0 /\ rebased.total = 0 THEN [rebased EXCEPT !.total = vault] ELSE rebased

\* mutant: the stake's shares are left as they were
mut_apply_rebase_to_insurance_fund_stake(fund, stake) ==
  LET divisor == pow10[fund.base - stake.base]
  IN  IF fund.base = stake.base THEN {stake}
      ELSE IF fund.base < stake.base THEN {}
      ELSE {[stake EXCEPT !.base = fund.base, !.req = @ \div divisor]}

\* A stake that is behind its fund follows it; the shares asked for shrink as well,
\* their value does not.
apply_rebase_to_insurance_fund_stake(fund, stake) ==
  LET divisor == pow10[fund.base - stake.base]
  IN  IF fund.base = stake.base THEN {stake}
      ELSE IF fund.base < stake.base THEN {}
      ELSE {[stake EXCEPT !.base = fund.base, !.shares = @ \div divisor, !.req = @ \div divisor]}

\* A stake behind its fund cannot be read.
checked_if_shares(stake, fund) == IF stake.base = fund.base THEN {stake.shares} ELSE {}

\* The world with fund 0 and one stake rebased.
rebased_both(w, s) ==
  LET fund == apply_rebase_to_insurance_fund(w.k[0].if_vault, w.f[0])
  IN  {[w EXCEPT !.f[0] = fund, !.st[s] = stake] : stake \in apply_rebase_to_insurance_fund_stake(fund, w.st[s])}

\* What the owner's fees and limits are computed from: as of the last change.
update_user_stats_if_stake_amount(w, s, delta) ==
  UNION {{[w EXCEPT !.st[s].staked = amount] :
            amount \in if_shares_to_vault_amount(n, w.f[0].total, w.k[0].if_vault + delta)} :
           n \in checked_if_shares(w.st[s], w.f[0])}

(***************************************************************************)
(* Stakes.                                                                 *)
(***************************************************************************)
add_insurance_fund_stake(w, s, amount) ==
  LET vault == w.k[0].if_vault
      grown(v, n) == [v EXCEPT !.st[s].shares = @ + n, !.f[0].total = @ + n, !.f[0].user = @ + n]
      with(v) == {grown(v, n) : n \in vault_amount_to_if_shares(amount, v.f[0].total, vault)}
  IN  IF vault = 0 /\ w.f[0].total # 0 THEN {}
      ELSE Then(Then(rebased_both(w, s), with), LAMBDA v : update_user_stats_if_stake_amount(v, s, amount))

request_remove_insurance_fund_stake(w, s, n) ==
  LET vault == w.k[0].if_vault
      asked(v) ==
        {[v EXCEPT !.st[s].value = atMost(worth, atLeast(0, vault - 1)), !.st[s].ts = w.now] :
           worth \in if_shares_to_vault_amount(v.st[s].req, v.f[0].total, vault)}
  IN  Then(Then({v \in rebased_both([w EXCEPT !.st[s].req = n], s) : v.st[s].req <= v.st[s].shares}, asked),
           LAMBDA v : update_user_stats_if_stake_amount(v, s, 0))

\* mutant: the shares asked for still count when what they were worth is bought back
mut_calculate_if_shares_lost(w, s) ==
  LET n == w.st[s].req
      value == w.st[s].value
      vault == w.k[0].if_vault
      lost(worth) ==
        IF worth <= value THEN {0}
        ELSE {n - new : new \in {x \in vault_amount_to_if_shares(value, w.f[0].total, vault - value) : x <= n}}
  IN  Then(if_shares_to_vault_amount(n, w.f[0].total, vault), lost)

\* mutant: what is bought back counts in the vault it is bought from
mut_shares_lost_price(w, s) ==
  LET n == w.st[s].req
      value == w.st[s].value
      vault == w.k[0].if_vault
      lost(worth) ==
        IF worth <= value THEN {0}
        ELSE {n - new : new \in {x \in vault_amount_to_if_shares(value, w.f[0].total - n, vault) : x <= n}}
  IN  Then(if_shares_to_vault_amount(n, w.f[0].total, vault), lost)

\* What was asked for earned nothing since: the shares it buys back today are kept,
\* the rest is lost to the other holders.
calculate_if_shares_lost(w, s) ==
  LET n == w.st[s].req
      value == w.st[s].value
      vault == w.k[0].if_vault
      lost(worth) ==
        IF worth <= value THEN {0}
        ELSE {n - new : new \in {x \in vault_amount_to_if_shares(value, w.f[0].total - n, vault - value) : x <= n}}
  IN  Then(if_shares_to_vault_amount(n, w.f[0].total, vault), lost)

closed_request(w, s, n) ==
  [w EXCEPT !.st[s].shares = @ - n, !.st[s].req = 0, !.st[s].value = 0, !.st[s].ts = w.now,
            !.f[0].total = @ - n, !.f[0].user = @ - n]

cancel_request_remove_insurance_fund_stake(w, s) ==
  LET cancelled(v) == {closed_request(v, s, n) : n \in {x \in calculate_if_shares_lost(v, s) : x <= v.st[s].shares}}
  IN  Then(Then({v \in rebased_both(w, s) : v.st[s].req # 0}, cancelled),
           LAMBDA v : update_user_stats_if_stake_amount(v, s, 0))

\* mutant: today's worth is paid
mut_remove_insurance_fund_stake(w, s) ==
  LET removed(v) ==
        {[closed_request(v, s, v.st[s].req) EXCEPT !.paid = worth] :
           worth \in if_shares_to_vault_amount(v.st[s].req, v.f[0].total, v.k[0].if_vault)}
      stats(v) == update_user_stats_if_stake_amount(v, s, -v.paid)
  IN  IF w.now - w.st[s].ts < Settings.unstaking_period THEN {}
      ELSE Then(Then({v \in rebased_both(w, s) : v.st[s].req > 0 /\ v.st[s].shares >= v.st[s].req}, removed), stats)

\* What was asked for is paid at the lesser of its worth then and now.
remove_insurance_fund_stake(w, s) ==
  LET removed(v) ==
        {[closed_request(v, s, v.st[s].req) EXCEPT !.paid = atMost(worth, v.st[s].value)] :
           worth \in {x \in if_shares_to_vault_amount(v.st[s].req, v.f[0].total, v.k[0].if_vault) :
                        calculate_if_shares_lost(v, s) # {}}}
      stats(v) == update_user_stats_if_stake_amount(v, s, -v.paid)
  IN  IF w.now - w.st[s].ts < Settings.unstaking_period THEN {}
      ELSE Then(Then({v \in rebased_both(w, s) : v.st[s].req > 0 /\ v.st[s].shares >= v.st[s].req}, removed), stats)

(***************************************************************************)
(* The protocol's shares.                                                  *)
(***************************************************************************)
\* The protocol's shares become a staker's; its stake is not rebased.
transfer_protocol_insurance_fund_stake(w, s, n) ==
  LET fund == apply_rebase_to_insurance_fund(w.k[0].if_vault, w.f[0])
      given == [w EXCEPT !.f[0] = [fund EXCEPT !.user = @ + n], !.st[s].shares = @ + n]
  IN  IF get_protocol_shares(fund) < n \/ w.st[s].base # fund.base THEN {}
      ELSE {[given EXCEPT !.st[s].staked = amount] :
              amount \in if_shares_to_vault_amount(given.st[s].shares, fund.total, w.k[0].if_vault)}

update_epoch(t, time) ==
  IF time > t.next
    THEN [next |-> t.next + Settings.transfer_epoch * ((time - t.next) \div Settings.transfer_epoch + 1), sent |-> 0]
    ELSE t

\* Strictly less than what is left of the epoch's allowance.
validate_transfer(t, n) == n < atLeast(0, Settings.max_transfer - t.sent)

(***************************************************************************)
(* Revenue.                                                                *)
(***************************************************************************)
\* The time until the next settlement, which falls on a multiple of the period; a
\* late one skips the next.
on_the_hour_update(time, last, period) ==
  LET delay == last % period
      next == IF period <= 1 \/ delay = 0 THEN period
              ELSE IF delay > period \div 3 THEN 2 * period - delay ELSE period - delay
      wait == IF next > 2 * period THEN next - period ELSE next
  IN  atLeast(0, wait - (time - last))

\* While users hold shares a settlement is a tenth of the pool at most, and no more
\* than a yield on the fund.
revenue_to_settle(w, i) ==
  LET revenue == token_amount(w.k[i].revenue, w.k[i])
      claim == deposits(w.k[i]) - borrows(w.k[i])
      available == IF claim < revenue THEN atLeast(claim, 0) \div 2 ELSE revenue
      yield == ((w.k[i].if_vault * Settings.max_apr) \div 100) \div atLeast(Year \div Settings.period, 1)
  IN  IF w.f[i].user > 0 THEN atMost(available \div 10, yield) ELSE available

protocol_cut(w, i, t) == (t * (w.k[i].factor - Settings.user_factor)) \div w.k[i].factor

\* The protocol's part of the revenue buys it shares at the price before.  The fund
\* is not rebased first.
settle_revenue_to_insurance_fund(w, i, check) ==
  LET settle(v) ==
        LET t == revenue_to_settle(v, i)
            cut == IF v.k[i].factor > Settings.user_factor
                     THEN vault_amount_to_if_shares(protocol_cut(v, i, t), v.f[i].total, v.k[i].if_vault) ELSE {0}
            after == {j \in update_revenue_pool_balances(t, "Borrow", v.k[i]) : check => t # 0}
        IN  {[v EXCEPT !.f[i].total = @ + n, !.f[i].last_settle = v.now, !.k[i] = j, !.paid = t] : n \in cut, j \in after}
      fresh == {[w EXCEPT !.k[i] = j] : j \in update_spot_market_cumulative_interest(w.k[i], w.now)}
  IN  IF Settings.user_factor > w.k[i].factor THEN {}
      ELSE Then({v \in fresh : validate_spot_market_vault_amount(v.k[i])}, settle)

\* Revenue moves from the market's vault to the fund's.
sent_to_fund(w, i) ==
  {[w EXCEPT !.k[i] = [j EXCEPT !.if_vault = @ + w.paid], !.paid = 0] : j \in send_from_program_vault(w.k[i], w.paid)}

attempt_settle_revenue_to_insurance_fund(w, i) ==
  IF Settings.period > 0 /\ on_the_hour_update(w.now, w.f[i].last_settle, Settings.period) = 0
    THEN Then(settle_revenue_to_insurance_fund(w, i, FALSE), LAMBDA v : sent_to_fund(v, i))
    ELSE {w}

(***************************************************************************)
(* What the fund pays for a market whose traders are owed more than its    *)
(* pool holds.                                                             *)
(***************************************************************************)
\* mutant: what earlier claims took is not counted
mut_insurance_withdraw(w) ==
  LET excess == IF Settings.max_imbalance > 0 THEN w.p.net - Settings.max_imbalance ELSE 0
  IN  atMost(atMost(excess, Settings.max_per_period - w.p.since), atLeast(0, w.k[0].if_vault - 1))

insurance_withdraw(w) ==
  LET excess == IF Settings.max_imbalance > 0 THEN w.p.net - Settings.max_imbalance ELSE 0
  IN  atMost(atMost(excess, Settings.max_per_period - w.p.since),
             atMost(Settings.max_insurance - w.p.settled, atLeast(0, w.k[0].if_vault - 1)))

\* The smallest of the excess, both allowances and the fund less one token.
resolve_perp_pnl_deficit(w) ==
  LET fresh == {[w EXCEPT !.k[0] = j] : j \in update_spot_market_cumulative_interest(w.k[0], w.now)}
      paid(v) ==
        LET x == insurance_withdraw(v)
        IN  IF x <= 0 THEN {}
            ELSE {[v EXCEPT !.p.tfmd = @ + x, !.p.since = @ + x, !.p.settled = @ + x, !.p.pnl_pool = r.b,
                            !.k[0] = r.k, !.paid = x] :
                    r \in update_spot_balances(x, "Deposit", v.k[0], v.p.pnl_pool, FALSE)}
  IN  IF w.p.tfmd >= 0 \/ token_amount(w.p.pnl_pool, w.k[0]) >= w.p.net_twap THEN {} ELSE Then(fresh, paid)

(***************************************************************************)
(* The rebalance: the protocol sells tokens of fund 0 for fund 1's.        *)
(***************************************************************************)
handle_if_begin_swap(w) ==
  LET fresh(i) == apply_rebase_to_insurance_fund(w.k[i].if_vault, w.f[i])
      epoch == IF w.now > w.rc.epoch_start + Settings.epoch
                 THEN [w.rc EXCEPT !.epoch_start = w.now, !.epoch_in = 0] ELSE w.rc
  IN  [w EXCEPT !.rc = epoch, !.f = [i \in Tokens |-> fresh(i)]]

\* What the config allows to be sold, and to be paid for the token bought.
rebalance_allowed(rcfg, in, out) ==
  /\ rcfg.epoch_in <= Settings.epoch_max_in
  /\ rcfg.current_in <= Settings.total_in
  /\ Settings.out_price <= Settings.out_twap
  /\ (in * Precision) \div out <= Settings.out_price + Settings.out_price \div (10000 \div atLeast(Settings.slippage, 1))

\* in left fund 0 and out came to fund 1: the protocol's shares pay and are paid.
\* in_shares is strictly less than the protocol's.
handle_if_end_swap(w, in, out) ==
  LET vault(i) == w.k[i].if_vault
      before == [i \in Tokens |-> IF i = 0 THEN vault(0) + in ELSE vault(1) - out]
      price(v, i, amount) == calculate_share_price(v.f[i].total, amount)
      traded(x, y) ==
        [w EXCEPT !.f[0].total = @ - x, !.f[1].total = @ + y,
                  !.rc = [@ EXCEPT !.current_in = @ + in, !.epoch_in = @ + in, !.current_out = @ + out]]
      results == {traded(x, y) : x \in {n \in vault_amount_to_if_shares(in, w.f[0].total, before[0]) :
                                          n < get_protocol_shares(w.f[0])},
                                 y \in vault_amount_to_if_shares(out, w.f[1].total, before[1])}
  IN  {v \in results :
         /\ \A i \in Tokens : price_kept(price(w, i, before[i]), price(v, i, vault(i)))
         /\ rebalance_allowed(v.rc, in, out)}

max_transfer_amount(rcfg) == rcfg.current_out - rcfg.transferred

\* What was bought goes on to the revenue pool.  The shares it costs are rounded
\* down, to none for a small amount.
transfer_protocol_if_shares_to_revenue_pool(w, amount) ==
  LET fund == apply_rebase_to_insurance_fund(w.k[1].if_vault, w.f[1])
      shares == {n \in vault_amount_to_if_shares(amount, fund.total, w.k[1].if_vault) : n <= get_protocol_shares(fund)}
  IN  IF amount > max_transfer_amount(w.rc) THEN {}
      ELSE {[w EXCEPT !.f[1] = [fund EXCEPT !.total = @ - n], !.k[1] = j, !.rc.transferred = @ + amount] :
              n \in shares, j \in update_revenue_pool_balances(amount, "Deposit", w.k[1])}

(***************************************************************************)
(* Who signs.                                                              *)
(***************************************************************************)
InitializeInsuranceFundStake(w, s, who) == who = s /\ ~w.st[s].open

AddInsuranceFundStake(w, s, who) == who = s /\ w.st[s].open

RequestRemoveInsuranceFundStake(w, s, who) == who = s /\ w.st[s].open

RemoveInsuranceFundStake(w, s, who) == who = s /\ w.st[s].open

TransferProtocolIfShares(w, s, who) == who \in Settings.whitelisted /\ w.st[s].open

InsuranceFundSwap(who) == who \in {RebalanceWallet, Admin}

TransferProtocolIfSharesToRevenuePool(who) == who \in {RebalanceWallet, Admin}

\* mutant: the stake need not have been opened
mut_DepositIntoInsuranceFundStake(w, s, who) == who = Admin

DepositIntoInsuranceFundStake(w, s, who) == who = Admin /\ w.st[s].open

AdminWithdrawFromInsuranceFundVault(who) == who = Admin

(***************************************************************************)
(* The handlers.                                                           *)
(***************************************************************************)
handle_initialize_insurance_fund_stake(w, s, who) ==
  IF ~InitializeInsuranceFundStake(w, s, who) \/ "Init" \in w.f[0].paused THEN {}
  ELSE {[w EXCEPT !.st[s] = [open |-> TRUE, shares |-> 0, base |-> 0, req |-> 0, value |-> 0, ts |-> 0, staked |-> 0]]}

\* Revenue is settled first, so that it belongs to those who are already in.
stake_in(w, s, amount) ==
  LET open == "Add" \notin w.f[0].paused /\ w.k[0].status # "Initialized" /\ w.st[s].req = 0 /\ w.st[s].value = 0
      settled == {v \in attempt_settle_revenue_to_insurance_fund(w, 0) : validate_spot_market_vault_amount(v.k[0])}
  IN  IF amount = 0 \/ ~open THEN {}
      ELSE {[v EXCEPT !.k[0].if_vault = @ + amount] :
              v \in Then(settled, LAMBDA x : add_insurance_fund_stake(x, s, amount))}

handle_add_insurance_fund_stake(w, s, amount, who) ==
  IF AddInsuranceFundStake(w, s, who) THEN stake_in(w, s, amount) ELSE {}

handle_deposit_into_insurance_fund_stake(w, s, amount, who) ==
  IF DepositIntoInsuranceFundStake(w, s, who) THEN stake_in(w, s, amount) ELSE {}

\* The shares are computed and compared before the fund is rebased.
handle_request_remove_insurance_fund_stake(w, s, amount, who) ==
  LET shares == {n \in vault_amount_to_if_shares(amount, w.f[0].total, w.k[0].if_vault) :
                   n > 0 /\ \E has \in checked_if_shares(w.st[s], w.f[0]) : n <= has}
  IN  IF ~RequestRemoveInsuranceFundStake(w, s, who) \/ "RequestRemove" \in w.f[0].paused \/ w.st[s].req # 0 THEN {}
      ELSE Then(shares, LAMBDA n : request_remove_insurance_fund_stake(w, s, n))

\* A request that a rebase made zero shares of can be neither cancelled nor removed.
handle_cancel_request_remove_insurance_fund_stake(w, s, who) ==
  IF RequestRemoveInsuranceFundStake(w, s, who) /\ w.st[s].req # 0
    THEN cancel_request_remove_insurance_fund_stake(w, s) ELSE {}

\* One token stays in the vault.
handle_remove_insurance_fund_stake(w, s, who) ==
  LET open == "Remove" \notin w.f[0].paused /\ is_healthy_utilization(w.k[0])
      sent(v) == {x \in {[v EXCEPT !.k[0].if_vault = @ - v.paid]} :
                    x.k[0].if_vault > 0 /\ token_amount(x.k[0].revenue, x.k[0]) <= deposits(x.k[0])}
  IN  IF RemoveInsuranceFundStake(w, s, who) /\ open THEN Then(remove_insurance_fund_stake(w, s), sent) ELSE {}

handle_transfer_protocol_if_shares(w, s, n, who) ==
  LET t == update_epoch(w.tc, w.now)
  IN  IF ~TransferProtocolIfShares(w, s, who) \/ ~validate_transfer(t, n) THEN {}
      ELSE transfer_protocol_insurance_fund_stake([w EXCEPT !.tc = [t EXCEPT !.sent = @ + n]], s, n)

\* The end of the swap is the transaction's next and last instruction of this
\* program, with the same accounts; those after it write nothing.
found_end == EndsMatch

\* Nothing of this program runs between a swap's begin and its end, in the same
\* transaction: in leaves fund 0, residual of it comes back, out comes to fund 1.
handle_begin_insurance_fund_swap(w, in, who) ==
  IF InsuranceFundSwap(who) /\ in # 0 /\ found_end /\ in <= w.k[0].if_vault
    THEN {[handle_if_begin_swap(w) EXCEPT !.k[0].if_vault = @ - in]} ELSE {}

handle_end_insurance_fund_swap(w, in, residual, out) ==
  IF residual > in \/ out = 0 THEN {}
  ELSE handle_if_end_swap([w EXCEPT !.k[0].if_vault = @ + residual, !.k[1].if_vault = @ + out], in - residual, out)

handle_transfer_protocol_if_shares_to_revenue_pool(w, amount, who) ==
  LET moved(v) == [v EXCEPT !.k[1].if_vault = @ - amount, !.k[1].vault = @ + amount]
  IN  IF ~TransferProtocolIfSharesToRevenuePool(who) \/ amount > w.k[1].if_vault THEN {}
      ELSE {v \in {moved(x) : x \in transfer_protocol_if_shares_to_revenue_pool(w, amount)} :
              validate_spot_market_vault_amount(v.k[1])}

\* At least one share stays the protocol's.
handle_admin_withdraw_from_insurance_fund_vault(w, amount, who) ==
  LET fund == apply_rebase_to_insurance_fund(w.k[0].if_vault, w.f[0])
      vault == w.k[0].if_vault
      shares == {n \in vault_amount_to_if_shares(amount, fund.total, vault) : n > 0 /\ n < get_protocol_shares(fund)}
      kept(n) == price_kept(calculate_share_price(fund.total, vault), calculate_share_price(fund.total - n, vault - amount))
  IN  IF ~AdminWithdrawFromInsuranceFundVault(who) \/ amount > vault THEN {}
      ELSE {[w EXCEPT !.f[0] = [fund EXCEPT !.total = @ - n], !.k[0].if_vault = @ - amount] : n \in {x \in shares : kept(x)}}

handle_settle_revenue_to_insurance_fund(w, i) ==
  IF Settings.period = 0 \/ on_the_hour_update(w.now, w.f[i].last_settle, Settings.period) # 0 THEN {}
  ELSE {v \in Then(settle_revenue_to_insurance_fund(w, i, TRUE), LAMBDA x : sent_to_fund(x, i)) :
          validate_spot_market_vault_amount(v.k[i])}

\* The fund's vault must stay above what it pays.
handle_resolve_perp_pnl_deficit(w) ==
  LET settled == {v \in attempt_settle_revenue_to_insurance_fund(w, 0) : validate_spot_market_vault_amount(v.k[0])}
      paid(v) == IF v.paid >= v.k[0].if_vault THEN {}
                 ELSE {[v EXCEPT !.k[0] = [@ EXCEPT !.if_vault = @ - v.paid, !.vault = @ + v.paid]]}
  IN  IF w.p.in_settlement THEN {} ELSE Then(Then(settled, resolve_perp_pnl_deficit), paid)

handle_update_spot_market_cumulative_interest(w, i) ==
  {v \in {[w EXCEPT !.k[i] = j] : j \in update_spot_market_cumulative_interest(w.k[i], w.now)} :
     validate_spot_market_vault_amount(v.k[i])}

\* Anyone refreshes what an owner is recorded to have staked.
handle_update_user_quote_asset_insurance_stake(w, s) ==
  IF w.st[s].open THEN update_user_stats_if_stake_amount(w, s, 0) ELSE {}

(***************************************************************************)
(* The specification.                                                      *)
(***************************************************************************)
Init ==
  /\ \E w \in Openings : k = w.k /\ f = w.f /\ st = w.st /\ p = w.p /\ rc = w.rc /\ tc = w.tc
  /\ now = 0 /\ ops = 0

Becomes(worlds) ==
  /\ ops < MaxOps /\ ops' = ops + 1
  /\ \E w \in worlds : k' = w.k /\ f' = w.f /\ st' = w.st /\ p' = w.p /\ rc' = w.rc /\ tc' = w.tc
  /\ UNCHANGED now

InitializeStake(s, who) == Becomes(handle_initialize_insurance_fund_stake(World, s, who))

Add(s, amount, who) == Becomes(handle_add_insurance_fund_stake(World, s, amount, who))

DepositInto(s, amount, who) == Becomes(handle_deposit_into_insurance_fund_stake(World, s, amount, who))

RequestRemove(s, amount, who) == Becomes(handle_request_remove_insurance_fund_stake(World, s, amount, who))

Cancel(s, who) == Becomes(handle_cancel_request_remove_insurance_fund_stake(World, s, who))

RemoveStake(s, who) == Becomes(handle_remove_insurance_fund_stake(World, s, who))

TransferShares(s, n, who) == Becomes(handle_transfer_protocol_if_shares(World, s, n, who))

Swap(in, residual, out, who) ==
  Becomes(Then(handle_begin_insurance_fund_swap(World, in, who),
               LAMBDA w : handle_end_insurance_fund_swap(w, in, residual, out)))

ToRevenuePool(amount, who) == Becomes(handle_transfer_protocol_if_shares_to_revenue_pool(World, amount, who))

AdminWithdraw(amount, who) == Becomes(handle_admin_withdraw_from_insurance_fund_vault(World, amount, who))

SettleRevenue(i) == Becomes(handle_settle_revenue_to_insurance_fund(World, i))

ResolveDeficit == Becomes(handle_resolve_perp_pnl_deficit(World))

UpdateInterest(i) == Becomes(handle_update_spot_market_cumulative_interest(World, i))

UpdateStaked(s) == Becomes(handle_update_user_quote_asset_insurance_stake(World, s))

Tick == now < MaxNow /\ now' = now + 1 /\ UNCHANGED <<k, f, st, p, rc, tc, ops>>

Next ==
  \/ \E s \in Stakers, who \in Signers :
       \/ InitializeStake(s, who)
       \/ \E amount \in Amounts :
            Add(s, amount, who) \/ DepositInto(s, amount, who) \/ RequestRemove(s, amount, who) \/ TransferShares(s, amount, who)
       \/ Cancel(s, who)
       \/ RemoveStake(s, who)
  \/ \E amount \in Amounts, who \in Signers :
       \/ \E residual \in {0, 1}, out \in Amounts : Swap(amount, residual, out, who)
       \/ ToRevenuePool(amount, who)
       \/ AdminWithdraw(amount, who)
  \/ \E i \in Tokens : SettleRevenue(i) \/ UpdateInterest(i)
  \/ ResolveDeficit
  \/ \E s \in Stakers : UpdateStaked(s)
  \/ Tick

Spec == Init /\ [][Next]_vars

(***************************************************************************)
(* Properties.                                                             *)
(***************************************************************************)
\* TypeOK: shares, amounts and vaults are unsigned, a stake's base is not past its
\* fund's, and a stake that was never opened is empty.
TypeOK ==
  /\ \A i \in Tokens :
       /\ {k[i].dep, k[i].bor, k[i].cdi, k[i].cbi, k[i].vault, k[i].if_vault} \subseteq Nat
       /\ k[i].revenue.bal \in Nat /\ k[i].revenue.type = "Deposit"
       /\ {f[i].total, f[i].user, f[i].base} \subseteq Nat
  /\ \A s \in Stakers :
       /\ {st[s].shares, st[s].base, st[s].req, st[s].value, st[s].ts, st[s].staked} \subseteq Nat
       /\ st[s].base <= f[0].base /\ (~st[s].open => st[s].shares = 0)
  /\ p.pnl_pool.type = "Deposit" /\ now \in 0..MaxNow /\ ops \in 0..MaxOps

StakeShares(s) == st[s].shares \div pow10[f[0].base - st[s].base]

\* The users' shares of the fund are those of the stakes, but for what a rebase
\* rounds away of each, and never more than all shares; a request is for shares
\* its stake still has (controller/insurance.rs).
SharesExact ==
  LET sum == MapThenSumSet(StakeShares, Stakers)
  IN  /\ sum <= f[0].user /\ (f[0].base = 0 => sum = f[0].user)
      /\ \A i \in Tokens : f[i].user <= f[i].total
      /\ \A s \in Stakers : st[s].req <= st[s].shares

\* A pending request can be cancelled in every state it may have come to, unless a
\* rebase has left no share of it (math/insurance.rs calculate_if_shares_lost).
RequestsCancel ==
  \A s \in Stakers :
    st[s].open /\ st[s].req \div pow10[f[0].base - st[s].base] > 0
      /\ apply_rebase_to_insurance_fund(k[0].if_vault, f[0]) = f[0] =>
        handle_cancel_request_remove_insurance_fund_stake(World, s, s) # {}

\* The fund pays a market no more than its allowance over all its claims
\* (controller/insurance.rs:913 quote_settled_insurance).
ClaimsBounded == p.settled <= Settings.max_insurance /\ p.since <= Settings.max_per_period

\* The pools and the traders' deposits are what each market says is deposited, and
\* its vault holds what is not lent, whatever the funds exchange with it.
VaultCovers ==
  \A i \in Tokens :
    /\ k[i].dep = Settings.held[i] + k[i].revenue.bal + (IF i = 0 THEN p.pnl_pool.bal ELSE 0)
    /\ k[i].vault + Settings.rounding >= deposits(k[i]) - borrows(k[i])

\* A share of fund 0 is worth no less after any step but a claim; a withdrawal of
\* the protocol's may cost it a part of one share's price, and a rebase counts in new
\* shares (math/insurance.rs).
SharePriceKept ==
  [][LET v == k[0].if_vault
         n == f[0].total
         kept == k'[0].if_vault * n + (IF f'[0].user = f[0].user THEN v ELSE 0) >= v * f'[0].total
     IN  f'[0].base = f[0].base /\ n > 0 /\ f'[0].total > 0 => kept \/ p' # p]_vars

\* A request is worth what it was when it was made: whoever closes one, by taking
\* it out or by calling it off, has nothing of what the fund earned meanwhile, but for
\* the token its value was rounded down by
\* (controller/insurance.rs cancel_, remove_insurance_fund_stake).
RequestEarnsNothing ==
  [][\A s \in Stakers :
       LET left == st'[s].shares - (st[s].shares - st[s].req)
           paid == k[0].if_vault - k'[0].if_vault
       IN  st[s].req > 0 /\ st'[s].req = 0 /\ st'[s].base = st[s].base =>
             paid * f'[0].total + left * k'[0].if_vault < (st[s].value + 1) * f'[0].total \/ f'[0].total = 0]_vars

\* Calling a request off costs no more than those earnings and a share's rounding:
\* what is left of it is worth what was asked for, or all of it is left.  A request
\* for every share of the fund is left out: calling that off gives all to the
\* protocol (math/insurance.rs:99, no shares remain to set the price).
CancelKeepsValue ==
  [][\A s \in Stakers :
       LET left == st'[s].shares - (st[s].shares - st[s].req)
           worth == (st[s].req * k[0].if_vault) \div f[0].total
       IN  st[s].req > 0 /\ st'[s].req = 0 /\ st'[s].base = st[s].base /\ k' = k
             /\ st[s].req < f[0].total /\ worth > 0 =>
             left = st[s].req \/ (left + 1) * k'[0].if_vault >= st[s].value * (f'[0].total + 1)]_vars

\* Shares, pools and vaults agree with each other and with their owners', and a
\* request that is pending can be called off.
FundExact == TypeOK /\ SharesExact /\ RequestsCancel /\ ClaimsBounded /\ VaultCovers

\* No staker gains by another, by a request or by calling it off.
StakersFair == SharePriceKept /\ RequestEarnsNothing /\ CancelKeepsValue
=============================================================================
