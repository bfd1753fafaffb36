----------------------------- MODULE DriftSpot -----------------------------
(***************************************************************************)
(* The accounts of programs/drift and the tokens they hold (the deposit,   *)
(* withdraw, transfer and swap handlers of instructions/user.rs, isolated  *)
(* collateral in controller/isolated_position.rs, and the settlement of    *)
(* profits in controller/pnl.rs and instructions/keeper.rs).               *)
(*                                                                         *)
(* Markets 0 and 1 belong to pool 0, markets 2 and 3 to pool 1; 0 and 2    *)
(* trade the same mint, and so do 1 and 3.  Market 0 is the quote token.   *)
(* An account holds one balance in each market, its open spot orders in    *)
(* market 1 (bids, asks), and a position in the perp market with, if it    *)
(* is isolated, collateral of its own (ib).  cum and net are what it put   *)
(* in: cumulative_deposits of a market, total_deposits - total_withdraws   *)
(* of the account.                                                         *)
(*                                                                         *)
(* A handler maps a world to the set of worlds it may leave, empty for an  *)
(* error.  Oracles are valid and strict prices are the prices; rates of    *)
(* funding stand still (DriftOrders moves them).                           *)
(***************************************************************************)
EXTENDS DriftInterest

CONSTANTS
  Accounts,    \* the users
  Settings,    \* the record of the exchange's settings
  Openings,    \* the worlds to start from
  Amounts,     \* what is moved
  EndsMatch,   \* a swap's begin finds its end: the source compares the end with
               \* a placeholder of eight zero bytes, where its id belongs
  Prices,      \* of the perp's base
  MaxNow, MaxOps

ASSUME SpotAssumption == EndsMatch \in BOOLEAN /\ Prices \subseteq Nat /\ Amounts \subseteq Nat

VARIABLES k, u, p, px, now, ops

vars == <<k, u, p, px, now, ops>>

Markets == 0..3
Quote == 0
mint(m) == m % 2
price(m) == Settings.price[mint(m)]

World == [k |-> k, u |-> u, p |-> p, px |-> px, now |-> now]

Then(worlds, step(_)) == UNION {step(w) : w \in worlds}
If(test, worlds) == IF test THEN worlds ELSE {}

abs(x) == IF x < 0 THEN -x ELSE x
\* Signed division drops the fraction.
part(x, y) == IF x < 0 THEN -((-x) \div y) ELSE x \div y

(***************************************************************************)
(* Margin.                                                                 *)
(***************************************************************************)
weighted_token_value(m, value, t) ==
  part(value * (IF value > 0 THEN Settings.asset[mint(m)][t] ELSE Settings.liability[mint(m)][t]), 100)

\* All of one side's open orders filled: they bring orders, and value is held.
simulation(weighted, orders, value) ==
  [weighted |-> weighted, orders |-> orders, value |-> value, free |-> weighted + orders]

simulate_side(m, value, orders, t) == simulation(weighted_token_value(m, value, t), orders, value)

worse(bid, ask) == IF ask.free <= bid.free THEN ask ELSE bid

get_worst_case_fill_simulation(m, amount, bids, asks, t) ==
  worse(simulate_side(m, (amount + bids) * price(m), -bids * price(m), t),
        simulate_side(m, (amount + asks) * price(m), -asks * price(m), t))

open_bids(a, m) == IF m = 1 THEN a.bids ELSE 0
open_asks(a, m) == IF m = 1 THEN a.asks ELSE 0

\* One order makes all of a side.
open_orders(a, m) == Cardinality({x \in {open_bids(a, m), open_asks(a, m)} : x # 0})

margin_requirement_for_open_orders(a, m) == open_orders(a, m) * Settings.order_margin

spot_available(a, m) == a.spot[m].bal = 0 /\ open_bids(a, m) = 0 /\ open_asks(a, m) = 0

is_open_position(x) == x.base # 0
has_unsettled_pnl(x) == x.base = 0 /\ x.quote # 0

\* A position that is being liquidated keeps its place.
is_available(x) == x.base = 0 /\ x.quote = 0 /\ x.ib.bal = 0 /\ ~x.liq

can_transfer_isolated_position_deposit(x) == x.iso /\ x.ib.bal > 0 /\ x.base = 0 /\ x.quote = 0

get_unrealized_pnl(x, at) == x.base * at + x.quote

quote_worth(value) == simulation(value, 0, value)

\* The quote token counts at its value, whatever weights its market has.
worth(w, a, m, t) ==
  LET amount == get_signed_token_amount(w.u[a].spot[m], w.k[m])
  IN  IF m = Quote THEN quote_worth(amount * price(Quote))
      ELSE get_worst_case_fill_simulation(m, amount, open_bids(w.u[a], m), open_asks(w.u[a], m), t)

held(w, a) == {m \in Markets : ~spot_available(w.u[a], m)}

\* mutant: a balance of any pool counts
mut_pools_valid(w, a) == is_available(w.u[a].pos) \/ w.p.pool = w.u[a].pool

\* A balance or a position of another pool's market is an error wherever margin is
\* computed, but for a deposit of the quote token in pool 1, which counts for nothing.
pools_valid(w, a) ==
  /\ \A m \in held(w, a) : \/ w.k[m].pool = w.u[a].pool
                           \/ w.u[a].pool = 1 /\ m = Quote /\ w.u[a].spot[m].type = "Deposit"
  /\ is_available(w.u[a].pos) \/ w.p.pool = w.u[a].pool

counted(w, a) == {m \in held(w, a) : w.k[m].pool = w.u[a].pool}

total(f(_), S) == FoldSet(LAMBDA s, acc : f(s) + acc, 0, S)

\* Collateral, what it must cover, the buffer a liquidation asks for beyond that, and
\* the number of liabilities.
NoMargin == [collateral |-> 0, requirement |-> 0, buffer |-> 0, liabilities |-> 0]

add_margin(c, d) ==
  [collateral |-> c.collateral + d.collateral, requirement |-> c.requirement + d.requirement,
   buffer |-> c.buffer + d.buffer, liabilities |-> c.liabilities + d.liabilities]

buffered(value) == (value * Settings.buffer) \div 100

\* What one market adds, orders being what its open orders cost by their number; one
\* that holds nothing but orders is a liability.
spot_margin(s, orders) ==
  [collateral |-> atLeast(s.weighted, 0) + atLeast(s.orders, 0),
   requirement |-> orders + atLeast(-s.weighted, 0) + atLeast(-s.orders, 0),
   buffer |-> buffered(atLeast(-s.value, 0)) + buffered(atLeast(-s.orders, 0)),
   liabilities |-> IF s.value <= 0 THEN 1 ELSE 0]

perp_owes(x) == x.base # 0 \/ x.quote < 0

\* A profit counts in part, a loss in full.
weighted_pnl(pnl, t) == IF pnl > 0 THEN (pnl * Settings.pnl_weight[t]) \div 100 ELSE pnl

perp_of(x, pnl, liability, ratio) ==
  [collateral |-> pnl, requirement |-> (liability * ratio) \div 100,
   buffer |-> buffered(liability) + buffered(atLeast(-pnl, 0)), liabilities |-> IF perp_owes(x) THEN 1 ELSE 0]

\* Once the market is settled its price is the expiry's and nothing is required.
perp_margin(w, a, t) ==
  LET over == w.p.status = "Settlement"
  IN  perp_of(w.u[a].pos, weighted_pnl(get_unrealized_pnl(w.u[a].pos, IF over THEN w.p.expiry_price ELSE w.px), t),
              abs(w.u[a].pos.base) * w.px, IF over THEN 0 ELSE Settings.ratio[t])

\* Cross margin: every spot balance, and the position when it is not isolated.
cross_margin(w, a, t) ==
  FoldSet(LAMBDA m, c : add_margin(c, spot_margin(worth(w, a, m, t), margin_requirement_for_open_orders(w.u[a], m))),
          IF w.u[a].pos.iso THEN NoMargin ELSE perp_margin(w, a, t), counted(w, a))

isolated_margin(w, a, t) ==
  IF w.u[a].pos.iso
    THEN add_margin(perp_margin(w, a, t), [NoMargin EXCEPT !.collateral = token_amount(w.u[a].pos.ib, w.k[Quote])])
    ELSE NoMargin

free(c) == c.collateral - c.requirement

\* A deposit worth no token has no balance either.
no_dust(w, a, m) == token_amount(w.u[a].spot[m], w.k[m]) = 0 => w.u[a].spot[m].bal = 0

\* Computing the margin fails on a balance of another pool, on dust, and where the
\* worst fill of the open orders would leave no token of a balance.
margin_computed(w, a, t) ==
  /\ pools_valid(w, a)
  /\ no_dust(w, a, Quote)
  /\ \A m \in counted(w, a) \ {Quote} : worth(w, a, m, t).value = 0 => w.u[a].spot[m].bal = 0

\* validate_any_isolated_tier_requirements: a liability of the isolated tier stands
\* alone, but for a debt of the quote token beside a perp's.
isolated_tiers_hold(w, x, owes) ==
  /\ perp_owes(x.pos) /\ w.p.tier = "Isolated" => ~x.trading /\ owes \subseteq {Quote}
  /\ (\E m \in owes : w.k[m].tier = "Isolated" /\ m # Quote) => ~perp_owes(x.pos) /\ Cardinality(owes) = 1

isolated_tiers_valid(w, a, t) ==
  w.u[a].reduce_only \/ isolated_tiers_hold(w, w.u[a], {m \in counted(w, a) : worth(w, a, m, t).value <= 0})

\* Both margins are computed on every call; cross and isolated may ask for
\* different requirements.
meets_margin(w, a, cross, isolated) ==
  /\ margin_computed(w, a, cross)
  /\ isolated_tiers_valid(w, a, cross)
  /\ free(cross_margin(w, a, cross)) >= 0
  /\ free(isolated_margin(w, a, isolated)) >= 0

meets_withdraw_margin_requirement(w, a, t) == meets_margin(w, a, t, t)

\* Of a margin that can be computed.
meets_maintenance_margin_requirement(w, a) ==
  /\ free(cross_margin(w, a, "Maintenance")) >= 0
  /\ free(isolated_margin(w, a, "Maintenance")) >= 0

\* Without a buffer nothing is required either.
below_buffer(c) == c.collateral < IF Settings.buffer = 0 THEN 0 ELSE c.requirement + c.buffer

is_cross_margin_being_liquidated(w, a) == below_buffer(cross_margin(w, a, "Maintenance"))

is_isolated_margin_being_liquidated(w, a) == below_buffer(isolated_margin(w, a, "Maintenance"))

\* With margin trading no isolated perp may be held; without it open orders must
\* not be able to borrow.
validate_spot_margin_trading(w, a) ==
  LET x == w.u[a]
  IN  IF x.trading THEN is_available(x.pos) \/ w.p.tier # "Isolated"
      ELSE /\ x.asks < 0 => get_signed_token_amount(x.spot[1], w.k[1]) + x.asks >= 0
           /\ x.bids > 0 => get_signed_token_amount(x.spot[Quote], w.k[Quote]) - x.bids * price(1) >= 0

\* One less than the free collateral allows; without liabilities all of it.
withdrawable(c, weight, m, owes, there) ==
  IF weight = 0 THEN NoLimit
  ELSE IF c.liabilities + owes = 0 THEN there
  ELSE ((atLeast(0, free(c) - 1) * 100) \div weight) \div price(m)

calculate_max_withdrawable_amount(w, a, m) ==
  If(margin_computed(w, a, "Initial"),
    {withdrawable(cross_margin(w, a, "Initial"), Settings.asset[mint(m)]["Initial"], m,
                  isolated_margin(w, a, "Initial").liabilities, token_amount(w.u[a].spot[m], w.k[m]))})

(***************************************************************************)
(* Changes of one balance.                                                 *)
(***************************************************************************)
interest(w, m) == {[w EXCEPT !.k[m] = j] : j \in update_spot_market_cumulative_interest(w.k[m], w.now)}

update_spot_balances_and_cumulative_deposits(w, a, m, amount, dir, leaving) ==
  {[w EXCEPT !.k[m] = r.k, !.u[a].spot[m] = r.b,
             !.u[a].cum[m] = IF dir = "Deposit" THEN @ + amount ELSE @ - amount] :
     r \in update_spot_balances(amount, dir, w.k[m], w.u[a].spot[m], leaving)}

\* mutant: a protected token may be borrowed
mut_with_limits(w, a, m, amount, dir) ==
  {v \in update_spot_balances_and_cumulative_deposits(w, a, m, amount, dir, TRUE) :
     /\ check_withdraw_limits(v.k[m], v.u[a], v.u[a].spot[m], amount)
     /\ v.k[m].status \in {"Active", "ReduceOnly", "Settlement"}
     /\ "Withdraw" \notin v.k[m].paused}

\* update_spot_balances_and_cumulative_deposits_with_limits; a deposit made this way
\* is held to the limits too.
with_limits(w, a, m, amount, dir) ==
  {v \in update_spot_balances_and_cumulative_deposits(w, a, m, amount, dir, TRUE) :
     /\ check_withdraw_limits(v.k[m], v.u[a], v.u[a].spot[m], amount)
     /\ v.k[m].status \in {"Active", "ReduceOnly", "Settlement"}
     /\ "Withdraw" \notin v.k[m].paused
     /\ ~(v.k[m].tier = "Protected" /\ v.u[a].spot[m].type = "Borrow")}

increment_total_deposits(w, a, m, amount) == [w EXCEPT !.u[a].net = @ + amount * price(m)]
increment_total_withdraws(w, a, m, amount) == [w EXCEPT !.u[a].net = @ - amount * price(m)]

is_bankrupt(x) == x.bankrupt

exit_cross_margin_liquidation(w, a) == [w EXCEPT !.u[a].liq = FALSE]
exit_isolated_margin_liquidation(w, a) == [w EXCEPT !.u[a].pos.liq = FALSE]

\* Every withdrawal ends so: the account is healthy, so it leaves liquidation.
healthy_after(w, a, t) ==
  If(meets_withdraw_margin_requirement(w, a, t) /\ validate_spot_margin_trading(w, a),
     {exit_cross_margin_liquidation(w, a)})

send(w, m, amount) == {[w EXCEPT !.k[m] = j] : j \in send_from_program_vault(w.k[m], amount)}
receives(w, m, amount) == [w EXCEPT !.k[m] = receive(@, amount)]

vault_valid(w, m) == validate_spot_market_vault_amount(w.k[m])

(***************************************************************************)
(* Deposits and withdrawals.                                               *)
(***************************************************************************)
deposited(w, a, m, amount) ==
  {v \in update_spot_balances_and_cumulative_deposits(increment_total_deposits(w, a, m, amount), a, m, amount,
                                                      "Deposit", FALSE) :
     /\ no_dust(v, a, m)
     /\ v.u[a].spot[m].type = "Deposit" /\ v.u[a].spot[m].bal > 0 => v.k[m].status = "Active"}

\* mutant: a deposit ends a liquidation whatever it leaves
mut_exit_if_healthy(w, a) == {IF w.u[a].liq THEN exit_cross_margin_liquidation(w, a) ELSE w}

\* The margin is only looked at for an account in liquidation.
exit_if_healthy(w, a) ==
  IF ~w.u[a].liq THEN {w}
  ELSE If(margin_computed(w, a, "Maintenance"),
          {IF is_cross_margin_being_liquidated(w, a) THEN w ELSE exit_cross_margin_liquidation(w, a)})

\* reduce_only, or a market in that status, cuts a deposit to the debt.  A market whose
\* deposits are paused takes them all the same: only the exchange's pause is looked at.
handle_deposit(w, a, m, asked, reduce_only) ==
  LET ready == asked # 0 /\ ~is_bankrupt(w.u[a]) /\ w.u[a].pool = w.k[m].pool /\ w.k[m].status # "Initialized"
               /\ "Deposit" \notin Settings.paused
      amount(v) == IF v.u[a].spot[m].type = "Borrow" /\ (reduce_only \/ v.k[m].status = "ReduceOnly")
                     THEN atMost(token_amount(v.u[a].spot[m], v.k[m]), asked) ELSE asked
      paid_in(v, n) == {receives(x, m, n) : x \in Then(deposited(v, a, m, n), LAMBDA y : exit_if_healthy(y, a))}
      put(v) == paid_in(v, amount(v))
  IN  If(ready, {v \in Then(interest(w, m), put) : validate_max_token_deposits_and_borrows(v.k[m], FALSE)})

\* What a reduce-only withdrawal is cut to: it never borrows.
reduced_withdrawal(w, a, m, asked) ==
  IF w.u[a].spot[m].type # "Deposit" THEN {}
  ELSE {atMost(atMost(asked, most), token_amount(w.u[a].spot[m], w.k[m])) :
          most \in calculate_max_withdrawable_amount(w, a, m)}

\* No check that the market is of the account's pool: the margin makes it.
handle_withdraw(w, a, m, asked, reduce_only) ==
  LET amounts(v) == IF reduce_only \/ v.k[m].status = "ReduceOnly" THEN reduced_withdrawal(v, a, m, asked) ELSE {asked}
      take(v) == Then(amounts(v), LAMBDA n :
                   Then(with_limits(increment_total_withdraws(v, a, m, n), a, m, n, "Borrow"), LAMBDA x :
                     Then(healthy_after(x, a, "Initial"), LAMBDA y : send(y, m, n))))
      borrows_now(v) == v.u[a].spot[m].type = "Borrow"
  IN  If(~is_bankrupt(w.u[a]) /\ "Withdraw" \notin Settings.paused,
         {v \in Then(interest(w, m), take) :
            vault_valid(v, m) /\ validate_max_token_deposits_and_borrows(v.k[m], borrows_now(v))})

\* Between two accounts of one owner.  The receiver stays in liquidation.
handle_transfer_deposit(w, a, b, m, amount) ==
  LET ready == /\ ~is_bankrupt(w.u[a]) /\ ~is_bankrupt(w.u[b]) /\ a # b /\ w.u[a].owner = w.u[b].owner
               /\ w.u[a].pool = w.k[m].pool /\ w.u[b].pool = w.k[m].pool /\ Settings.paused \intersect {"Deposit", "Withdraw"} = {}
      out(v) == Then(with_limits(increment_total_withdraws(v, a, m, amount), a, m, amount, "Borrow"),
                     LAMBDA x : healthy_after(x, a, "Initial"))
      into(v) == {x \in update_spot_balances_and_cumulative_deposits(increment_total_deposits(v, b, m, amount), b, m,
                                                                     amount, "Deposit", FALSE) : no_dust(x, b, m)}
  IN  If(ready, {v \in Then(Then(interest(w, m), out), into) : vault_valid(v, m)})

\* Paid into the revenue pool by anybody, without interest first.
handle_deposit_into_spot_market_revenue_pool(w, m, amount) ==
  If(amount # 0 /\ "Deposit" \notin Settings.paused /\ w.k[m].status \notin {"Settlement", "Delisted"},
     {v \in {receives([w EXCEPT !.k[m] = j], m, amount) : j \in update_revenue_pool_balances(amount, "Deposit", w.k[m])} :
        vault_valid(v, m) /\ validate_max_token_deposits_and_borrows(v.k[m], FALSE)})

\* Anybody may pause a market whose vault is short.
handle_pause_spot_market_deposit_withdraw(w, m) ==
  If(~vault_valid(w, m), {[w EXCEPT !.k[m].paused = @ \union {"Deposit", "Withdraw"}]})

(***************************************************************************)
(* From pool to pool: a deposit and a debt of one owner move from an       *)
(* account of one pool to an account of the other.                         *)
(***************************************************************************)
All == -1   \* an amount left out: all there is

\* from and to are markets of one mint, df and dt of the deposit, bf and bt of the debt.
transfer_pools_ready(w, a, b, df, dt, bf, bt) ==
  /\ ~is_bankrupt(w.u[a]) /\ ~is_bankrupt(w.u[b]) /\ a # b /\ w.u[a].owner = w.u[b].owner
  /\ w.u[a].pool # w.u[b].pool
  /\ mint(df) = mint(dt) /\ mint(bf) = mint(bt)
  /\ w.k[df].pool = w.k[bf].pool /\ w.k[dt].pool = w.k[bt].pool /\ w.k[df].pool # w.k[dt].pool
  /\ Cardinality({df, dt, bf, bt}) = 4
  /\ Settings.paused \intersect {"Deposit", "Withdraw"} = {}

\* What moves of a balance that must be of that kind.
transfer_amount(w, a, m, type, asked) ==
  LET there == token_amount(w.u[a].spot[m], w.k[m])
      n == IF asked = All THEN there ELSE asked
  IN  IF asked = 0 THEN {0} ELSE IF w.u[a].spot[m].type # type \/ n > there THEN {} ELSE {n}

transfer_pools_deposit(w, a, b, df, dt, n) ==
  IF n = 0 THEN {w}
  ELSE Then(with_limits(increment_total_withdraws(w, a, df, n), a, df, n, "Borrow"),
            LAMBDA v : with_limits(increment_total_deposits(v, b, dt, n), b, dt, n, "Deposit"))

transfer_pools_borrow(w, a, b, bf, bt, n) ==
  IF n = 0 THEN {w}
  ELSE Then(with_limits(increment_total_deposits(w, a, bf, n), a, bf, n, "Deposit"),
            LAMBDA v : with_limits(increment_total_withdraws(v, b, bt, n), b, bt, n, "Borrow"))

\* mutant: the debt's tokens move the way the deposit's do
mut_transfer_pools_end(w, a, b, df, dt, bf, bt, d, n) ==
  LET moved(v) == Then(IF d > 0 THEN send(v, df, d) ELSE {v}, LAMBDA x :
                    Then(IF n > 0 THEN send(x, bf, n) ELSE {x}, LAMBDA y : {receives(receives(y, dt, d), bt, n)}))
  IN  {v \in Then(Then(healthy_after(w, a, "Initial"), LAMBDA x : healthy_after(x, b, "Initial")), moved) :
         \A m \in {df, dt, bt} : vault_valid(v, m)}

\* Both accounts healthy; the tokens follow the deposit one way, the debt the other.
transfer_pools_end(w, a, b, df, dt, bf, bt, d, n) ==
  LET moved(v) == Then(IF d > 0 THEN send(v, df, d) ELSE {v}, LAMBDA x :
                    Then(IF n > 0 THEN send(x, bt, n) ELSE {x}, LAMBDA y : {receives(receives(y, dt, d), bf, n)}))
  IN  {v \in Then(Then(healthy_after(w, a, "Initial"), LAMBDA x : healthy_after(x, b, "Initial")), moved) :
         \A m \in {df, dt, bf, bt} : vault_valid(v, m)}

handle_transfer_pools(w, a, b, df, dt, bf, bt, deposit, borrow) ==
  LET all_interest == Then(Then(Then(interest(w, df), LAMBDA v : interest(v, dt)), LAMBDA v : interest(v, bf)),
                           LAMBDA v : interest(v, bt))
  IN  If(transfer_pools_ready(w, a, b, df, dt, bf, bt),
         Then(all_interest, LAMBDA v :
           Then(transfer_amount(v, a, df, "Deposit", deposit), LAMBDA d :
             Then(transfer_pools_deposit(v, a, b, df, dt, d), LAMBDA x :
               Then(transfer_amount(x, a, bf, "Borrow", borrow), LAMBDA n :
                 Then(transfer_pools_borrow(x, a, b, bf, bt, n), LAMBDA y :
                   transfer_pools_end(y, a, b, df, dt, bf, bt, d, n)))))))

(***************************************************************************)
(* Collateral of an isolated position.                                     *)
(***************************************************************************)
\* A position that is not open becomes isolated; an open one must be.
force_get_isolated_perp_position(w, a) ==
  IF is_available(w.u[a].pos) THEN {[w EXCEPT !.u[a].pos = [@ EXCEPT !.iso = TRUE, !.entry = 0]]}
  ELSE If(w.u[a].pos.iso, {w})

isolated_balance(w, a, amount, dir, leaving) ==
  {[w EXCEPT !.k[Quote] = r.k, !.u[a].pos.ib = r.b] :
     r \in update_spot_balances(amount, dir, w.k[Quote], w.u[a].pos.ib, leaving)}

get_isolated_token_amount(w, a) == token_amount(w.u[a].pos.ib, w.k[Quote])

deposit_into_isolated_perp_position(w, a, amount) ==
  LET ready == amount # 0 /\ ~is_bankrupt(w.u[a]) /\ w.u[a].pool = w.k[Quote].pool /\ w.k[Quote].status # "Initialized"
      put(v) == {x \in isolated_balance(increment_total_deposits(v, a, Quote, amount), a, amount, "Deposit", FALSE) :
                   x.k[Quote].status = "Active"}
      exit(v) == IF ~v.u[a].pos.liq THEN {v}
                 ELSE If(margin_computed(v, a, "Maintenance"),
                         {IF is_isolated_margin_being_liquidated(v, a) THEN v ELSE exit_isolated_margin_liquidation(v, a)})
  IN  If(ready, Then(Then(Then(interest(w, Quote), LAMBDA v : force_get_isolated_perp_position(v, a)), put), exit))

handle_deposit_into_isolated_perp_position(w, a, amount) ==
  {v \in {receives(x, Quote, amount) : x \in deposit_into_isolated_perp_position(w, a, amount)} :
     /\ vault_valid(v, Quote) /\ validate_max_token_deposits_and_borrows(v.k[Quote], FALSE)
     /\ "Deposit" \notin Settings.paused}

get_tvl(t) == deposits(t) - borrows(t)

\* Only a fall of more than 10 is refused.  Both values and their difference are
\* unsigned: a rise is an error as well, and so are borrows beyond the deposits.
tvl_kept(before, after) == before >= 0 /\ after >= 0 /\ before - after \in 0..10

\* Cross collateral into the position: it may be borrowed, and no limit holds it back.
to_isolated(w, a, amount, signed) ==
  Then(update_spot_balances_and_cumulative_deposits(w, a, Quote, amount, "Borrow", FALSE), LAMBDA v :
    Then(force_get_isolated_perp_position(v, a), LAMBDA x :
      {exit_cross_margin_liquidation(y, a) :
         y \in {z \in isolated_balance(x, a, amount, "Deposit", FALSE) :
                  signed /\ meets_margin(z, a, "Initial", "Maintenance") /\ validate_spot_margin_trading(z, a)}}))

\* The position's collateral back to cross: unsigned (after a settlement) only if the
\* position is gone with it.
to_cross(w, a, asked, signed) ==
  Then(force_get_isolated_perp_position(w, a), LAMBDA v :
    LET there == get_isolated_token_amount(v, a)
        n == IF asked = All THEN there ELSE asked
    IN  If(n <= there,
           Then(update_spot_balances_and_cumulative_deposits(v, a, Quote, n, "Deposit", FALSE), LAMBDA x :
             {IF signed THEN exit_isolated_margin_liquidation(y, a) ELSE y :
                y \in {z \in isolated_balance(x, a, n, "Borrow", FALSE) :
                         IF signed THEN meets_margin(z, a, "Maintenance", "Initial") ELSE is_available(z.u[a].pos)}})))

\* into: the direction; All asks for all of the position's collateral.
transfer_isolated_perp_position_deposit(w, a, amount, into, signed) ==
  LET ready == amount # 0 /\ ~is_bankrupt(w.u[a]) /\ w.u[a].pool = w.k[Quote].pool /\ w.u[a].pool = w.p.pool
      move(v) == {x \in (IF into THEN to_isolated(v, a, amount, signed) ELSE to_cross(v, a, amount, signed)) :
                    tvl_kept(get_tvl(v.k[Quote]), get_tvl(x.k[Quote]))}
  IN  If(ready, Then(interest(w, Quote), move))

handle_transfer_isolated_perp_position_deposit(w, a, amount, into) ==
  {v \in transfer_isolated_perp_position_deposit(w, a, amount, into, TRUE) :
     vault_valid(v, Quote) /\ Settings.paused \intersect {"Deposit", "Withdraw"} = {}}

\* The limits on withdrawals do not apply.
withdraw_from_isolated_perp_position(w, a, amount) ==
  LET take(v) == If(amount <= get_isolated_token_amount(v, a), isolated_balance(v, a, amount, "Borrow", TRUE))
      ready == amount # 0 /\ ~is_bankrupt(w.u[a])
      out == Then({increment_total_withdraws(v, a, Quote, amount) : v \in interest(w, Quote)},
                  LAMBDA v : Then(force_get_isolated_perp_position(v, a), take))
  IN  If(ready, {exit_isolated_margin_liquidation(v, a) :
                   v \in {x \in out : meets_withdraw_margin_requirement(x, a, "Initial")}})

handle_withdraw_from_isolated_perp_position(w, a, amount) ==
  {v \in Then(withdraw_from_isolated_perp_position(w, a, amount), LAMBDA x : send(x, Quote, amount)) :
     /\ vault_valid(v, Quote) /\ validate_max_token_deposits_and_borrows(v.k[Quote], FALSE)
     /\ "Withdraw" \notin Settings.paused}

(***************************************************************************)
(* Swaps: begin lends the account tokens of one market, the transaction    *)
(* trades them elsewhere, end takes what is left of them and what they     *)
(* bought.  Nothing else happens in between.                               *)
(***************************************************************************)
fills_enabled(t) == t.status \in {"Active", "ReduceOnly"} /\ "Fill" \notin t.paused

\* An account in liquidation leaves it if it can, its isolated position when only that
\* is in liquidation; an account that cannot leave is an error.
validate_user_not_being_liquidated(w, a) ==
  LET x == w.u[a]
      leaves == IF x.liq
                  THEN If(~is_cross_margin_being_liquidated(w, a), {exit_cross_margin_liquidation(w, a)})
                  ELSE If(~is_isolated_margin_being_liquidated(w, a), {exit_isolated_margin_liquidation(w, a)})
  IN  IF x.liq \/ (x.pos.iso /\ x.pos.liq) THEN If(margin_computed(w, a, "Maintenance"), leaves) ELSE {w}

handle_begin_swap(w, a, in, out, amount) ==
  LET ready == /\ "Fill" \notin Settings.paused
               /\ ~is_bankrupt(w.u[a])
               /\ fills_enabled(w.k[in]) /\ fills_enabled(w.k[out])
               /\ in # out /\ amount # 0
  IN  If(ready, Then(validate_user_not_being_liquidated(w, a), LAMBDA v :
                  Then(interest(v, in), LAMBDA x : Then(interest(x, out), LAMBDA y : send(y, in, amount)))))

\* Of deposits and withdrawals both must be paused to pause the end of swaps.
exchange_open == "Fill" \notin Settings.paused /\ ~({"Deposit", "Withdraw"} \subseteq Settings.paused)

\* The instructions of the transaction up to the end.
found_end == EndsMatch

\* Margin trading is what lets a swap borrow.
in_side(w, a, in, amount_in, reduce_only) ==
  LET before == get_signed_token_amount(w.u[a].spot[in], w.k[in])
      reduced == before > 0 /\ before >= amount_in
      may == reduced \/ (w.k[in].status # "ReduceOnly" /\ reduce_only # "In" /\ w.u[a].trading /\ ~w.u[a].reduce_only)
  IN  If("Withdraw" \notin w.k[in].paused /\ may,
         {v \in with_limits(w, a, in, amount_in, "Borrow") : vault_valid(v, in)})

out_side(w, a, out, amount_out, reduce_only) ==
  LET before == get_signed_token_amount(w.u[a].spot[out], w.k[out])
      reduced == before < 0 /\ -before >= amount_out
      may == reduced \/ (w.k[out].status # "ReduceOnly" /\ reduce_only # "Out" /\ ~w.u[a].reduce_only)
  IN  If("Deposit" \notin w.k[out].paused /\ amount_out # 0 /\ may,
         {v \in update_spot_balances_and_cumulative_deposits(receives(w, out, amount_out), a, out, amount_out, "Deposit", FALSE) :
            vault_valid(v, out) /\ validate_max_token_deposits_and_borrows(v.k[out], FALSE)})

\* mutant: the lesser margin is always enough
mut_select_margin_type_for_swap(w, v, a, in, out) == "Maintenance"

\* A swap that improves the account only has to leave it above the lesser margin.
select_margin_type_for_swap(w, v, a, in, out) ==
  LET contribution(x, m) ==
        weighted_token_value(m, get_signed_token_amount(x.u[a].spot[m], x.k[m]) * price(m), "Initial")
  IN  IF contribution(v, in) + contribution(v, out) > contribution(w, in) + contribution(w, out)
        THEN "Maintenance" ELSE "Initial"

calculate_swap_price(amount_out, amount_in) == (amount_out * 100) \div amount_in

\* What was paid or got for a token against its price.
validate_price_bands_for_swap(in, out, amount_in, amount_out) ==
  LET got == amount_out * price(out)
      paid == amount_in * price(in)
  IN  abs(got - paid) * 100 <= Settings.band * paid

\* left is what the trade did not use of the loan.
handle_end_swap(w, a, in, out, loan, left, amount_out, limit, reduce_only) ==
  LET amount_in == loan - left
      swapped == Then(in_side(receives(w, in, left), a, in, amount_in, reduce_only),
                      LAMBDA v : out_side(v, a, out, amount_out, reduce_only))
      fair == amount_in > 0 /\ (limit > 0 => calculate_swap_price(amount_out, amount_in) >= limit)
              /\ validate_price_bands_for_swap(in, out, amount_in, amount_out)
  IN  If(exchange_open /\ loan # 0 /\ left <= loan /\ fair,
         {v \in swapped : meets_withdraw_margin_requirement(v, a, select_margin_type_for_swap(w, v, a, in, out))})

(***************************************************************************)
(* Settlement of profits and losses.                                       *)
(***************************************************************************)
get_claimable_pnl(x, at, excess) ==
  LET pnl == get_unrealized_pnl(x, at)
  IN  IF pnl > 0 THEN atMost(pnl, atLeast(x.quote - x.entry, 0) + atLeast(excess, 0)) ELSE pnl

calculate_net_user_pnl(w) == w.p.base * w.px + w.p.quote

tokens(w, b) == token_amount(b, w.k[Quote])

\* transfer_spot_balances from one of the market's pools to the other.
pool_to_pool(w, from, to, amount) ==
  {[w EXCEPT !.k[Quote] = r.k, !.p[from] = r.from, !.p[to] = r.to] :
     r \in transfer_spot_balances(amount, w.k[Quote], w.p[from], w.p[to])}

get_total_fee_lower_bound(w) == w.p.exchange_fee \div 2

\* What the revenue pool is owed of the fees, or pays to a market in need.
calculate_revenue_pool_transfer(w) ==
  LET surplus == w.p.tfmd - w.p.withdrawn - Settings.revenue_threshold
      in_pool == atLeast(0, tokens(w, w.p.fee_pool) - (Settings.revenue_threshold + w.p.social_loss))
      liq == atMost(w.p.liq_fee, w.p.settled_insurance + w.p.max_insurance)
      most == atLeast(0, atMost(w.p.since + w.p.max_withdraw, w.p.net_revenue))
      allowed == atMost(atMost(w.p.max_withdraw - w.p.since, tokens(w, w.k[Quote].revenue)), w.p.max_withdraw)
  IN  IF "SettleRevPool" \in w.p.paused \/ surplus = 0 THEN {0}
      ELSE IF surplus > 0
        THEN {atMost(atMost(atLeast(0, get_total_fee_lower_bound(w) + liq - w.p.withdrawn), in_pool), most)}
      ELSE If(w.p.since <= w.p.max_withdraw, {-atMost(-surplus, allowed)})

\* The fee pool is kept between a least and a most against the pnl pool.
balance_fee_pool(w) ==
  LET most == atLeast(0, w.p.tfmd + w.p.liq_fee - w.p.withdrawn)
      least == get_total_fee_lower_bound(w) + w.p.liq_fee - w.p.withdrawn
      over == tokens(w, w.p.fee_pool) - most
      filled(v) == LET short == atMost(least - tokens(v, v.p.fee_pool), tokens(v, v.p.pnl_pool))
                   IN  IF short > 0 THEN pool_to_pool(v, "pnl_pool", "fee_pool", short) ELSE {v}
  IN  If(least >= 0, Then(IF over > 0 THEN pool_to_pool(w, "fee_pool", "pnl_pool", over) ELSE {w}, filled))

fee_pool_full(w) == w.p.tfmd + w.p.liq_fee - w.p.withdrawn <= tokens(w, w.p.fee_pool)

\* A settlement of the fund since the last payment starts the count again; it cannot
\* lie in the future.
new_period(w) ==
  IF Settings.last_settle > w.p.last_withdraw THEN If(w.now >= Settings.last_settle, {[w EXCEPT !.p.since = 0]}) ELSE {w}

revenue_booked(w, x) ==
  [w EXCEPT !.p = [@ EXCEPT !.tfmd = @ - x, !.since = @ - x, !.last_withdraw = w.now,
                            !.withdrawn = IF x > 0 THEN @ + x ELSE @]]

\* mutant: the revenue pool's own balance is not kept
mut_transfer_spot_balance_to_revenue_pool(w, x) ==
  {[w EXCEPT !.k[Quote] = r.k, !.p.fee_pool = r.from] :
     r \in transfer_balances(x, w.k[Quote], w.p.fee_pool, w.k[Quote].revenue)}

transfer_spot_balance_to_revenue_pool(w, x) ==
  {[w EXCEPT !.k[Quote] = [r.k EXCEPT !.revenue = r.to], !.p.fee_pool = r.from] :
     r \in transfer_balances(x, w.k[Quote], w.p.fee_pool, w.k[Quote].revenue)}

transfer_revenue_pool_to_spot_balance(w, x) ==
  {[w EXCEPT !.k[Quote] = [r.k EXCEPT !.revenue = r.from], !.p.fee_pool = r.to] :
     r \in transfer_balances(x, w.k[Quote], w.k[Quote].revenue, w.p.fee_pool)}

\* x to the revenue pool, or -x from it.
pay_revenue(w, x) ==
  IF x = 0 THEN {w}
  ELSE {revenue_booked(v, x) :
          v \in IF x > 0 THEN transfer_spot_balance_to_revenue_pool(w, x) ELSE transfer_revenue_pool_to_spot_balance(w, -x)}

pool_changed(w, pool, amount, dir) ==
  {[w EXCEPT !.k[Quote] = r.k, !.p[pool] = r.b] : r \in update_spot_balances(amount, dir, w.k[Quote], w.p[pool], FALSE)}

\* mutant: a profit is paid whether or not the pool has it
mut_pnl_to_settle(w, held_quote, unsettled) == unsettled

\* A profit is paid as far as the pool goes, a loss as far as the user may borrow.
pnl_to_settle(w, held_quote, unsettled) ==
  IF unsettled > 0 THEN atMost(unsettled, tokens(w, w.p.pnl_pool))
  ELSE atLeast(-get_max_withdraw_for_market_with_token_amount(w.k[Quote], held_quote, FALSE), unsettled)

\* The worlds with the amount to settle: a hundredth of a loss goes to a fee pool that
\* is not full, the rest to the pnl pool.
settled_from_pools(w, n, for_amm) ==
  {[w |-> x, n |-> n] :
     x \in Then(IF for_amm < 0 THEN pool_changed(w, "fee_pool", -for_amm, "Deposit") ELSE {w},
                LAMBDA y : pool_changed(y, "pnl_pool", abs(n - for_amm), IF n <= for_amm THEN "Deposit" ELSE "Borrow"))}

update_pool_balances(w, held_quote, unsettled) ==
  LET full == fee_pool_full(w)
      settled(v, n) == settled_from_pools(v, n, IF full THEN 0 ELSE part(atMost(n, 0), 100))
      paid(v) == Then(calculate_revenue_pool_transfer(v), LAMBDA x : pay_revenue(v, x))
      balanced == Then(Then(balance_fee_pool(w), new_period), paid)
  IN  {r \in UNION {settled(v, pnl_to_settle(v, held_quote, unsettled)) : v \in balanced} :
         validate_spot_balances(r.w.k[Quote])}

\* A mode that only tries turns some errors into nothing done.
result(mode, w) == IF mode = "MustSettle" THEN {} ELSE {w}

loses(w, a) == ~is_available(w.u[a].pos) /\ get_unrealized_pnl(w.u[a].pos, w.px) < 0

\* What decides before any money moves: the error is the mode's to keep.
settle_pnl_allowed(w, a, meets) ==
  LET x == w.u[a].pos
  IN  /\ ~is_available(x)
      /\ loses(w, a) => meets
      /\ "SettlePnl" \notin w.p.paused
      /\ IF x.base # 0 THEN "SettlePnlWithPosition" \notin w.p.paused /\ w.p.status = "Active"
         ELSE w.p.status \in {"Active", "ReduceOnly"}

max_pnl_pool_excess(w) ==
  LET available == tokens(w, w.p.pnl_pool) + tokens(w, w.p.fee_pool) \div 5
      net == calculate_net_user_pnl(w)
  IN  IF net < available THEN available - atLeast(net, 0) ELSE 0

\* mutant: the market's sum is left as it was
mut_update_quote_asset_amount(w, a, delta) == [w EXCEPT !.u[a].pos.quote = @ + delta]

update_quote_asset_amount(w, a, delta) == [w EXCEPT !.u[a].pos.quote = @ + delta, !.p.quote = @ + delta]

\* mutant: the position keeps what was settled
mut_settle_with_user(w, a, n) ==
  LET dir == IF n > 0 THEN "Deposit" ELSE "Borrow"
      held_there == IF w.u[a].pos.iso
                      THEN If(n < 0 => get_isolated_token_amount(w, a) >= -n, isolated_balance(w, a, abs(n), dir, FALSE))
                      ELSE {[w EXCEPT !.k[Quote] = r.k, !.u[a].spot[Quote] = r.b] :
                              r \in update_spot_balances(abs(n), dir, w.k[Quote], w.u[a].spot[Quote], FALSE)}
  IN  held_there

settle_with_user(w, a, n) ==
  LET dir == IF n > 0 THEN "Deposit" ELSE "Borrow"
      held_there == IF w.u[a].pos.iso
                      THEN If(n < 0 => get_isolated_token_amount(w, a) >= -n, isolated_balance(w, a, abs(n), dir, FALSE))
                      ELSE {[w EXCEPT !.k[Quote] = r.k, !.u[a].spot[Quote] = r.b] :
                              r \in update_spot_balances(abs(n), dir, w.k[Quote], w.u[a].spot[Quote], FALSE)}
  IN  {update_quote_asset_amount(v, a, -n) : v \in held_there}

must_settle_themself(w, a, n, excess, signer) ==
  /\ n >= 0 /\ excess <= 0
  /\ ~(n > 0 /\ w.u[a].pos.base = 0 /\ (w.u[a].liq \/ w.u[a].pos.liq))
  /\ signer # w.u[a].owner

\* The pools are balanced even when the user is not settled; then an error may no
\* longer be passed over, if the sums show it.
settle_claim(v, a, signer, mode) ==
  LET x == v.u[a].pos
      excess == max_pnl_pool_excess(v)
      unsettled == get_claimable_pnl(x, v.px, excess)
      held_quote == IF x.iso THEN get_isolated_token_amount(v, a) ELSE get_signed_token_amount(v.u[a].spot[Quote], v.k[Quote])
      touched(y) == y.k[Quote].dep # v.k[Quote].dep \/ y.k[Quote].bor # v.k[Quote].bor
      finish(r) ==
        LET m == IF touched(r.w) THEN "MustSettle" ELSE mode
        IN  IF unsettled = 0 \/ r.n = 0 \/ must_settle_themself(r.w, a, r.n, excess, signer) THEN result(m, r.w)
            ELSE {y \in settle_with_user(r.w, a, r.n) : tvl_kept(get_tvl(v.k[Quote]), get_tvl(y.k[Quote]))}
  IN  Then(update_pool_balances(v, held_quote, unsettled), finish)

\* known is the margin if the caller has looked at it already; otherwise it is computed
\* for a loss, and not being able to is an error in every mode.
settle_pnl(w, a, signer, known, mode) ==
  LET meets(v) == IF known = <<>> THEN meets_maintenance_margin_requirement(v, a) ELSE known[1]
      step(v) == IF settle_pnl_allowed(v, a, meets(v)) THEN settle_claim(v, a, signer, mode) ELSE result(mode, v)
  IN  If(~is_bankrupt(w.u[a]),
         Then({v \in interest(w, Quote) :
                 get_tvl(v.k[Quote]) >= 0 /\ (known = <<>> /\ loses(v, a) => margin_computed(v, a, "Maintenance"))}, step))

\* All of it or nothing: the pool must have a profit, an isolated position its loss.
update_pnl_pool_and_user_balance(w, a, pnl) ==
  LET user == IF w.u[a].pos.iso THEN w.u[a].pos.ib ELSE w.u[a].spot[Quote]
      with(v, b) == IF v.u[a].pos.iso THEN [v EXCEPT !.u[a].pos.ib = b] ELSE [v EXCEPT !.u[a].spot[Quote] = b]
      covered == IF pnl > 0 THEN tokens(w, w.p.pnl_pool) >= pnl ELSE w.u[a].pos.iso => get_isolated_token_amount(w, a) >= -pnl
  IN  IF pnl = 0 THEN {w}
      ELSE If(covered, {with([w EXCEPT !.k[Quote] = r.k, !.p.pnl_pool = r.from], r.to) :
                          r \in transfer_spot_balances(pnl, w.k[Quote], w.p.pnl_pool, user)})

\* The position is closed at the expiry's price, less a fee.
closed_at_expiry(w, a) ==
  LET x == w.u[a].pos
      value == x.base * w.p.expiry_price
      fee == abs(part(value * Settings.expiry_fee, 100))
  IN  [w EXCEPT !.u[a].pos = [@ EXCEPT !.base = 0, !.entry = 0, !.quote = @ + value - fee],
                !.p = [@ EXCEPT !.base = @ - x.base, !.quote = @ + value - fee]]

\* mutant: an account must have the initial margin to be settled
mut_settle_expired_position(w, a) ==
  LET x == w.u[a].pos
      healthy == meets_withdraw_margin_requirement(w, a, "Initial") \/ (x.base = 0 /\ x.quote > 0)
      pay(v) == LET pnl == v.u[a].pos.quote
                IN  {update_quote_asset_amount(y, a, -pnl) : y \in update_pnl_pool_and_user_balance(v, a, pnl)}
  IN  IF is_bankrupt(w.u[a]) THEN {}
      ELSE IF is_available(x) THEN {w}
      ELSE If(margin_computed(w, a, "Maintenance") /\ healthy /\ w.now > w.p.expiry + Settings.settlement_duration,
              {v \in Then({closed_at_expiry(v, a) : v \in interest(w, Quote)}, pay) : is_available(v.u[a].pos)})

\* Nothing of the position may be left, its collateral included: an isolated one with
\* collateral cannot be settled.
settle_expired_position(w, a) ==
  LET x == w.u[a].pos
      healthy == meets_maintenance_margin_requirement(w, a) \/ (x.base = 0 /\ x.quote > 0)
      pay(v) == LET pnl == v.u[a].pos.quote
                IN  {update_quote_asset_amount(y, a, -pnl) : y \in update_pnl_pool_and_user_balance(v, a, pnl)}
  IN  IF is_bankrupt(w.u[a]) THEN {}
      ELSE IF is_available(x) THEN {w}
      ELSE If(margin_computed(w, a, "Maintenance") /\ healthy /\ w.now > w.p.expiry + Settings.settlement_duration,
              {v \in Then({closed_at_expiry(v, a) : v \in interest(w, Quote)}, pay) : is_available(v.u[a].pos)})

(***************************************************************************)
(* Builders' and referrers' shares of fees wait in the user's escrow.      *)
(***************************************************************************)
\* A builder's order that is no longer open will cost no more fees.
revoke_completed_orders(w, a) ==
  LET e == w.u[a].escrow
  IN  [w EXCEPT !.u[a].escrow.completed = @ \/ (~e.referral /\ ~e.open /\ e.fees > 0)]

\* The pool that cannot pay is left alone until the next time.
sweep_completed_revenue_share_for_market(w, a) ==
  LET e == w.u[a].escrow
      to == Settings.builder
      due == e.fees > 0 /\ (IF e.referral THEN Settings.builder_referral ELSE e.completed /\ Settings.builder_codes)
      pay(v) ==
        IF ~due \/ tokens(v, v.p.pnl_pool) < e.fees THEN {v}
        ELSE {[v EXCEPT !.k[Quote] = r.k, !.p.pnl_pool = r.from, !.u[to].spot[Quote] = r.to,
                        !.u[a].escrow = [@ EXCEPT !.fees = 0, !.completed = FALSE]] :
                r \in transfer_spot_balances(e.fees, v.k[Quote], v.p.pnl_pool, v.u[to].spot[Quote])}
  IN  Then(interest(w, Quote), pay)

\* After a settlement: fees are paid out, if the caller names the escrow and whom it
\* owes, and the collateral of a position that is over goes back to the account.
after_settlement(w, a) ==
  LET revoked == revoke_completed_orders(w, a)
      swept == IF Settings.builder_codes \/ Settings.builder_referral
                 THEN {w, revoked} \union sweep_completed_revenue_share_for_market(revoked, a) ELSE {w}
      back(v) == IF can_transfer_isolated_position_deposit(v.u[a].pos)
                   THEN transfer_isolated_perp_position_deposit(v, a, All, FALSE, FALSE) ELSE {v}
  IN  Then(swept, back)

\* One market of a user; an expired one only while the curves are not paused.
settled_in_market(w, a, signer, known, mode) ==
  Then(IF w.p.status = "Settlement" THEN If("Amm" \notin Settings.paused, settle_expired_position(w, a))
       ELSE settle_pnl(w, a, signer, known, mode),
       LAMBDA x : after_settlement(x, a))

handle_settle_pnl(w, a, signer) ==
  If(w.u[a].pool = 0 /\ "SettlePnl" \notin Settings.paused,
     {v \in settled_in_market(w, a, signer, <<>>, "MustSettle") : vault_valid(v, Quote)})

\* The same market may be named more than once: the margin is that of the start.
handle_settle_multiple_pnls(w, a, signer, times, mode) ==
  LET meets == meets_maintenance_margin_requirement(w, a)
      once(worlds) == Then(worlds, LAMBDA v : settled_in_market(v, a, signer, <<meets>>, mode))
  IN  If("SettlePnl" \notin Settings.paused /\ margin_computed(w, a, "Maintenance"),
         {v \in FoldLeft(LAMBDA acc, i : once(acc), {w}, [i \in 1..times |-> i]) : vault_valid(v, Quote)})

(***************************************************************************)
(* The specification.                                                      *)
(***************************************************************************)
Init ==
  \E w \in Openings : k = w.k /\ u = w.u /\ p = w.p /\ px = w.px /\ now = w.now /\ ops = 0

Step(worlds) ==
  /\ ops < MaxOps
  /\ \E w \in worlds : k' = w.k /\ u' = w.u /\ p' = w.p
  /\ ops' = ops + 1
  /\ UNCHANGED <<px, now>>

Deposit == \E a \in Accounts, m \in Markets, n \in Amounts, ro \in BOOLEAN : Step(handle_deposit(World, a, m, n, ro))

Withdraw == \E a \in Accounts, m \in Markets, n \in Amounts, ro \in BOOLEAN : Step(handle_withdraw(World, a, m, n, ro))

TransferDeposit ==
  \E a, b \in Accounts, m \in Markets, n \in Amounts : Step(handle_transfer_deposit(World, a, b, m, n))

TransferPools ==
  \E a, b \in Accounts, df, dt, bf, bt \in Markets :
    /\ ops < MaxOps
    /\ transfer_pools_ready(World, a, b, df, dt, bf, bt)
    /\ \E d, n \in {All, 0, Settings.some} : Step(handle_transfer_pools(World, a, b, df, dt, bf, bt, d, n))

DepositIntoSpotMarketRevenuePool ==
  \E m \in Markets, n \in Amounts : Step(handle_deposit_into_spot_market_revenue_pool(World, m, n))

PauseSpotMarketDepositWithdraw == \E m \in Markets : Step(handle_pause_spot_market_deposit_withdraw(World, m))

DepositIntoIsolatedPerpPosition ==
  \E a \in Accounts, n \in Amounts : Step(handle_deposit_into_isolated_perp_position(World, a, n))

TransferIsolatedPerpPositionDeposit ==
  \E a \in Accounts, n \in Amounts \union {All}, into \in BOOLEAN :
    /\ n = All => ~into
    /\ Step(handle_transfer_isolated_perp_position_deposit(World, a, n, into))

WithdrawFromIsolatedPerpPosition ==
  \E a \in Accounts, n \in Amounts : Step(handle_withdraw_from_isolated_perp_position(World, a, n))

Swap ==
  /\ ops < MaxOps /\ found_end
  /\ \E a \in Accounts, in, out \in Markets, loan, got \in Amounts, left \in Settings.left :
       /\ in # out /\ left < loan
       /\ validate_price_bands_for_swap(in, out, loan - left, got)
       /\ \E v \in handle_begin_swap(World, a, in, out, loan), ro \in {"None", "In", "Out"} :
            Step(handle_end_swap(v, a, in, out, loan, left, got, Settings.limit, ro))

Signers == {u[a].owner : a \in Accounts} \union {"keeper"}

SettlePnl == \E a \in Accounts, s \in Signers : Step(handle_settle_pnl(World, a, s))

SettleMultiplePnls ==
  \E a \in Accounts, s \in Signers, mode \in {"MustSettle", "TrySettle"} :
    Step(handle_settle_multiple_pnls(World, a, s, 2, mode))

PriceMoves == /\ ops < MaxOps /\ p.status # "Settlement"
              /\ px' \in Prices \ {px} /\ ops' = ops + 1 /\ UNCHANGED <<k, u, p, now>>

Tick == now < MaxNow /\ now' = now + 1 /\ UNCHANGED <<k, u, p, px, ops>>

Next ==
  \/ Deposit \/ Withdraw \/ TransferDeposit \/ TransferPools
  \/ DepositIntoSpotMarketRevenuePool \/ PauseSpotMarketDepositWithdraw
  \/ DepositIntoIsolatedPerpPosition \/ TransferIsolatedPerpPositionDeposit \/ WithdrawFromIsolatedPerpPosition
  \/ Swap \/ SettlePnl \/ SettleMultiplePnls \/ PriceMoves \/ Tick

Spec == Init /\ [][Next]_vars

(***************************************************************************)
(* Properties.                                                             *)
(***************************************************************************)
Balances == [bal : Nat, type : BalanceTypes]

\* Every balance is unsigned, and a market is in one of its states.
TypeOK ==
  /\ \A m \in Markets : k[m].dep \in Nat /\ k[m].bor \in Nat /\ k[m].vault \in Nat /\ k[m].revenue \in Balances
  /\ \A a \in Accounts : /\ \A m \in Markets : u[a].spot[m] \in Balances /\ u[a].cum[m] \in Int
                         /\ u[a].net \in Int /\ u[a].pos.ib \in Balances /\ u[a].pos.base \in Int
  /\ p.pnl_pool \in Balances /\ p.fee_pool \in Balances /\ p.withdrawn \in Nat /\ px \in Nat /\ now \in Nat

\* The balances of one kind in market m, of the users and of the exchange.
sum_of(m, type) ==
  LET mine(b) == IF b.type = type THEN b.bal ELSE 0
      pools == IF m = Quote THEN {"pnl_pool", "fee_pool"} ELSE {}
  IN  total(LAMBDA a : mine(u[a].spot[m]) + (IF m = Quote THEN mine(u[a].pos.ib) ELSE 0), Accounts)
      + total(LAMBDA x : mine(p[x]), pools) + mine(k[m].revenue)

\* A market's sums of deposits and borrows are those of its holders: the users, their
\* isolated positions, the perp market's two pools and the revenue pool
\* (controller/spot_balance.rs:209), whatever order they change in.
SumsExact == \A m \in Markets : k[m].dep = sum_of(m, "Deposit") /\ k[m].bor = sum_of(m, "Borrow")

\* What is deposited and not lent out is in the vault, but for rounding: every handler
\* moves tokens as it moves balances (math/spot_withdraw.rs:309, which a deposit does
\* not call).
VaultCovers == \A m \in Markets : k[m].vault + Settings.rounding >= deposits(k[m]) - borrows(k[m])

\* Accounts hold, and owe, only tokens of their own pool: a withdrawal or swap in
\* another pool's market is caught by the margin and nothing else (user.rs:866).  The
\* one exception is a deposit of the quote token, which pool 1 may swap for.
PoolsApart ==
  \A a \in Accounts, m \in Markets : u[a].spot[m].bal > 0 =>
    k[m].pool = u[a].pool \/ (u[a].pool = 1 /\ m = Quote /\ u[a].spot[m].type = "Deposit")

\* A token of the protected tier is never owed (controller/spot_position.rs:157).
ProtectedNotOwed ==
  \A a \in Accounts, m \in Markets : k[m].tier = "Protected" => u[a].spot[m].type = "Deposit" \/ u[a].spot[m].bal = 0

\* The perp market's pools never owe anything: profits wait for losses
\* (controller/amm.rs:742).
PoolsNotInDebt == \A x \in {"pnl_pool", "fee_pool"} : p[x].type = "Deposit" \/ p[x].bal = 0

\* The market's sum of the users' quote is theirs, settled or not.
QuoteExact == p.quote = total(LAMBDA a : u[a].pos.quote, Accounts) /\ p.base = total(LAMBDA a : u[a].pos.base, Accounts)

\* When a market has expired every healthy account with a cross position can close it,
\* if the pool has its profit (controller/pnl.rs:391).
ExpiredCanSettle ==
  \A a \in Accounts :
    LET gain == u[a].pos.quote + u[a].pos.base * p.expiry_price
    IN  (/\ p.status = "Settlement" /\ now > p.expiry + Settings.settlement_duration
         /\ ~u[a].bankrupt /\ u[a].pool = 0 /\ ~u[a].pos.iso /\ ~u[a].pos.liq
         /\ margin_computed(World, a, "Maintenance") /\ meets_maintenance_margin_requirement(World, a)
         /\ gain <= tokens(World, p.pnl_pool) - Settings.rounding)
        => handle_settle_pnl(World, a, "keeper") # {}

\* Sums, vaults and pools agree with what their holders have, nobody holds or owes a
\* token they may not, and the books let the healthy leave an expired market.
BooksExact ==
  /\ TypeOK /\ SumsExact /\ VaultCovers /\ QuoteExact
  /\ PoolsNotInDebt /\ PoolsApart /\ ProtectedNotOwed /\ ExpiredCanSettle

Same == px' = px /\ now' = now /\ \A m \in Markets : k'[m].cdi = k[m].cdi

Next_World == [k |-> k', u |-> u', p |-> p', px |-> px', now |-> now']

\* A swap weighs the quote token even for pool 1, whose margin does not count it.
buys_quote(a) == u[a].pool = 1 /\ u'[a].spot[Quote].bal > u[a].spot[Quote].bal

fell(margin(_, _, _), a) ==
  free(margin(Next_World, a, "Initial")) < free(margin(World, a, "Initial")) - Settings.rounding

\* Nothing that moves tokens or collateral leaves an account with less free collateral
\* and below the initial margin, its cross balances and its isolated position taken
\* apart (user.rs:866, 1045, 1272, isolated_position.rs:159, 347); an account of pool 1
\* that buys the quote token may fall to the maintenance margin (spot_swap.rs:39).
NoUnsafeFall ==
  [][\A a \in Accounts :
       u'[a] # u[a] /\ Same /\ p.status # "Settlement" =>
         /\ fell(cross_margin, a) =>
              free(cross_margin(Next_World, a, IF buys_quote(a) THEN "Maintenance" ELSE "Initial")) >= 0
         /\ fell(isolated_margin, a) => free(isolated_margin(Next_World, a, "Initial")) >= 0]_vars

\* An account or a position leaves liquidation only when it has the margin for it.
LiquidationEndsHealthy ==
  [][\A a \in Accounts :
       /\ u[a].liq /\ ~u'[a].liq => free(cross_margin(Next_World, a, "Maintenance")) >= 0
       /\ u[a].pos.liq /\ ~u'[a].pos.liq => free(isolated_margin(Next_World, a, "Maintenance")) >= 0]_vars

\* Nobody gets below the margin by their own doing or leaves liquidation below it.
MarginKept == NoUnsafeFall /\ LiquidationEndsHealthy

equity(w, a) ==
  total(LAMBDA m : get_signed_token_amount(w.u[a].spot[m], w.k[m]) * price(m), Markets)
  + token_amount(w.u[a].pos.ib, w.k[Quote]) + get_unrealized_pnl(w.u[a].pos, w.px)

\* Settling, and moving collateral to and from an isolated position, changes where an
\* account's money is and not how much it is: equity moves only with tokens through a
\* vault, between accounts of one owner, or from an escrow.
EquityKept ==
  [][/\ Same /\ p.status # "Settlement" /\ \A m \in Markets : k'[m].vault = k[m].vault
     /\ \A a \in Accounts : u'[a].escrow.fees = u[a].escrow.fees
     => abs(total(LAMBDA a : equity(Next_World, a) - equity(World, a), Accounts)) <= Settings.rounding]_vars
=============================================================================
