--------------------------- MODULE DriftLiquidation ---------------------------
(***************************************************************************)
(* Liquidation and bankruptcy in programs/drift (controller/               *)
(* liquidation.rs, math/liquidation.rs, state/liquidation_mode.rs, the     *)
(* margin calculation of math/margin.rs and state/margin_calculation.rs).  *)
(*                                                                         *)
(* One account, the user, is short of margin; another, the liquidator,     *)
(* takes over parts of its perpetual position, its borrows or its losses   *)
(* for a fee, in any order and any amounts, while prices and time move.    *)
(* What nobody can take over is bad debt: the insurance fund pays it, then *)
(* the fee pool, and the rest is shared among the other traders or         *)
(* depositors, here a third account.  There is one perpetual market and    *)
(* two tokens, 0 for quote.                                                *)
(*                                                                         *)
(* A handler is an operator on a world [acct, m, s, k] (accounts, market,  *)
(* tokens, pools) that returns the set of worlds it may leave, empty when  *)
(* it errors.  All ratios are in percent.  Left out: interest and revenue  *)
(* settlement (module DriftSpot), spot orders, oracle validity (taken to   *)
(* be valid and near its average), high leverage, limit prices.            *)
(***************************************************************************)
EXTENDS DriftPositions, DriftSpotBalance, FiniteSetsExt

CONSTANTS
  Openings,        \* model bound: the worlds an account fell short in
  Perp,            \* ratio_init, ratio_maint, upnl_init, liq_fee, max_liq_fee, if_fee, max_insurance
  Token,           \* for each token asset_init, asset_maint, liab_init, liab_maint, liq_fee, if_fee, safer
  Buffer,          \* liquidation_margin_buffer_ratio
  OrderMargin,     \* OPEN_ORDER_MARGIN_REQUIREMENT
  StepSize, TakerFee,
  InitialPct, Duration,           \* initial_pct_to_liquidate, liquidation_duration
  Grace, FeePerSlot,              \* slots before the fee grows, and its growth
  SmallShortage, SmallPosition,   \* the $50 below which all may go at once
  SmallBorrow, SmallAsset,        \* the $10 and $1 below which nothing is left behind
  Takes,                          \* model bound: what a liquidator asks for
  Prices, TokenPrices,            \* model bound: oracle prices
  Rounding,                       \* model bound: tokens that all roundings together may cost a vault
  MaxMoves, MaxSlot, MaxOps       \* model bounds: price changes, time, liquidations

VARIABLES acct, market, spot, pools, oracle, token_price, slot, moves, ops

vars == <<acct, market, spot, pools, oracle, token_price, slot, moves, ops>>

Tokens == {0, 1}

Accounts == {"user", "liq", "other"}

MAX == 1000000   \* stands for u64::MAX

price(i) == IF i = 0 THEN 1 ELSE token_price

pct(x, p) == SafeDiv(x * p, 100)

World == [acct |-> acct, m |-> market, s |-> spot, k |-> pools]

\* Every outcome of the step f, started in every outcome of the step before.
Then(worlds, f(_)) == UNION {f(w) : w \in worlds}

(***************************************************************************)
(* The margin of an account.  A position is either part of the account's   *)
(* cross margin, or isolated with a deposit of its own.                    *)
(***************************************************************************)
Modes == {"cross", "isolated"}

has_open_order(a) == a.pos.open_orders # 0 \/ a.pos.open_bids # 0 \/ a.pos.open_asks # 0

position_available(a) == is_available(a.pos) /\ a.iso.bal = 0 /\ a.flag = {}

\* Without a position the account is looked at as a whole.
get_perp_liquidation_mode(a) == IF a.isolated /\ ~position_available(a) THEN "isolated" ELSE "cross"

ratio(type) == IF type = "Initial" THEN Perp.ratio_init ELSE Perp.ratio_maint

asset_weight(i, type) == IF type = "Initial" THEN Token[i].asset_init ELSE Token[i].asset_maint

liability_weight(i, type) == IF type = "Initial" THEN Token[i].liab_init ELSE Token[i].liab_maint

weighted_pnl(a, m, type) ==
  LET pnl == pnl_with_oracle_price(a.pos, oracle) + pending_funding(a.pos, m).payment
  IN  IF pnl > 0 /\ type = "Initial" THEN pct(pnl, Perp.upnl_init) ELSE pnl

perp_margin_requirement(a, type) ==
  pct(worst_case_liability_value(a.pos, oracle), ratio(type)) + a.pos.open_orders * OrderMargin

\* A token held is collateral, a token owed adds to the requirement.
spot_value(a, s, i) == get_signed_token_amount(a.spot[i], s[i]) * price(i)

spot_collateral(a, s, type, i) == pct(AtLeast(spot_value(a, s, i), 0), asset_weight(i, type))

spot_requirement(a, s, type, i) == pct(AtLeast(-spot_value(a, s, i), 0), liability_weight(i, type))

\* A balance that has become worth nothing makes the calculation fail.
calculable(a, s) == \A i \in Tokens : token_amount(a.spot[i], s[i]) = 0 => a.spot[i].bal = 0

\* col and req are collateral and requirement, colb and reqb both with the buffer;
\* pnl that is lost counts once more in the buffer.
calculate_margin(a, m, s, type, mode) ==
  LET inside == a.isolated = (mode = "isolated")
      pnl == IF inside THEN weighted_pnl(a, m, type) ELSE 0
      perp == IF inside THEN perp_margin_requirement(a, type) ELSE 0
      value == IF inside THEN worst_case_liability_value(a.pos, oracle) ELSE 0
      cross == mode = "cross"
      over(f(_)) == IF cross THEN f(0) + f(1) ELSE 0
      deposit == IF cross THEN 0 ELSE token_amount(a.iso, s[0])
      col == over(LAMBDA i : spot_collateral(a, s, type, i)) + deposit + pnl
      req == over(LAMBDA i : spot_requirement(a, s, type, i)) + perp
      owed(i) == pct(AtLeast(-spot_value(a, s, i), 0), Buffer)
  IN  [col |-> col, req |-> req, perp |-> perp,
       colb |-> col + (IF pnl < 0 THEN pct(pnl, Buffer) ELSE 0),
       reqb |-> req + over(owed) + pct(value, Buffer)]

margin(w, who, type, mode) == calculate_margin(w.acct[who], w.m, w.s, type, mode)

meets(c) == c.col >= c.req

can_exit_liquidation(c) == c.colb >= c.reqb

margin_shortage(c) == AtLeast(c.reqb - c.colb, 0)

tracked_market_margin_shortage(c, tracked, shortage) ==
  IF c.req = 0 THEN 0 ELSE (shortage * tracked) \div c.req

\* Of the account as a whole and of its isolated position.
meets_margin_requirement(w, who, type) ==
  /\ calculable(w.acct[who], w.s)
  /\ meets(margin(w, who, type, "cross"))
  /\ w.acct[who].isolated => meets(margin(w, who, type, "isolated"))

(***************************************************************************)
(* Flags.                                                                  *)
(***************************************************************************)
flags(a, mode) == IF mode = "cross" THEN a.status ELSE a.flag

with_flags(a, mode, F) == IF mode = "cross" THEN [a EXCEPT !.status = F] ELSE [a EXCEPT !.flag = F]

being_liquidated(a, mode) == flags(a, mode) # {}

is_user_bankrupt(a, mode) == "Bankrupt" \in flags(a, mode)

is_being_liquidated(a) == a.status # {} \/ a.flag # {}

is_bankrupt(a) == "Bankrupt" \in a.status \union a.flag

\* A second liquidation, of the whole account or of its isolated position, joins
\* the first one's number and its clock.
enter_liquidation(a, mode) ==
  IF being_liquidated(a, mode) THEN a
  ELSE LET b == [with_flags(a, mode, {"BeingLiquidated"})
                   EXCEPT !.freed = IF mode = "cross" THEN 0 ELSE @]
       IN  IF is_being_liquidated(a) THEN b
           ELSE [b EXCEPT !.last_slot = slot, !.liquidations = @ + 1]

exit_liquidation(a, mode) ==
  [with_flags(a, mode, {}) EXCEPT !.freed = IF mode = "cross" THEN 0 ELSE @]

\* mutant: the liquidation's flag stays
mut_enter_bankruptcy(a, mode) == with_flags(a, mode, flags(a, mode) \union {"Bankrupt"})

enter_bankruptcy(a, mode) == with_flags(a, mode, {"Bankrupt"})

exit_bankruptcy(a, mode) == exit_liquidation(a, mode)

increment_free_margin(a, mode, amount) ==
  IF mode = "cross" THEN [a EXCEPT !.freed = @ + amount] ELSE a

\* mutant: a deposit in another token is overlooked
mut_should_user_enter_bankruptcy(a, mode) ==
  IF mode = "isolated" THEN a.iso.bal = 0 /\ a.pos.base = 0 /\ ~has_open_order(a) /\ a.pos.quote < 0
  ELSE \E i \in Tokens : a.spot[i].bal > 0 /\ a.spot[i].type = "Borrow"

\* Something is owed and nothing is left to pay it with.
should_user_enter_bankruptcy(a, mode) ==
  LET perp_done == a.pos.base = 0 /\ ~has_open_order(a)
  IN  IF mode = "isolated"
        THEN a.iso.bal = 0 /\ perp_done /\ a.pos.quote < 0
        ELSE /\ ~\E i \in Tokens : a.spot[i].bal > 0 /\ a.spot[i].type = "Deposit"
             /\ ~a.isolated => perp_done /\ a.pos.quote <= 0
             /\ \/ \E i \in Tokens : a.spot[i].bal > 0
                \/ ~a.isolated /\ a.pos.quote < 0

(***************************************************************************)
(* How much may be taken over.                                             *)
(***************************************************************************)
Premium(fee) == 100 + fee

Discount(fee) == 100 - fee

floor_step(x) == x - (x % StepSize)

ceil_step(x) == CeilDiv(x, StepSize) * StepSize

get_liquidation_fee(a) ==
  LET elapsed == slot - a.last_slot
  IN  IF elapsed < Grace THEN Perp.liq_fee
      ELSE AtMost(Perp.max_liq_fee, Perp.liq_fee + elapsed * FeePerSlot)

\* The share of the shortage that may be freed grows with time; what is freed
\* already counts against it.
calculate_max_pct_to_liquidate(a, mode, shortage) ==
  LET elapsed == slot - a.last_slot
      grown == IF Duration = 0 THEN 100 ELSE (elapsed * 100) \div Duration
      freeable == pct(shortage + a.freed, AtMost(100, InitialPct + grown))
  IN  IF mode = "isolated" \/ shortage < SmallShortage THEN 100
      ELSE (AtLeast(freeable - a.freed, 0) * 100) \div shortage

calculate_perp_if_fee(shortage, base, margin_ratio, fee) ==
  IF oracle = 0 \/ margin_ratio <= fee \/ base = 0 THEN 0
  ELSE LET room == AtLeast(margin_ratio - fee - ((shortage * 100) \div (base * oracle)), 0)
       IN  AtMost(Perp.if_fee, (room * 19) \div 20)

calculate_base_asset_amount_to_cover_margin_shortage(shortage, margin_ratio, fee, if_fee) ==
  IF oracle = 0 \/ margin_ratio <= fee THEN MAX
  ELSE (shortage * 100) \div (oracle * (margin_ratio - fee - if_fee))

calculate_spot_if_fee(shortage, amount, i, aw, am, lw, lm) ==
  IF aw >= lw \/ amount = 0 THEN 0
  ELSE LET room == AtLeast(lw - ((aw * am) \div lm) - ((shortage * 100) \div (amount * price(i))), 0)
       IN  AtMost(Token[i].if_fee, (room * 100) \div lw)

\* Without a gap between the weights no amount covers the shortage.
calculate_liability_transfer_to_cover_margin_shortage(shortage, aw, am, lw, lm, p, if_fee) ==
  LET asset == (10 * aw * am) \div lm
      gap == p * (10 * lw - asset) - (p * if_fee * lw) \div 10
  IN  IF aw >= lw \/ asset >= 10 * lw THEN {MAX}
      ELSE IF gap <= 0 THEN {}
      ELSE {AtLeast((shortage * 1000) \div gap, 1)}

calculate_liability_transfer_implied_by_asset_amount(asset, am, ap, lm, lp) == CeilDiv(asset * ap * lm, lp * am)

\* Rounded to the whole deposit when it is close.
calculate_asset_transfer_for_liability_transfer(asset, am, ap, amount, lm, lp) ==
  LET transfer == AtLeast((amount * lp * am) \div (ap * lm), 1)
  IN  IF Abs(transfer - asset) * ap < SmallAsset THEN asset ELSE transfer

\* What moves when at most max of a debt owed (at price lp) is exchanged for an
\* asset: bounded by the debt, the pace, and what the asset can pay.
exchange(max, a, mode, shortage, cover, owed, lp, lm, asset, ap, am) ==
  LET allowed == pct(cover, calculate_max_pct_to_liquidate(a, mode, shortage))
      least == IF owed * lp > SmallBorrow THEN 0 ELSE owed
      implied == calculate_liability_transfer_implied_by_asset_amount(asset, am, ap, lm, lp)
      liability == AtMost(AtMost(max, owed), AtMost(AtLeast(allowed, least), implied))
  IN  [cover |-> cover, allowed |-> allowed, liability |-> liability,
       asset |-> calculate_asset_transfer_for_liability_transfer(asset, am, ap, liability, lm, lp)]

validate_swap_within_liquidation_boundaries(asset, liability, ap, lp, am, lm) ==
  (liability * 100) \div asset >= (ap * 100 * lm) \div (lp * am)

(***************************************************************************)
(* The steps every liquidation starts and ends with.                       *)
(***************************************************************************)
\* One balance of one account goes up (Deposit) or down (Borrow).
moved(w, who, i, amount, dir) ==
  {[w EXCEPT !.acct[who].spot[i] = r.b, !.s[i] = r.k] :
     r \in update_spot_balances(amount, dir, w.s[i], w.acct[who].spot[i], FALSE)}

collect_revenue(w, i, amount) ==
  {[w EXCEPT !.s[i] = k] : k \in update_revenue_pool_balances(amount, "Deposit", w.s[i])}

\* mutant: the market's total is left alone
mut_pay_quote(w, who, amount) == [w EXCEPT !.acct[who].pos.quote = @ + amount]

pay_quote(w, who, amount) ==
  LET r == update_quote_asset_amount(w.acct[who].pos, w.m, amount)
  IN  [w EXCEPT !.acct[who].pos = r.p, !.m = r.m]

settle_funding(w, who) ==
  LET r == settle_funding_payment(w.acct[who].pos, w.m)
  IN  [w EXCEPT !.acct[who].pos = r.p, !.m = r.m]

settled(w) == settle_funding(settle_funding(w, "user"), "liq")

\* mutant: a liquidation of the whole account takes the isolated position's orders too
mut_cancel_orders(a, mode) == [a EXCEPT !.pos.open_orders = 0, !.pos.open_bids = 0, !.pos.open_asks = 0]

\* Orders of an isolated position stay when the whole account is liquidated.
cancel_orders(a, mode) ==
  IF a.isolated # (mode = "isolated") THEN a
  ELSE [a EXCEPT !.pos.open_orders = 0, !.pos.open_bids = 0, !.pos.open_asks = 0]

\* An account that meets its requirement is left alone; one that is already being
\* liquidated leaves as soon as it has the buffer as well, before its orders are
\* cancelled or after.  done says that the handler returns here.
begin_liquidation(w, mode) ==
  LET u == w.acct["user"]
      c == margin(w, "user", "Maintenance", mode)
      b == cancel_orders(enter_liquidation(u, mode), mode)
      d == calculate_margin(b, w.m, w.s, "Maintenance", mode)
      freed == AtLeast(margin_shortage(c) - margin_shortage(d), 0)
      cancelled == b.pos.open_orders # u.pos.open_orders
      e == IF cancelled THEN increment_free_margin(b, mode, freed) ELSE b
      leave(a) == [w EXCEPT !.acct["user"] = exit_liquidation(a, mode)]
  IN  CASE ~calculable(u, w.s) -> {}
        [] calculable(u, w.s) /\ ~being_liquidated(u, mode) /\ meets(c) -> {}
        [] calculable(u, w.s) /\ being_liquidated(u, mode) /\ can_exit_liquidation(c) ->
             {[done |-> TRUE, w |-> leave(u), c |-> c]}
        [] OTHER ->
             {IF cancelled /\ can_exit_liquidation(d) THEN [done |-> TRUE, w |-> leave(e), c |-> d]
              ELSE [done |-> FALSE, w |-> [w EXCEPT !.acct["user"] = e], c |-> d]}

calculate_margin_freed(w, mode, shortage) ==
  AtLeast(shortage - margin_shortage(margin(w, "user", "Maintenance", mode)), 0)

\* The user leaves when exits holds, and may be bankrupt otherwise.
close_liquidation(w, mode, shortage, exits) ==
  LET u == increment_free_margin(w.acct["user"], mode, calculate_margin_freed(w, mode, shortage))
      a == CASE exits -> exit_liquidation(u, mode)
             [] ~exits /\ should_user_enter_bankruptcy(u, mode) -> enter_bankruptcy(u, mode)
             [] OTHER -> u
  IN  IF calculable(u, w.s) THEN {[w EXCEPT !.acct["user"] = a]} ELSE {}

\* The liquidator must carry what it takes over.
liquidator_meets(w) == meets_margin_requirement(w, "liq", "Initial")

may_liquidate(w, mode) == ~is_user_bankrupt(w.acct["user"], mode) /\ ~is_bankrupt(w.acct["liq"])

(***************************************************************************)
(* liquidate_perp: the liquidator takes over base at the oracle price less *)
(* its fee.                                                                *)
(***************************************************************************)
\* How much base covers the shortage, and how much may go now.
perp_sizes(w, mode, c, fee) ==
  LET u == w.acct["user"]
      shortage == margin_shortage(c)
      buffered == Perp.ratio_maint + Buffer
      base == Abs(u.pos.base)
      if_fee == calculate_perp_if_fee(tracked_market_margin_shortage(c, c.perp, shortage), base, buffered, fee)
      exact == calculate_base_asset_amount_to_cover_margin_shortage(shortage, buffered, fee, if_fee)
      cover == IF exact = MAX THEN MAX ELSE ceil_step(exact)
      allowed == pct(cover, calculate_max_pct_to_liquidate(u, mode, shortage))
      least == IF base * oracle > SmallPosition THEN 0 ELSE base
  IN  [shortage |-> shortage, if_fee |-> if_fee, cover |-> cover, allowed |-> allowed,
       most |-> AtMost(base, AtLeast(allowed, least))]

fee_of(value, fee) == (value * fee) \div 100

take_over_perp(w, base, fee, if_fee) ==
  LET dir == get_direction(w.acct["user"].pos.base)
      value == base * oracle
      reward == fee_of(value, fee)
      collected == fee_of(value, if_fee)
      closed(v) ==
        {[v EXCEPT !.acct["user"].pos = q.p, !.m = q.m] :
           q \in {update_quote_asset_and_break_even_amount(r.p, r.m, -(reward + collected)) :
                    r \in update_position_and_market(v.acct["user"].pos, v.m, get_position_delta_for_fill(base, value, Opposite(dir)))}}
      opened(v) ==
        {[v EXCEPT !.acct["liq"].pos = q.p, !.m = q.m, !.k.liq_fee = @ + collected] :
           q \in {update_quote_asset_and_break_even_amount(r.p, r.m, reward) :
                    r \in update_position_and_market(v.acct["liq"].pos, v.m, get_position_delta_for_fill(base, value, dir))}}
  IN  Then(closed(w), opened)

\* Nothing to take over, or nothing yet: what was done so far stays.
liquidate_perp_transfer(w, mode, c, max) ==
  LET fee == get_liquidation_fee(w.acct["user"])
      z == perp_sizes(w, mode, c, fee)
      base == ceil_step(AtMost(floor_step(max), z.most))
  IN  CASE w.acct["user"].pos.base = 0 -> {w}
        [] w.acct["user"].pos.base # 0 /\ floor_step(max) = 0 -> {}
        [] w.acct["user"].pos.base # 0 /\ floor_step(max) # 0 /\ z.allowed = 0 -> {w}
        [] OTHER ->
             {v \in Then(take_over_perp(w, base, fee, z.if_fee),
                         LAMBDA x : close_liquidation(x, mode, z.shortage, base >= z.cover)) : liquidator_meets(v)}

has_perp(u) == has_position(u.pos) \/ has_open_order(u)

liquidate_perp(w, max) ==
  LET u == w.acct["user"]
      mode == get_perp_liquidation_mode(u)
      started == begin_liquidation(settled(w), mode)
  IN  IF ~may_liquidate(w, mode) THEN {}
      ELSE UNION {IF b.done THEN {b.w}
                  ELSE IF ~has_perp(u) THEN {}
                  ELSE liquidate_perp_transfer(b.w, mode, b.c, max) : b \in started}

(***************************************************************************)
(* liquidate_perp_with_fill: the user's position is closed by an order     *)
(* against the market's reserves instead.                                  *)
(***************************************************************************)
\* A reduce-only limit order at the oracle price less the fee.
get_liquidation_order_params(base, fee) ==
  [dir |-> Opposite(get_direction(base)),
   price |-> IF base > 0 THEN oracle - fee_of(oracle, fee) ELSE oracle + fee_of(oracle, fee)]

\* Any part of the order may fill, at its limit or better; the rest is cancelled.
fill_liquidation_order(w, order, n, p, if_fee) ==
  LET delta == get_position_delta_for_fill(n, n * p, order.dir)
      fee == CeilDiv(n * p * TakerFee, 100)
      collected == fee_of(n * p, if_fee)
      charged(r) == update_quote_asset_and_break_even_amount(r.p, r.m, -(fee + collected))
  IN  {[w EXCEPT !.acct["user"].pos = charged(r).p,
                 !.m = [charged(r).m EXCEPT !.with_amm = @ + delta.base, !.curve = @ - delta.quote,
                                            !.fees = @ + fee, !.exchange_fee = @ + fee],
                 !.k.liq_fee = @ + collected] :
         r \in update_position_and_market(w.acct["user"].pos, w.m, delta)}

liquidate_perp_with_fill_transfer(w, mode, c, n, p) ==
  LET u == w.acct["user"]
      z == perp_sizes(w, mode, c, Perp.liq_fee)
      order == get_liquidation_order_params(u.pos.base, get_liquidation_fee(u))
      crosses == IF order.dir = "Long" THEN p <= order.price ELSE p >= order.price
      after(v) == can_exit_liquidation(margin(v, "user", "Maintenance", mode))
  IN  CASE u.pos.base = 0 -> {w}
        [] u.pos.base # 0 /\ z.cover = MAX /\ StepSize > 1 -> {}
        [] u.pos.base # 0 /\ ~(z.cover = MAX /\ StepSize > 1) /\ z.allowed = 0 -> {w}
        [] OTHER ->
             IF n = 0 \/ n > ceil_step(z.most) \/ ~crosses THEN {}
             ELSE Then(fill_liquidation_order(w, order, n, p, z.if_fee),
                       LAMBDA v : close_liquidation(v, mode, z.shortage, after(v)))

liquidate_perp_with_fill(w, n, p) ==
  LET u == w.acct["user"]
      mode == get_perp_liquidation_mode(u)
      started == begin_liquidation(settled(w), mode)
  IN  IF ~may_liquidate(w, mode) THEN {}
      ELSE UNION {IF b.done THEN {b.w}
                  ELSE IF ~has_perp(u) THEN {}
                  ELSE liquidate_perp_with_fill_transfer(b.w, mode, b.c, n, p) : b \in started}

(***************************************************************************)
(* liquidate_spot: the liquidator takes over a borrow and is given a       *)
(* deposit for it.                                                         *)
(***************************************************************************)
deposit_of(w, i) == w.acct["user"].spot[i].type = "Deposit" /\ token_amount(w.acct["user"].spot[i], w.s[i]) # 0

borrow_of(w, i) == w.acct["user"].spot[i].type = "Borrow" /\ token_amount(w.acct["user"].spot[i], w.s[i]) # 0

spot_if_fee(w, ai, li, c) ==
  LET shortage == margin_shortage(c)
      u == w.acct["user"]
      tracked == spot_requirement(u, w.s, "Maintenance", li)
  IN  calculate_spot_if_fee(tracked_market_margin_shortage(c, tracked, shortage), token_amount(u.spot[li], w.s[li]), li,
        Token[ai].asset_maint, Premium(Token[ai].liq_fee), Token[li].liab_maint + Buffer, Discount(Token[li].liq_fee))

spot_amounts(w, ai, li, max, c) ==
  LET u == w.acct["user"]
      shortage == margin_shortage(c)
      am == Premium(Token[ai].liq_fee)
      lm == Discount(Token[li].liq_fee)
  IN  {exchange(max, u, "cross", shortage, cover, token_amount(u.spot[li], w.s[li]), price(li), lm,
                token_amount(u.spot[ai], w.s[ai]), price(ai), am) :
         cover \in calculate_liability_transfer_to_cover_margin_shortage(shortage, Token[ai].asset_maint, am,
                     Token[li].liab_maint + Buffer, lm, price(li), spot_if_fee(w, ai, li, c))}

take_over_borrow(w, ai, li, x, if_fee) ==
  LET collected == fee_of(x.liability, if_fee)
      repaid(v) == moved(v, "user", li, x.liability - collected, "Deposit")
      taxed(v) == collect_revenue(v, li, collected)
      owed(v) == moved(v, "liq", li, x.liability, "Borrow")
      given(v) == moved(v, "liq", ai, x.asset, "Deposit")
      paid(v) == moved(v, "user", ai, x.asset, "Borrow")
  IN  Then(Then(Then(Then(repaid(w), taxed), owed), given), paid)

liquidate_spot_transfer(w, ai, li, max, c) ==
  UNION {IF x.allowed = 0 THEN {w}
         ELSE IF x.liability = 0 \/ x.asset = 0 THEN {}
         ELSE {v \in Then(take_over_borrow(w, ai, li, x, spot_if_fee(w, ai, li, c)),
                          LAMBDA y : close_liquidation(y, "cross", margin_shortage(c), x.liability >= x.cover)) : liquidator_meets(v)} :
         x \in spot_amounts(w, ai, li, max, c)}

spot_ready(w, ai, li) == may_liquidate(w, "cross") /\ deposit_of(w, ai) /\ borrow_of(w, li)

liquidate_spot(w, ai, li, max) ==
  IF ~spot_ready(w, ai, li) THEN {}
  ELSE UNION {IF b.done THEN {b.w} ELSE liquidate_spot_transfer(b.w, ai, li, max, b.c) : b \in begin_liquidation(w, "cross")}

(***************************************************************************)
(* liquidate_spot_with_swap: one transaction lends the user's deposit to   *)
(* the liquidator, who swaps it elsewhere and brings back the token owed.  *)
(***************************************************************************)
\* As much of the deposit as covers the shortage without any fee, and 25 bps more.
max_asset_transfer(w, ai, li, c) ==
  LET u == w.acct["user"]
      shortage == margin_shortage(c)
      asset == token_amount(u.spot[ai], w.s[ai])
  IN  {AtMost(asset, x + (x \div 400)) : x \in
         {calculate_asset_transfer_for_liability_transfer(asset, 100, price(ai), cover, 100, price(li)) :
            cover \in {y \in calculate_liability_transfer_to_cover_margin_shortage(shortage, Token[ai].asset_maint, 100,
                              Token[li].liab_maint + Buffer, 100, price(li), Token[li].if_fee) :
                         y # MAX /\ pct(y, calculate_max_pct_to_liquidate(u, "cross", shortage)) # 0}}}

swap_ready(w, ai, li) == may_liquidate(w, "cross") /\ ai # li /\ deposit_of(w, ai) /\ borrow_of(w, li)

\* There is no partial success here: an account that may leave makes it fail.
liquidate_spot_with_swap_begin(w, ai, li, in) ==
  IF ~swap_ready(w, ai, li) THEN {}
  ELSE {b \in begin_liquidation(w, "cross") : ~b.done /\ \E most \in max_asset_transfer(b.w, ai, li, b.c) : in <= most}

liquidate_spot_with_swap_end(w, ai, li, in, out) ==
  LET collected == fee_of(out, Token[li].if_fee)
      shortage == margin_shortage(margin(w, "user", "Maintenance", "cross"))
      repaid(v) == moved(v, "user", li, out - collected, "Deposit")
      taxed(v) == collect_revenue(v, li, collected)
      paid(v) == moved(v, "user", ai, in, "Borrow")
      closed(v) == close_liquidation(v, "cross", shortage, can_exit_liquidation(margin(v, "user", "Maintenance", "cross")))
  IN  IF ~validate_swap_within_liquidation_boundaries(in, out, price(ai), price(li), Premium(Token[ai].liq_fee), Discount(Token[li].liq_fee))
        THEN {}
        ELSE Then(Then(Then(repaid(w), taxed), paid), closed)

\* mutant: what was lent is not counted back
mut_liquidate_spot_with_swap(w, ai, li, in, out) ==
  LET swapped(v) == [v EXCEPT !.s[ai].vault = @ - in]
      valid(v) == validate_spot_market_vault_amount(v.s[ai])
  IN  {v \in UNION {{swapped(x) : x \in liquidate_spot_with_swap_end(b.w, ai, li, in, out)} :
                     b \in liquidate_spot_with_swap_begin(w, ai, li, in)} : valid(v)}

liquidate_spot_with_swap(w, ai, li, in, out) ==
  LET swapped(v) == [v EXCEPT !.s[ai].vault = @ - in, !.s[li].vault = @ + out]
      valid(v) == \A i \in {ai, li} : validate_spot_market_vault_amount(v.s[i])
  IN  {v \in UNION {{swapped(x) : x \in liquidate_spot_with_swap_end(b.w, ai, li, in, out)} :
                     b \in liquidate_spot_with_swap_begin(w, ai, li, in)} : valid(v)}

(***************************************************************************)
(* liquidate_borrow_for_perp_pnl: a borrow against the profit of a closed  *)
(* position.                                                               *)
(***************************************************************************)
borrow_for_pnl_amounts(w, li, max, c) ==
  LET u == w.acct["user"]
      shortage == margin_shortage(c)
      am == Premium(Perp.liq_fee)
      lm == Discount(Token[li].liq_fee)
  IN  {exchange(max, u, "cross", shortage, cover, token_amount(u.spot[li], w.s[li]), price(li), lm, u.pos.quote, 1, am) :
         cover \in calculate_liability_transfer_to_cover_margin_shortage(shortage, 100, am,
                     Token[li].liab_maint + Buffer, lm, price(li), 0)}

borrow_for_pnl_transfer(w, li, max, c) ==
  LET over(x, v) == Then(moved(v, "user", li, x.liability, "Deposit"),
                         LAMBDA y : moved(y, "liq", li, x.liability, "Borrow"))
      quoted(x, v) == pay_quote(pay_quote(v, "liq", x.asset), "user", -x.asset)
  IN  UNION {IF x.allowed = 0 THEN {w}
             ELSE IF x.liability = 0 \/ x.asset = 0 THEN {}
             ELSE {v \in Then({quoted(x, y) : y \in over(x, w)},
                              LAMBDA y : close_liquidation(y, "cross", margin_shortage(c), x.liability >= x.cover)) : liquidator_meets(v)} :
             x \in borrow_for_pnl_amounts(w, li, max, c)}

borrow_for_pnl_ready(w, li) ==
  LET u == w.acct["user"]
  IN  may_liquidate(w, "cross") /\ borrow_of(w, li) /\ u.pos.base = 0 /\ u.pos.quote > 0 /\ ~u.isolated

liquidate_borrow_for_perp_pnl(w, li, max) ==
  LET v == settled(w)
  IN  IF ~borrow_for_pnl_ready(w, li) THEN {}
      ELSE UNION {IF b.done THEN {b.w} ELSE borrow_for_pnl_transfer(b.w, li, max, b.c) : b \in begin_liquidation(v, "cross")}

(***************************************************************************)
(* liquidate_perp_pnl_for_deposit: the loss of a closed position against a *)
(* deposit, the isolated position's own or one of the account's.           *)
(***************************************************************************)
collateral_of(a, mode, i) == IF mode = "isolated" THEN a.iso ELSE a.spot[i]

with_collateral(a, mode, i, b) == IF mode = "isolated" THEN [a EXCEPT !.iso = b] ELSE [a EXCEPT !.spot[i] = b]

\* A borrow in a safer token goes first.
is_contract_tier_violation(a, mode) ==
  mode = "cross" /\ \E i \in Tokens : Token[i].safer /\ a.spot[i].bal > 0 /\ a.spot[i].type = "Borrow"

pnl_for_deposit_amounts(w, mode, ai, max, c) ==
  LET u == w.acct["user"]
      shortage == margin_shortage(c)
      am == Premium(Token[ai].liq_fee)
      lm == Discount(Perp.liq_fee)
  IN  {exchange(max, u, mode, shortage, cover, -u.pos.quote, 1, lm,
                token_amount(collateral_of(u, mode, ai), w.s[ai]), price(ai), am) :
         cover \in calculate_liability_transfer_to_cover_margin_shortage(shortage, Token[ai].asset_maint, am, 100 + Buffer, lm, 1, 0)}

pnl_for_deposit_transfer(w, mode, ai, max, c) ==
  LET given(x, v) == moved(v, "liq", ai, x.asset, "Deposit")
      paid(x, v) == {[v EXCEPT !.acct["user"] = with_collateral(@, mode, ai, r.b), !.s[ai] = r.k] :
                       r \in update_spot_balances(x.asset, "Borrow", v.s[ai], collateral_of(v.acct["user"], mode, ai), FALSE)}
      quoted(x, v) == pay_quote(pay_quote(v, "liq", -x.liability), "user", x.liability)
  IN  UNION {IF x.allowed = 0 THEN {w}
             ELSE IF x.liability = 0 \/ x.asset = 0 THEN {}
             ELSE {v \in Then({quoted(x, y) : y \in Then(given(x, w), LAMBDA z : paid(x, z))},
                              LAMBDA y : close_liquidation(y, mode, margin_shortage(c), x.liability >= x.cover)) : liquidator_meets(v)} :
             x \in pnl_for_deposit_amounts(w, mode, ai, max, c)}

pnl_for_deposit_ready(w, mode, ai) ==
  LET u == w.acct["user"]
      asset == collateral_of(u, mode, ai)
  IN  /\ may_liquidate(w, mode)
      /\ mode = "isolated" => ai = 0
      /\ asset.type = "Deposit" /\ token_amount(asset, w.s[ai]) # 0
      /\ u.pos.base = 0 /\ u.pos.quote < 0

\* With orders cancelled the handler stops at a tier violation and keeps what it did;
\* without any it fails.
liquidate_perp_pnl_for_deposit(w, ai, max) ==
  LET u == w.acct["user"]
      mode == get_perp_liquidation_mode(u)
      v == settled(w)
      riskier(b) == is_contract_tier_violation(b.w.acct["user"], mode)
      cancelled(b) == b.w.acct["user"].pos.open_orders # u.pos.open_orders
  IN  IF ~pnl_for_deposit_ready(w, mode, ai) THEN {}
      ELSE UNION {IF b.done \/ (riskier(b) /\ cancelled(b)) THEN {b.w}
                  ELSE IF riskier(b) THEN {}
                  ELSE pnl_for_deposit_transfer(b.w, mode, ai, max, b.c) : b \in begin_liquidation(v, mode)}

(***************************************************************************)
(* Bankruptcy.                                                             *)
(***************************************************************************)
\* mutant: the fund may be emptied
mut_available_insurance(k) == k.if_vault

\* The vault of the insurance fund always keeps one.
available_insurance(k) == AtLeast(k.if_vault - 1, 0)

enters(a, mode) == IF should_user_enter_bankruptcy(a, mode) THEN enter_bankruptcy(a, mode) ELSE a

leaves(a, mode) == IF should_user_enter_bankruptcy(a, mode) THEN a ELSE exit_bankruptcy(a, mode)

may_resolve(w, a, mode) == is_user_bankrupt(a, mode) /\ ~is_being_liquidated(w.acct["liq"]) /\ calculable(a, w.s)

\* The insurance fund pays into the pnl pool, up to what the market may claim.
pay_from_insurance(w, loss) ==
  LET payment == AtMost(AtMost(loss, available_insurance(w.s[0])), Perp.max_insurance - w.k.settled)
  IN  {[payment |-> payment,
        w |-> [w EXCEPT !.s[0] = [r.k EXCEPT !.vault = @ + payment, !.if_vault = @ - payment],
                        !.k.pnl_pool = r.b, !.k.settled = @ + payment]] :
         r \in update_spot_balances(payment, "Deposit", w.s[0], w.k.pnl_pool, FALSE)}

\* mutant: the market still counts the fee pool's payment as a deposit
mut_pay_from_fee_pool(w, rest) ==
  LET payment == AtMost(rest, token_amount(w.k.fee_pool, w.s[0]))
  IN  IF payment = 0 THEN {[payment |-> 0, w |-> w]}
      ELSE {[payment |-> payment, w |-> [w EXCEPT !.k.fee_pool = r.b]] :
              r \in update_spot_balances(payment, "Borrow", w.s[0], w.k.fee_pool, FALSE)}

\* What it cannot pay the fee pool does.
pay_from_fee_pool(w, rest) ==
  LET payment == AtMost(rest, token_amount(w.k.fee_pool, w.s[0]))
  IN  IF payment = 0 THEN {[payment |-> 0, w |-> w]}
      ELSE {[payment |-> payment, w |-> [w EXCEPT !.s[0] = r.k, !.k.fee_pool = r.b]] :
              r \in update_spot_balances(payment, "Borrow", w.s[0], w.k.fee_pool, FALSE)}

open_base(m) == Abs(m.base["Long"]) + Abs(m.base["Short"])

\* mutant: rounded down
mut_calculate_funding_rate_deltas_to_resolve_bankruptcy(rest, m) ==
  IF open_base(m) = 0 THEN {} ELSE {((rest * ReservePrecision) \div open_base(m)) * RateRatio}

\* Without an open position there is nobody to share with: an error, also when
\* nothing is left to share.
calculate_funding_rate_deltas_to_resolve_bankruptcy(rest, m) ==
  IF open_base(m) = 0 THEN {} ELSE {CeilDiv(rest * ReservePrecision, open_base(m)) * RateRatio}

\* mutant: the shorts receive what the longs pay
mut_socialize(w, rest) ==
  {[w EXCEPT !.m.funding = [s \in Sides |-> @[s] + delta], !.k.social = @ + rest] :
     delta \in calculate_funding_rate_deltas_to_resolve_bankruptcy(rest, w.m)}

\* Both sides pay the rest as funding.
socialize(w, rest) ==
  {[w EXCEPT !.m.funding = [s \in Sides |-> IF s = "Long" THEN @[s] + delta ELSE @[s] - delta],
             !.k.social = @ + rest] : delta \in calculate_funding_rate_deltas_to_resolve_bankruptcy(rest, w.m)}

loss_cleared(w, mode, loss) ==
  LET x == pay_quote(w, "user", loss) IN [x EXCEPT !.acct["user"] = leaves(@, mode)]

resolve_perp_bankruptcy(w) ==
  LET mode == get_perp_liquidation_mode(w.acct["user"])
      a == enters(w.acct["user"], mode)
      loss == -a.pos.quote
      start == [w EXCEPT !.acct["user"] = a]
      counted(v, paid) == [v EXCEPT !.k.paid = @ + paid]
      shared(i) == UNION {{counted(v, i.payment + f.payment) : v \in socialize(f.w, loss - i.payment - f.payment)} :
                           f \in pay_from_fee_pool(i.w, loss - i.payment)}
  IN  IF \/ ~may_resolve(w, a, mode) \/ loss <= 0 \/ ~validate_spot_market_vault_amount(w.s[0]) THEN {}
      ELSE {v \in {loss_cleared(x, mode, loss) : x \in UNION {shared(i) : i \in pay_from_insurance(start, loss)}} :
              validate_spot_market_vault_amount(v.s[0])}

\* Every deposit shrinks by its share of the loss.
calculate_cumulative_deposit_interest_delta_to_resolve_bankruptcy(loss, k) ==
  IF deposits(k) = 0 THEN 0 ELSE CeilDiv(k.cdi * loss, deposits(k))

resolve_spot_bankruptcy(w, i) ==
  LET a == enters(w.acct["user"], "cross")
      owed == token_amount(a.spot[i], w.s[i])
      payment == AtMost(owed, available_insurance(w.s[i]))
      delta == calculate_cumulative_deposit_interest_delta_to_resolve_bankruptcy(owed - payment, w.s[i])
      start == [w EXCEPT !.acct["user"] = a]
      written(v) == [v EXCEPT !.s[i].cdi = @ - delta, !.s[i].vault = @ + payment, !.s[i].if_vault = @ - payment,
                              !.acct["user"] = leaves(@, "cross")]
  IN  IF \/ ~may_resolve(w, a, "cross") \/ a.spot[i].type # "Borrow" \/ a.spot[i].bal = 0
         \/ delta > w.s[i].cdi \/ ~validate_spot_market_vault_amount(w.s[i]) THEN {}
      ELSE {v \in {written(x) : x \in moved(start, "user", i, owed, "Deposit")} : validate_spot_market_vault_amount(v.s[i])}

\* Anyone may mark an account that is short.
set_user_status_to_being_liquidated(w) ==
  LET u == w.acct["user"]
      short == {mode \in Modes : (mode = "isolated" => u.isolated) /\ ~meets(margin(w, "user", "Maintenance", mode))}
      a == IF "cross" \in short THEN enter_liquidation(u, "cross") ELSE u
      b == IF "isolated" \in short THEN enter_liquidation(a, "isolated") ELSE a
  IN  IF is_being_liquidated(u) \/ short = {} \/ ~calculable(u, w.s) THEN {}
      ELSE {[w EXCEPT !.acct["user"] = b]}

(***************************************************************************)
(* Specification.                                                          *)
(***************************************************************************)
Init ==
  /\ \E o \in Openings :
       /\ acct = o.acct /\ market = o.m /\ spot = o.s /\ pools = o.k
       /\ oracle = o.oracle /\ token_price = o.token_price
  /\ slot = 0 /\ moves = 0 /\ ops = 0

Becomes(worlds) ==
  /\ \E w \in worlds : acct' = w.acct /\ market' = w.m /\ spot' = w.s /\ pools' = w.k
  /\ ops < MaxOps /\ ops' = ops + 1
  /\ UNCHANGED <<oracle, token_price, slot, moves>>

LiquidatePerp(max) == Becomes(liquidate_perp(World, max))

LiquidatePerpWithFill(n, p) == Becomes(liquidate_perp_with_fill(World, n, p))

LiquidateSpot(ai, max) == Becomes(liquidate_spot(World, ai, 1 - ai, max))

LiquidateSpotWithSwap(ai, in, out) == Becomes(liquidate_spot_with_swap(World, ai, 1 - ai, in, out))

LiquidateBorrowForPerpPnl(li, max) == Becomes(liquidate_borrow_for_perp_pnl(World, li, max))

LiquidatePerpPnlForDeposit(ai, max) == Becomes(liquidate_perp_pnl_for_deposit(World, ai, max))

ResolvePerpBankruptcy == Becomes(resolve_perp_bankruptcy(World))

ResolveSpotBankruptcy(i) == Becomes(resolve_spot_bankruptcy(World, i))

SetUserStatusToBeingLiquidated == Becomes(set_user_status_to_being_liquidated(World))

\* Any trader's funding may be settled at any time.
SettleFunding == Becomes({settle_funding(World, "other")})

\* The world outside.
MovePrices ==
  /\ moves < MaxMoves
  /\ moves' = moves + 1
  /\ oracle' \in Prices /\ token_price' \in TokenPrices
  /\ UNCHANGED <<acct, market, spot, pools, slot, ops>>

NextSlot ==
  /\ slot < MaxSlot
  /\ slot' = slot + 1
  /\ UNCHANGED <<acct, market, spot, pools, oracle, token_price, moves, ops>>

Next ==
  \/ \E max \in Takes :
       \/ LiquidatePerp(max)
       \/ \E p \in Prices : LiquidatePerpWithFill(max, p)
       \/ \E i \in Tokens :
            \/ LiquidateSpot(i, max)
            \/ \E out \in Takes : LiquidateSpotWithSwap(i, max, out)
            \/ LiquidateBorrowForPerpPnl(i, max)
            \/ LiquidatePerpPnlForDeposit(i, max)
  \/ ResolvePerpBankruptcy
  \/ \E i \in Tokens : ResolveSpotBankruptcy(i)
  \/ SetUserStatusToBeingLiquidated
  \/ SettleFunding
  \/ MovePrices
  \/ NextSlot

Spec == Init /\ [][Next]_vars

(***************************************************************************)
(* Properties.                                                             *)
(***************************************************************************)
Balances(i) ==
  {<<n, acct[n].spot[i]>> : n \in Accounts} \union {<<"revenue", spot[i].revenue>>}
    \union (IF i = 0 THEN {<<"iso", acct["user"].iso>>, <<"pnl", pools.pnl_pool>>, <<"fee", pools.fee_pool>>} ELSE {})

SumOfKind(i, type) == MapThenSumSet(LAMBDA x : IF x[2].type = type THEN x[2].bal ELSE 0, Balances(i))

\* TypeOK: flags are a liquidation's or a bankruptcy's, never both; sums and
\* balances are unsigned (u128 in state/spot_market.rs); a pool never owes.
TypeOK ==
  /\ \A n \in Accounts :
       /\ acct[n].status \in {{}, {"BeingLiquidated"}, {"Bankrupt"}}
       /\ acct[n].flag \in {{}, {"BeingLiquidated"}, {"Bankrupt"}}
       /\ acct[n].freed \in Nat /\ acct[n].last_slot \in 0..slot /\ acct[n].liquidations \in Nat
  /\ \A i \in Tokens :
       /\ \A x \in Balances(i) : x[2].bal \in Nat /\ x[2].type \in BalanceTypes
       /\ {spot[i].dep, spot[i].bor, spot[i].cdi, spot[i].cbi, spot[i].vault} \subseteq Nat
  /\ {pools.settled, pools.liq_fee, pools.paid, pools.social} \subseteq Nat
  /\ slot \in 0..MaxSlot /\ moves \in 0..MaxMoves /\ ops \in 0..MaxOps

\* What each token's market says is deposited and borrowed is what the accounts,
\* the pools and the isolated deposit hold together, through every exchange a
\* liquidation makes (controller/spot_balance.rs update_spot_balances).
BalancesExact ==
  \A i \in Tokens : spot[i].dep = SumOfKind(i, "Deposit") /\ spot[i].bor = SumOfKind(i, "Borrow")

\* The vault holds what depositors could take out beyond what is lent, but for what
\* a repaid borrow is rounded by, also after a bankrupt account's debt was written
\* off (math/spot_withdraw.rs validate_spot_market_vault_amount).
VaultCovers == \A i \in Tokens : spot[i].vault + Rounding >= deposits(spot[i]) - borrows(spot[i])

\* A bankrupt account has nothing left that could have paid: no deposit, no base,
\* no orders, no profit, and it owes something (math/bankruptcy.rs).
BankruptHasNothing ==
  LET u == acct["user"]
      idle == u.pos.base = 0 /\ ~has_open_order(u) /\ u.pos.quote <= 0
  IN  /\ "Bankrupt" \in u.status =>
           /\ \A i \in Tokens : u.spot[i].bal > 0 => u.spot[i].type = "Borrow"
           /\ ~u.isolated => idle
           /\ u.spot[0].bal + u.spot[1].bal > 0 \/ (~u.isolated /\ u.pos.quote < 0)
      /\ "Bankrupt" \in u.flag => u.isolated /\ u.iso.bal = 0 /\ idle /\ u.pos.quote < 0

PositionSum(f(_)) == MapThenSumSet(LAMBDA n : f(acct[n].pos), Accounts)

\* The market's totals are those of the positions (controller/position.rs).
TotalsExact ==
  /\ \A s \in Sides : market.base[s] = PositionSum(LAMBDA p : IF p.base # 0 /\ get_direction(p.base) = s THEN p.base ELSE 0)
  /\ market.quote = PositionSum(LAMBDA p : p.quote)
  /\ market.with_amm = PositionSum(LAMBDA p : p.base)
  /\ market.users = Cardinality({n \in Accounts : has_position(acct[n].pos)})

\* However debts are passed on, written off and shared, what all traders hold once
\* their funding is settled stays within what they put in, less the fees taken from
\* them and plus what the insurance fund and the fee pool paid for bankrupt ones, but
\* for what their shares of a loss were rounded down by, each by less than one
\* (controller/liquidation.rs resolve_perp_bankruptcy, math/funding.rs).
LossesPaid ==
  LET held == PositionSum(LAMBDA p : p.quote + pending_funding(p, market).payment)
      rounded == market.rounded + PositionSum(LAMBDA p : pending_funding(p, market).rounded)
  IN  FundingDivisor * (held + market.curve + market.fees + pools.liq_fee - pools.paid) <= rounded

\* The insurance fund never pays a market more than its allowance and keeps at
\* least one token, whatever is asked of it (controller/liquidation.rs:3392).
InsuranceKept == pools.settled <= Perp.max_insurance /\ \A i \in Tokens : spot[i].if_vault >= 1

\* Markets and vaults agree with what the accounts and the pools hold.
BooksExact == TypeOK /\ BalancesExact /\ VaultCovers /\ TotalsExact

\* A bankruptcy is one, and somebody pays for it within their limits.
BankruptcySound == BankruptHasNothing /\ LossesPaid /\ InsuranceKept

\* An isolated position and the rest of the account do not pay for each other: no
\* step changes both the account's balances and its isolated position
\* (state/liquidation_mode.rs).
MarginsSeparate ==
  [][acct["user"].isolated =>
       \/ acct'["user"].spot = acct["user"].spot
       \/ acct'["user"].pos = acct["user"].pos /\ acct'["user"].iso = acct["user"].iso]_vars
=============================================================================
