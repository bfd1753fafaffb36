----------------------------- MODULE DriftOrders -----------------------------
(***************************************************************************)
(* The orders of one perpetual market of programs/drift: controller/       *)
(* orders.rs with the instruction handlers that call it.                   *)
(*                                                                         *)
(* A trader's account keeps a few order slots and counts, beside the       *)
(* orders, how many are open, how many started with an auction and how     *)
(* much base they could still buy or sell.  Anybody may ask for an order   *)
(* to be filled: the request names makers, and the order is matched with   *)
(* their best orders and with the market's own reserves in turn.  Every    *)
(* step of it moves positions, fees and counters of two or three accounts. *)
(*                                                                         *)
(* A handler is an operator on a world [user, m] (the accounts and the     *)
(* market) that returns the set of worlds it may leave, empty when it      *)
(* errors.  The reserves quote one price for each side and fill any part   *)
(* of an order; the price of an auction under way is any of Prices.        *)
(* Left out: isolated positions, builder codes and referrers, protected    *)
(* makers, oracle validity (taken to be valid) and volumes.                *)
(***************************************************************************)
EXTENDS DriftPositions, SequencesExt, FiniteSetsExt

CONSTANTS
  Users, Slots,
  Templates, Changes,   \* model bound: what orders are placed and changed with
  Openings,             \* model bound: the order a first trade was made with
  Deposit,              \* the collateral of each user
  Bid, Mid, Ask,        \* the prices of the reserves
  Prices,               \* model bound: oracle and auction prices
  StepSize, MinOrderSize,
  MaxOI,                \* max_open_interest, 0 for none
  FeeNum, RebateNum, FillerNum, FeeDen, FlatFee,
  MarginInitial, MarginMaintenance, MarginBuffer, MarginPrecision,
  OrderMargin,          \* OPEN_ORDER_MARGIN_REQUIREMENT
  AuctionDuration,      \* in slots; one unit of now is a slot
  MarketExpiry,         \* the lifetime of a market order
  FundingRates, FundingPeriod,
  MaxNow, MaxOps        \* model bounds: time, and calls of handlers

ASSUME OrdersAssumption ==
  /\ Slots \in Nat \ {0} /\ StepSize \in Nat \ {0} /\ MinOrderSize \in Nat
  /\ Bid \in Nat /\ Mid \in Nat /\ Ask \in Nat /\ Bid <= Mid /\ Mid <= Ask
  /\ FeeDen \in Nat \ {0} /\ MarginPrecision \in Nat \ {0}

VARIABLES
  users,     \* the traders' accounts
  market,
  oracle,    \* the oracle's price
  now,
  ops        \* calls so far

vars == <<users, market, oracle, now, ops>>

SlotIds == 1..Slots

NoOrder ==
  [status |-> "Init", type |-> "Limit", dir |-> "Long", id |-> 0, uid |-> 0, base |-> 0,
   filled |-> 0, price |-> 0, reduce_only |-> FALSE, post_only |-> FALSE, ioc |-> FALSE,
   trigger |-> "Above", trigger_price |-> 0, auction |-> 0, max_ts |-> 0, slot |-> 0,
   new_trigger_reduce_only |-> FALSE]

NewUser ==
  [orders |-> [i \in SlotIds |-> NoOrder], pos |-> NoPosition, next_id |-> 1,
   open_orders |-> 0, open_auctions |-> 0, reduce_only |-> FALSE, liquidated |-> FALSE]

(***************************************************************************)
(* An order.                                                               *)
(***************************************************************************)
is_open(o) == o.status = "Open"

has_auction(o) == o.auction # 0

is_auction_complete(o) == o.auction = 0 \/ now - o.slot > o.auction

must_be_triggered(o) == o.type \in {"TriggerMarket", "TriggerLimit"}

triggered(o) == o.trigger \in {"TriggeredAbove", "TriggeredBelow"}

is_jit_maker(o) == o.post_only /\ o.ioc

is_limit_order(o) == o.type \in {"Limit", "TriggerLimit"}

is_resting_limit_order(o) == is_limit_order(o) /\ (o.post_only \/ is_auction_complete(o))

\* mutant: reduce-only trigger orders count once they are triggered
mut_update_open_bids_and_asks(o) == ~must_be_triggered(o) \/ triggered(o) \/ o.reduce_only

\* Whether the order counts among the position's open bids and asks.
update_open_bids_and_asks(o) ==
  \/ ~must_be_triggered(o)
  \/ triggered(o) /\ ~(o.reduce_only /\ o.new_trigger_reduce_only)

\* mutant: a reduce-only order may be filled beyond the position
mut_get_base_asset_amount_unfilled(o, base) == o.base - o.filled

get_base_asset_amount_unfilled(o, base) ==
  LET unfilled == o.base - o.filled
  IN  IF ~o.reduce_only THEN unfilled
      ELSE IF base = 0 \/ get_direction(base) = o.dir THEN 0
      ELSE AtMost(unfilled, Abs(base))

\* The limit price of an order: that of its auction, its own, or none (0).
get_limit_price(o, auction_price) ==
  IF has_auction(o) /\ ~is_auction_complete(o) THEN auction_price ELSE o.price

should_expire_order(o) == is_open(o) /\ o.max_ts # 0 /\ ~must_be_triggered(o) /\ now > o.max_ts

should_cancel_reduce_only_order(o, base) ==
  is_open(o) /\ o.reduce_only /\ get_base_asset_amount_unfilled(o, base) < StepSize

is_order_position_reducing(dir, amount, base) ==
  /\ base # 0 /\ get_direction(base) # dir
  /\ amount <= Abs(base)

is_new_order_risk_increasing(o, p) ==
  /\ ~o.reduce_only
  /\ IF o.dir = "Long" THEN p.base >= 0 \/ p.open_bids + o.base > Abs(p.base)
     ELSE p.base <= 0 \/ Abs(p.open_asks - o.base) > p.base

order_satisfies_trigger_condition(o) ==
  IF o.trigger = "Above" THEN oracle > o.trigger_price ELSE oracle < o.trigger_price

do_orders_cross(maker_dir, maker_price, taker_price) ==
  IF maker_dir = "Long" THEN taker_price <= maker_price ELSE taker_price >= maker_price

standardize_base_asset_amount(base) == base - (base % StepSize)

(***************************************************************************)
(* Margin.  The account holds Deposit of collateral and one position.      *)
(***************************************************************************)
margin_requirement(u, ratio) ==
  CeilDiv(worst_case_liability_value(u.pos, oracle) * ratio, MarginPrecision)
    + u.pos.open_orders * OrderMargin

total_collateral(u) == Deposit + pnl_with_oracle_price(u.pos, oracle)

meets_margin_requirement(u, ratio) == total_collateral(u) >= margin_requirement(u, ratio)

\* The ratio of margin type Fill lies half way between the other two.
MarginFill == (MarginInitial + MarginMaintenance) \div 2

\* Clears the flag of an account that has recovered, and fails if it has not.
validate_user_not_being_liquidated(u) ==
  CASE ~u.liquidated -> {u}
    [] u.liquidated /\ meets_margin_requirement(u, MarginMaintenance + MarginBuffer) ->
         {[u EXCEPT !.liquidated = FALSE]}
    [] OTHER -> {}

(***************************************************************************)
(* Counting and cancelling.                                                *)
(***************************************************************************)
increment_open_orders(u, auction) ==
  [u EXCEPT !.open_orders = @ + 1, !.open_auctions = IF auction THEN @ + 1 ELSE @]

decrement_open_orders(u, auction) ==
  [u EXCEPT !.open_orders = AtLeast(@ - 1, 0),
            !.open_auctions = IF auction THEN AtLeast(@ - 1, 0) ELSE @]

\* mutant: what an order had filled stays counted in the bids and asks
mut_cancelled(u, i) ==
  LET o == u.orders[i]
      v == decrement_open_orders(u, has_auction(o))
  IN  [v EXCEPT !.orders[i].status = "Canceled",
                !.pos = [decrease_open_bids_and_asks(@, o.dir, o.base, update_open_bids_and_asks(o))
                           EXCEPT !.open_orders = @ - 1]]

\* cancel_order, for an open order
cancelled(u, i) ==
  LET o == u.orders[i]
      v == decrement_open_orders(u, has_auction(o))
  IN  [v EXCEPT !.orders[i].status = "Canceled",
                !.pos = [decrease_open_bids_and_asks(@, o.dir, o.base - o.filled,
                                                     update_open_bids_and_asks(o))
                           EXCEPT !.open_orders = @ - 1]]

cancel_order(u, i) == IF is_open(u.orders[i]) THEN {cancelled(u, i)} ELSE {}

cancel_all(u, S) == FoldSet(LAMBDA i, v : cancelled(v, i), u, S)

cancel_orders(u, dirs) == cancel_all(u, {i \in SlotIds : is_open(u.orders[i]) /\ u.orders[i].dir \in dirs})

expire_orders(u) == cancel_all(u, {i \in SlotIds : should_expire_order(u.orders[i])})

cancel_reduce_only_trigger_orders(u) ==
  cancel_all(u, {i \in SlotIds : LET o == u.orders[i]
                                 IN  /\ is_open(o) /\ o.reduce_only
                                     /\ must_be_triggered(o) /\ ~triggered(o)})

(***************************************************************************)
(* Placing.                                                                *)
(***************************************************************************)
\* Market and oracle orders always have an auction; a limit order that would
\* cross the market's estimated bid or ask is given one unless it is post only.
update_perp_auction_params(params) ==
  LET crosses == IF params.dir = "Long" THEN params.price > Ask ELSE params.price < Bid
  IN  CASE params.type \in {"Market", "Oracle"} -> AuctionDuration
        [] params.type = "Limit" ->
             IF params.auction \/ (params.post_only = "None" /\ crosses) THEN AuctionDuration ELSE 0
        [] OTHER -> 0

order_max_ts(params) ==
  CASE params.max_ts >= 0 -> params.max_ts
    [] params.max_ts < 0 /\ params.type \in {"Market", "Oracle"} -> now + MarketExpiry
    [] OTHER -> 0

\* A Slide order moves away from the reserves' price instead of crossing it.
get_price_for_perp_order(params) ==
  IF params.post_only # "Slide" THEN params.price
  ELSE IF params.dir = "Long" THEN AtMost(params.price, Ask - 1) ELSE AtLeast(params.price, Bid + 1)

\* mutant: the slot's flag is that of its previous order
mut_new_order(u, params, force_reduce_only) ==
  [status |-> "Open", type |-> params.type, dir |-> params.dir, id |-> u.next_id,
   uid |-> params.uid, base |-> standardize_base_asset_amount(params.base), filled |-> 0,
   price |-> get_price_for_perp_order(params),
   reduce_only |-> params.reduce_only, post_only |-> params.post_only # "None",
   ioc |-> params.ioc, trigger |-> params.trigger, trigger_price |-> params.trigger_price,
   auction |-> update_perp_auction_params(params), max_ts |-> order_max_ts(params), slot |-> now,
   new_trigger_reduce_only |-> params.reduce_only]

new_order(u, params, force_reduce_only) ==
  LET reduce_only == params.reduce_only \/ force_reduce_only
  IN  [status |-> "Open", type |-> params.type, dir |-> params.dir, id |-> u.next_id,
       uid |-> params.uid, base |-> standardize_base_asset_amount(params.base), filled |-> 0,
       price |-> get_price_for_perp_order(params),
       reduce_only |-> reduce_only, post_only |-> params.post_only # "None",
       ioc |-> params.ioc, trigger |-> params.trigger, trigger_price |-> params.trigger_price,
       auction |-> update_perp_auction_params(params), max_ts |-> order_max_ts(params),
       slot |-> now,
       new_trigger_reduce_only |-> reduce_only /\ params.type \in {"TriggerMarket", "TriggerLimit"}]

validate_base_asset_amount(o) ==
  /\ o.base > 0 /\ o.base % StepSize = 0
  /\ o.reduce_only \/ (o.type = "Limit" /\ is_jit_maker(o)) \/ o.base >= MinOrderSize

validate_market_order(o) == o.trigger_price = 0 /\ ~o.post_only /\ ~o.ioc

validate_oracle_order(o) == o.trigger_price = 0 /\ ~o.post_only /\ ~o.ioc /\ o.price = 0

\* A post-only limit order has no auction.
validate_limit_order(o) == o.price # 0 /\ o.trigger_price = 0 /\ (o.post_only => ~has_auction(o))

validate_trigger_limit_order(o) ==
  o.trigger \in {"Above", "Below"} /\ o.price # 0 /\ o.trigger_price # 0 /\ ~o.post_only

validate_trigger_market_order(o) ==
  o.trigger \in {"Above", "Below"} /\ o.price = 0 /\ o.trigger_price # 0 /\ ~o.post_only

\* Which prices, flags and sizes an order of each type may have.
validate_order(o) ==
  /\ validate_base_asset_amount(o)
  /\ CASE o.type = "Market"        -> validate_market_order(o)
       [] o.type = "Oracle"        -> validate_oracle_order(o)
       [] o.type = "Limit"         -> validate_limit_order(o)
       [] o.type = "TriggerLimit"  -> validate_trigger_limit_order(o)
       [] o.type = "TriggerMarket" -> validate_trigger_market_order(o)

\* A post-only order that the reserves would fill at once, on the wrong side of
\* the oracle.
post_only_failure(o) ==
  /\ o.type = "Limit" /\ o.post_only /\ ~is_jit_maker(o)
  /\ IF o.dir = "Long" THEN o.price > Ask /\ oracle <= o.price
     ELSE o.price < Bid /\ oracle >= o.price

order_placed(u, i, o) ==
  LET v == increment_open_orders(u, has_auction(o))
  IN  [v EXCEPT !.orders[i] = o, !.next_id = @ + 1,
                !.pos = [increase_open_bids_and_asks(@, o.dir, o.base, update_open_bids_and_asks(o))
                           EXCEPT !.open_orders = @ + 1]]

\* The market's cap on open interest, as the order could raise it.
oi_allows(m, o, risk_increasing) ==
  \/ MaxOI = 0 \/ ~risk_increasing
  \/ IF o.dir = "Long" THEN Abs(m.base["Long"] + o.base) <= MaxOI
     ELSE Abs(m.base["Short"] - o.base) <= MaxOI

place_margin_ratio(risk_increasing) == IF risk_increasing THEN MarginInitial ELSE MarginMaintenance

validate_order_for_force_reduce_only(o, base) ==
  o.reduce_only /\ base # 0 /\ o.dir # get_direction(base)

\* mutant: a full account overwrites its first slot
mut_free_slot(u) == IF \E i \in SlotIds : ~is_open(u.orders[i]) THEN
                      {CHOOSE i \in SlotIds : ~is_open(u.orders[i])} ELSE {1}

free_slot(u) ==
  {i \in SlotIds : ~is_open(u.orders[i]) /\ \A j \in 1..(i - 1) : is_open(u.orders[j])}

user_order_id_used(u, uid) == uid > 0 /\ \E i \in SlotIds : u.orders[i].uid = uid /\ is_open(u.orders[i])

\* The order goes into its slot, unless it is invalid, beyond the margin of the
\* account or beyond the market's open interest.  One whose time has passed, or
\* that wanted to be post only and cannot be, is skipped: the call succeeds.
order_accepted(u, m, params, enforce_margin, liquidation) ==
  LET force == m.status = "ReduceOnly"
      o == new_order(u, params, force)
      risk == is_new_order_risk_increasing(o, u.pos)
      too_late == o.max_ts # 0 /\ o.max_ts < now
      v(i) == order_placed(u, i, o)
  IN  CASE too_late -> {u}
        [] ~too_late /\ ~validate_order(o) -> {}
        [] ~too_late /\ validate_order(o) /\ post_only_failure(o) ->
             IF params.post_only = "Try" THEN {u} ELSE {}
        [] OTHER ->
             {v(i) : i \in {j \in free_slot(u) :
                /\ enforce_margin /\ ~liquidation
                     => meets_margin_requirement(v(j), place_margin_ratio(risk))
                /\ force => validate_order_for_force_reduce_only(o, u.pos.base)
                /\ oi_allows(m, o, risk)}}

place_perp_order(u0, m, params, expire, enforce_margin, liquidation) ==
  LET not_liquidated == IF liquidation THEN {u0} ELSE validate_user_not_being_liquidated(u0)
      ready == {IF expire THEN expire_orders(u) ELSE u : u \in not_liquidated}
  IN  UNION {order_accepted(u, m, params, enforce_margin, liquidation) : u \in {x \in ready :
        /\ x.reduce_only => params.reduce_only
        /\ free_slot(x) # {}
        /\ ~user_order_id_used(x, params.uid)
        /\ params.base >= StepSize
        /\ m.status \notin {"Initialized", "Settlement"}}}

(***************************************************************************)
(* Rewards and fees.                                                       *)
(***************************************************************************)
NoFiller == "none"

\* The account and the market after a payment into the position.
paid(w, u, r) == [w EXCEPT !.user[u].pos = r.p, !.m = r.m]

credit(w, u, amount) == paid(w, u, update_quote_asset_amount(w.user[u].pos, w.m, amount))

debit(w, u, amount) == paid(w, u, update_quote_asset_and_break_even_amount(w.user[u].pos, w.m, -amount))

settled(w, u) == paid(w, u, settle_funding_payment(w.user[u].pos, w.m))

\* mutant: the filler is paid and the order's owner is not charged
mut_pay_keeper_flat_reward_for_perps(w, u, filler) ==
  IF filler = NoFiller THEN w ELSE credit(w, filler, FlatFee)

pay_keeper_flat_reward_for_perps(w, u, filler) ==
  IF filler = NoFiller THEN w ELSE credit(debit(w, u, FlatFee), filler, FlatFee)

calculate_taker_fee(quote) == CeilDiv(quote * FeeNum, FeeDen)

calculate_maker_rebate(quote) == (quote * RebateNum) \div FeeDen

calculate_filler_reward(fee, filler) == IF filler = NoFiller THEN 0 ELSE (fee * FillerNum) \div FeeDen

\* FillFees of a fill by the reserves; no outcome when a post-only order's surplus
\* does not pay its rebate.
calculate_fee_for_fulfillment_with_amm(quote, surplus, post_only, filler) ==
  LET rebate == calculate_maker_rebate(quote)
      fee == IF post_only THEN surplus - rebate ELSE calculate_taker_fee(quote)
      reward == calculate_filler_reward(fee, filler)
  IN  IF post_only /\ fee < 0 THEN {}
      ELSE IF post_only
        THEN {[user_fee |-> 0, rebate |-> rebate, reward |-> reward, to_market |-> fee - reward]}
        ELSE {[user_fee |-> fee, rebate |-> 0, reward |-> reward, to_market |-> fee - reward + surplus]}

\* mutant: the maker's rebate is not taken from the market's share
mut_calculate_fee_for_fulfillment_with_match(quote, filler) ==
  LET fee == calculate_taker_fee(quote)
      reward == calculate_filler_reward(fee, filler)
  IN  {[user_fee |-> fee, rebate |-> calculate_maker_rebate(quote), reward |-> reward,
        to_market |-> fee - reward]}

calculate_fee_for_fulfillment_with_match(quote, filler) ==
  LET fee == calculate_taker_fee(quote)
      rebate == calculate_maker_rebate(quote)
      reward == calculate_filler_reward(fee, filler)
  IN  IF fee < reward + rebate THEN {}
      ELSE {[user_fee |-> fee, rebate |-> rebate, reward |-> reward,
             to_market |-> fee - reward - rebate]}

(***************************************************************************)
(* Filling by the reserves.                                                *)
(***************************************************************************)
\* mutant: an order with one step left is taken for complete
mut_order_complete(o) == o.base - o.filled <= StepSize

order_complete(o) == o.base - o.filled = 0

\* mutant: an order that is complete keeps its place among the open auctions
mut_order_filled(u, i, base) ==
  LET o == [u.orders[i] EXCEPT !.filled = @ + base]
      p == decrease_open_bids_and_asks(u.pos, o.dir, base, update_open_bids_and_asks(o))
      v == decrement_open_orders(u, FALSE)
  IN  IF order_complete(o)
        THEN [v EXCEPT !.orders[i] = [o EXCEPT !.status = "Filled"],
                       !.pos = [p EXCEPT !.open_orders = @ - 1]]
        ELSE [u EXCEPT !.orders[i] = o, !.pos = p]

\* An order after a fill: counted down, and closed once nothing is left.
order_filled(u, i, base) ==
  LET o == [u.orders[i] EXCEPT !.filled = @ + base]
      p == decrease_open_bids_and_asks(u.pos, o.dir, base, update_open_bids_and_asks(o))
      v == decrement_open_orders(u, has_auction(o))
  IN  IF order_complete(o)
        THEN [v EXCEPT !.orders[i] = [o EXCEPT !.status = "Filled"],
                       !.pos = [p EXCEPT !.open_orders = @ - 1]]
        ELSE [u EXCEPT !.orders[i] = o, !.pos = p]

amm_price(dir) == IF dir = "Long" THEN Ask ELSE Bid

\* What the reserves might fill of the order: any number of steps, if they are
\* better than its limit price by a tick.
calculate_base_asset_amount_for_amm_to_fulfill(o, base, limit) ==
  LET unfilled == standardize_base_asset_amount(get_base_asset_amount_unfilled(o, base))
      better == \/ limit = 0
                \/ IF o.dir = "Long" THEN limit - 1 >= Ask ELSE limit + 1 <= Bid
  IN  IF better THEN {k \in 0..unfilled : k % StepSize = 0} ELSE {0}

amm_size_threshold(o, base) ==
  IF ~o.reduce_only /\ Abs(base) > MinOrderSize THEN MinOrderSize ELSE StepSize

\* The quote that changes hands for k of base, and what the reserves gain of it
\* beyond their own price: at the order's price, or else at their bid or ask.
update_position_with_base_asset_amount(dir, k, fill_price) ==
  LET quote == k * (IF fill_price = 0 THEN amm_price(dir) ELSE fill_price)
      against == IF fill_price = 0 THEN k * Mid ELSE k * amm_price(dir)
  IN  [quote |-> quote, surplus |-> IF dir = "Long" THEN quote - against ELSE against - quote]

\* Fees are booked, the trader charged and whoever asked for the fill rewarded.
amm_charged(w, t, fees, filler) ==
  LET w1 == [w EXCEPT !.m.fees = @ + fees.to_market, !.m.exchange_fee = @ + fees.user_fee]
      w2 == debit(debit(w1, t, fees.user_fee), t, -fees.rebate)
  IN  IF filler = NoFiller THEN w2 ELSE credit(w2, filler, fees.reward)

\* s is [w, base, maker]: the world, what was filled so far and what each maker filled.
fulfill_perp_order_with_amm(s, t, i, filler, k, fill_price) ==
  LET o == s.w.user[t].orders[i]
      f == update_position_with_base_asset_amount(o.dir, k, fill_price)
      delta == get_position_delta_for_fill(k, f.quote, o.dir)
      traded(r) == [m |-> [r.m EXCEPT !.with_amm = @ + delta.base,
                                      !.curve = @ - delta.quote - f.surplus], p |-> r.p]
      done(r, fees) ==
        [s EXCEPT !.w = [amm_charged(paid(s.w, t, traded(r)), t, fees, filler)
                           EXCEPT !.user[t] = order_filled(@, i, k)],
                  !.base = @ + k]
  IN  IF k < amm_size_threshold(o, s.w.user[t].pos.base) THEN {s}
      ELSE {done(r, fees) :
              r \in update_position_and_market(s.w.user[t].pos, s.w.m, delta),
              fees \in calculate_fee_for_fulfillment_with_amm(f.quote, f.surplus, o.post_only, filler)}

(***************************************************************************)
(* Matching with a maker's order.                                          *)
(***************************************************************************)
\* mutant: the reserves may take everything the maker offers
mut_calculate_amm_jit_liquidity(base) == {k \in 0..base : k % StepSize = 0}

\* The part of a match that the reserves take at the maker's price: never more
\* than half of it.
calculate_amm_jit_liquidity(base) == {k \in 0..(base \div 2) : k % StepSize = 0}

calculate_quote_asset_amount_for_maker_order(base, price) == base * price

match_charged(w, t, mk, fees, filler) ==
  LET w1 == [w EXCEPT !.m.fees = @ + fees.to_market, !.m.exchange_fee = @ + fees.to_market]
      w2 == debit(debit(w1, t, fees.user_fee), mk, -fees.rebate)
  IN  IF filler = NoFiller THEN w2 ELSE credit(w2, filler, fees.reward)

\* Both positions change, both pay or are paid, both orders are counted down.
matched(s, t, i, mk, j, price, filler) ==
  LET w == s.w
      o == w.user[t].orders[i]
      q == w.user[mk].orders[j]
      base == AtMost(get_base_asset_amount_unfilled(q, w.user[mk].pos.base),
                     get_base_asset_amount_unfilled(o, w.user[t].pos.base))
      quote == calculate_quote_asset_amount_for_maker_order(base, price)
      done(r, x, fees) ==
        LET w1 == match_charged([w EXCEPT !.user[mk].pos = r.p, !.user[t].pos = x.p, !.m = x.m],
                                t, mk, fees, filler)
        IN  [s EXCEPT !.w = [w1 EXCEPT !.user[t] = order_filled(@, i, base),
                                       !.user[mk] = order_filled(@, j, base)],
                      !.base = @ + base, !.maker[mk] = @ + base]
  IN  UNION {{done(r, x, fees) :
                x \in update_position_and_market(w.user[t].pos, r.m,
                                                 get_position_delta_for_fill(base, quote, o.dir)),
                fees \in calculate_fee_for_fulfillment_with_match(quote, filler)} :
             r \in update_position_and_market(w.user[mk].pos, w.m,
                                              get_position_delta_for_fill(base, quote, q.dir))}

fulfill_perp_order_with_match(s, t, i, mk, j, price, limit, filler) ==
  LET o == s.w.user[t].orders[i]
      q == s.w.user[mk].orders[j]
      taker_price == IF limit # 0 THEN limit ELSE amm_price(o.dir)
      taker_base == get_base_asset_amount_unfilled(o, s.w.user[t].pos.base)
      maker_base == get_base_asset_amount_unfilled(q, s.w.user[mk].pos.base)
      base == AtMost(maker_base, taker_base)
      jit == IF limit = 0 /\ maker_base < taker_base THEN {0} ELSE calculate_amm_jit_liquidity(base)
  IN  IF ~do_orders_cross(q.dir, price, taker_price) \/ base = 0 THEN {s}
      ELSE UNION {matched(x, t, i, mk, j, price, filler) :
                    x \in UNION {fulfill_perp_order_with_amm(s, t, i, filler, k, price) : k \in jit}}

(***************************************************************************)
(* Filling an order.                                                       *)
(***************************************************************************)
is_maker_for_taker(q, o) ==
  /\ ~o.post_only /\ is_resting_limit_order(q)
  /\ \/ ~is_resting_limit_order(o) \/ q.post_only
     \/ q.slot + q.auction <= o.slot + o.auction

\* A maker's order too far from the oracle is cancelled instead of matched.
limit_price_breaches_maker_oracle_price_bands(q) ==
  IF q.dir = "Long" THEN (q.price - oracle) * MarginPrecision >= oracle * MarginInitial
  ELSE (oracle - q.price) * MarginPrecision >= oracle * MarginInitial

maker_order_unusable(u, j) ==
  LET q == u.orders[j]
  IN  \/ limit_price_breaches_maker_oracle_price_bands(q)
      \/ should_expire_order(q)
      \/ should_cancel_reduce_only_order(q, u.pos.base)

find_maker_orders(u, dir) ==
  {j \in SlotIds : LET q == u.orders[j]
                   IN  is_open(q) /\ q.dir = dir /\ is_limit_order(q)
                       /\ (must_be_triggered(q) => triggered(q))}

\* get_maker_orders_info: the world once unusable orders of the makers are
\* cancelled, and the orders left, as a set of <<maker, slot>>.
makers_checked(w, t, o, makers, jit_order, filler) ==
  LET candidates(mk) ==
        {j \in find_maker_orders(w.user[mk], Opposite(o.dir)) :
           /\ is_maker_for_taker(w.user[mk].orders[j], o)
           /\ jit_order # 0 => w.user[mk].orders[j].id = jit_order}
      active == {mk \in makers \ {t} : /\ ~w.user[mk].liquidated
                                       /\ find_maker_orders(w.user[mk], Opposite(o.dir)) # {}}
      swept(x, mk) ==
        FoldSet(LAMBDA j, y : IF ~maker_order_unusable(y.user[mk], j) THEN y
                              ELSE [pay_keeper_flat_reward_for_perps(y, mk, filler)
                                      EXCEPT !.user[mk] = cancelled(@, j)],
                settled(x, mk), candidates(mk))
      after == FoldSet(LAMBDA mk, x : swept(x, mk), w, active)
  IN  [w |-> after,
       info |-> {<<mk, j>> \in active \X SlotIds : j \in candidates(mk) /\ is_open(after.user[mk].orders[j])}]

\* The makers' orders, best price first.
sorted_makers(w, info, dir) ==
  {q \in SetToSeqs(info) :
     \A a, b \in DOMAIN q : a < b =>
       LET pa == w.user[q[a][1]].orders[q[a][2]].price
           pb == w.user[q[b][1]].orders[q[b][2]].price
       IN  IF dir = "Long" THEN pa <= pb ELSE pa >= pb}

\* determine_perp_fulfillment_methods: matches in order of price, the reserves
\* before each maker they beat, and the reserves last.
determine_perp_fulfillment_methods(w, o, makers, limit, amm_available) ==
  LET price(x) == w.user[x[1]].orders[x[2]].price
      crossing == SelectSeq(makers, LAMBDA x : limit = 0 \/ do_orders_cross(Opposite(o.dir), price(x), limit))
      worse(p, a) == IF o.dir = "Long" THEN p > a ELSE p < a
      method(x) == [kind |-> "Match", maker |-> x[1], slot |-> x[2], price |-> price(x)]
      amm(p) == [kind |-> "AMM", maker |-> NoFiller, slot |-> 0, price |-> p]
      step(acc, x) ==
        IF amm_available /\ worse(price(x), acc.amm)
          THEN [seq |-> acc.seq \o <<amm(price(x)), method(x)>>, amm |-> price(x)]
          ELSE [acc EXCEPT !.seq = Append(@, method(x))]
      all == FoldLeft(step, [seq |-> <<>>, amm |-> amm_price(o.dir)], crossing)
      crosses_amm == limit = 0 \/ do_orders_cross(Opposite(o.dir), all.amm, limit)
  IN  IF o.post_only
        THEN IF amm_available /\ do_orders_cross(o.dir, limit, amm_price(o.dir)) THEN <<amm(0)>> ELSE <<>>
        ELSE IF amm_available /\ crosses_amm THEN Append(all.seq, amm(0)) ELSE all.seq

\* One round of the loop of fulfill_perp_order, which stops at a closed order.
fulfilled_by(s, t, i, method, limit, filler, maker_filler) ==
  LET o == s.w.user[t].orders[i]
      bound == IF method.price # 0 THEN method.price ELSE limit
  IN  IF ~is_open(o) THEN {s}
      ELSE IF method.kind = "AMM"
        THEN UNION {fulfill_perp_order_with_amm(s, t, i, maker_filler, k, IF o.post_only THEN limit ELSE 0) :
                      k \in calculate_base_asset_amount_for_amm_to_fulfill(o, s.w.user[t].pos.base, bound)}
        ELSE fulfill_perp_order_with_match(s, t, i, method.maker, method.slot, method.price, limit, filler)

\* mutant: makers are only held to maintenance margin
mut_select_margin_type_for_perp_maker(after, filled) == MarginMaintenance

select_margin_type_for_perp_maker(after, filled) ==
  LET before == after - filled
  IN  IF after = 0 \/ ((after > 0) = (before > 0) /\ before # 0 /\ Abs(after) < Abs(before))
        THEN MarginMaintenance ELSE MarginFill

taker_meets_margin(s, t, decreasing, liquidation) ==
  \/ liquidation
  \/ meets_margin_requirement(s.w.user[t], IF decreasing THEN MarginMaintenance ELSE MarginFill)

makers_meet_margin(s, sign) ==
  \A mk \in Users : s.maker[mk] # 0 =>
    meets_margin_requirement(s.w.user[mk],
      select_margin_type_for_perp_maker(s.w.user[mk].pos.base, sign * s.maker[mk]))

fulfill_perp_order(w, t, i, makers, limit, amm_available, filler, maker_filler, liquidation) ==
  LET o == w.user[t].orders[i]
      base == w.user[t].pos.base
      decreasing == is_order_position_reducing(o.dir, get_base_asset_amount_unfilled(o, base), base)
      methods == determine_perp_fulfillment_methods(w, o, makers, limit, amm_available)
      start == {[w |-> w, base |-> 0, maker |-> [u \in Users |-> 0]]}
      loop == FoldLeft(LAMBDA S, method :
                         UNION {fulfilled_by(s, t, i, method, limit, filler, maker_filler) : s \in S},
                       start, methods)
      sign == IF o.dir = "Long" THEN -1 ELSE 1
  IN  IF methods = <<>> THEN start
      ELSE {s \in loop : taker_meets_margin(s, t, decreasing, liquidation) /\ makers_meet_margin(s, sign)}

\* update_funding_rate: once a period, at any of FundingRates.
update_funding_rate(m) ==
  IF now < m.last_funding_ts + FundingPeriod THEN {m}
  ELSE UNION {calculate_funding_rate_long_short(m, r, now) : r \in FundingRates}

\* What fill_perp_order does once the order has been through the fulfilment.
after_fulfillment(s, t, i, filler) ==
  LET o == s.w.user[t].orders[i]
      w1 == IF should_cancel_reduce_only_order(o, s.w.user[t].pos.base)
              THEN [pay_keeper_flat_reward_for_perps(s.w, t, filler) EXCEPT !.user[t] = cancelled(@, i)]
              ELSE s.w
      p == w1.user[t].pos
      w2 == IF p.base = 0 /\ p.open_asks = 0 /\ p.open_bids = 0
              THEN [w1 EXCEPT !.user[t] = cancel_reduce_only_trigger_orders(@)] ELSE w1
  IN  CASE s.base = 0 -> {w2}
        [] s.base # 0 /\ ~(MaxOI = 0 \/ MaxOI > get_open_interest(w2.m)) -> {}
        [] OTHER -> {[w2 EXCEPT !.m = m] : m \in update_funding_rate(w2.m)}

\* Once the makers are known: the order is left alone, cancelled or fulfilled.
\* diverged says that the oracle is too far from its average.
fill_decided(c, t, i, limit, filler, maker_filler, amm_available, diverged, liquidation) ==
  LET o == c.w.user[t].orders[i]
      over == should_expire_order(o) \/ should_cancel_reduce_only_order(o, c.w.user[t].pos.base)
  IN  CASE diverged -> {c.w}
        [] ~diverged /\ over ->
             {[pay_keeper_flat_reward_for_perps(c.w, t, filler) EXCEPT !.user[t] = cancelled(@, i)]}
        [] OTHER ->
             UNION {after_fulfillment(s, t, i, filler) :
               s \in UNION {fulfill_perp_order(c.w, t, i, q, limit, amm_available, filler,
                                               maker_filler, liquidation) :
                              q \in sorted_makers(c.w, c.info, o.dir)}}

\* Only a filler that is neither the taker nor a maker is rewarded for matches.
rewarded_filler(t, filler, makers) == IF filler = t \/ filler \in makers THEN NoFiller ELSE filler

\* fill_perp_order.  filler is who asked, makers the accounts it named.
fill_perp_order(w0, t, i, makers, filler, jit_order, auction_price, amm_available, diverged, liquidation) ==
  LET w1 == settled(w0, t)
      o == w1.user[t].orders[i]
      rewarded == rewarded_filler(t, filler, makers)
      maker_filler == IF filler # t /\ filler \in makers THEN filler ELSE rewarded
      recovered == IF liquidation THEN {w1.user[t]} ELSE validate_user_not_being_liquidated(w1.user[t])
      checked(w) == makers_checked(w, t, o, makers, jit_order, rewarded)
  IN  IF \/ ~is_open(o) \/ w0.m.status \notin {"Active", "ReduceOnly"}
         \/ must_be_triggered(o) /\ ~triggered(o)
        THEN {}
      ELSE IF recovered = {} THEN {w1}
      ELSE UNION {fill_decided(checked([w1 EXCEPT !.user[t] = u]), t, i, get_limit_price(o, auction_price),
                               rewarded, maker_filler, amm_available, diverged, liquidation) : u \in recovered}

(***************************************************************************)
(* Triggering and cancelling by others.                                    *)
(***************************************************************************)
\* update_trigger_order_params: the order starts an auction at the oracle price.
update_trigger_order_params(o) ==
  [o EXCEPT !.trigger = IF @ = "Above" THEN "TriggeredAbove" ELSE "TriggeredBelow",
            !.slot = now, !.auction = AuctionDuration]

\* mutant: every triggered order is counted, reduce-only ones too
mut_trigger_counted(p, o) == increase_open_bids_and_asks(p, o.dir, o.base, TRUE)

trigger_counted(p, o) == increase_open_bids_and_asks(p, o.dir, o.base, update_open_bids_and_asks(o))

\* The world once the order is triggered and its keeper paid.
order_triggered(w, t, i, filler) ==
  LET o == update_trigger_order_params(w.user[t].orders[i])
      v == [w.user[t] EXCEPT !.orders[i] = o, !.open_auctions = @ + 1,
                             !.pos = trigger_counted(@, o)]
  IN  pay_keeper_flat_reward_for_perps([w EXCEPT !.user[t] = v], t, IF filler = t THEN NoFiller ELSE filler)

\* An order that adds risk an account cannot bear is cancelled as it triggers.
trigger_order(w, t, i, filler) ==
  LET o == w.user[t].orders[i]
      sound(x) ==
        LET y == order_triggered(x, t, i, filler)
            risk == worst_case_liability_value(y.user[t].pos, oracle)
                      > worst_case_liability_value(x.user[t].pos, oracle)
        IN  IF risk /\ ~o.reduce_only /\ ~meets_margin_requirement(y.user[t], MarginInitial)
              THEN [y EXCEPT !.user[t] = cancelled(@, i)] ELSE y
  IN  IF ~is_open(o) \/ ~must_be_triggered(o) THEN {}
      ELSE IF triggered(o) THEN {w}
      ELSE IF ~order_satisfies_trigger_condition(o) THEN {}
      ELSE {sound([w EXCEPT !.user[t] = u]) : u \in validate_user_not_being_liquidated(w.user[t])}

\* Cancels what does not reduce the position of an account below its initial
\* margin.  The reward comes from the account's deposit, not from the position.
force_cancel_orders(u) ==
  LET kept(o) == is_order_position_reducing(o.dir, get_base_asset_amount_unfilled(o, u.pos.base), u.pos.base)
  IN  IF u.liquidated \/ meets_margin_requirement(u, MarginInitial) THEN {}
      ELSE {cancel_all(u, {i \in SlotIds : is_open(u.orders[i]) /\ ~kept(u.orders[i])})}

(***************************************************************************)
(* Cancelling, changing and placing by the owner.                          *)
(***************************************************************************)
Indices(u, P(_)) == {i \in SlotIds : P(u.orders[i]) /\ \A j \in 1..(i - 1) : ~P(u.orders[j])}

\* An id nobody has any more is not an error: the order may just have been filled.
cancel_order_by_order_id(u, id) ==
  LET found == Indices(u, LAMBDA o : is_open(o) /\ o.id = id)
  IN  IF found = {} THEN {u} ELSE UNION {cancel_order(u, i) : i \in found}

cancel_order_by_user_order_id(u, uid) ==
  UNION {cancel_order(u, i) : i \in Indices(u, LAMBDA o : o.uid = uid)}

\* What a changed order is placed with: base -1 and price 0 keep the old ones.
merge_modify_order_params(o, c) ==
  LET base == IF c.base < 0 THEN o.base - o.filled
              ELSE IF c.exclude_previous_fill THEN AtLeast(c.base - o.filled, 0) ELSE c.base
  IN  [type |-> o.type, dir |-> o.dir, base |-> base, price |-> IF c.price = 0 THEN o.price ELSE c.price,
       reduce_only |-> o.reduce_only, post_only |-> IF o.post_only THEN "Must" ELSE "None", ioc |-> FALSE,
       trigger |-> IF o.trigger \in {"Above", "TriggeredAbove"} THEN "Above" ELSE "Below",
       trigger_price |-> o.trigger_price, auction |-> FALSE, max_ts |-> o.max_ts, uid |-> o.uid]

modify_order(u, m, id, c) ==
  LET found == Indices(u, LAMBDA o : is_open(o) /\ o.id = id)
      changed(i) ==
        LET params == merge_modify_order_params(u.orders[i], c)
        IN  IF c.base >= 0 /\ c.exclude_previous_fill /\ params.base = 0 THEN {cancelled(u, i)}
            ELSE place_perp_order(cancelled(u, i), m, params, TRUE, TRUE, FALSE)
  IN  IF found = {} THEN (IF c.must_modify THEN {} ELSE {u}) ELSE UNION {changed(i) : i \in found}

\* A batch is held to the margin requirement at its last order only.
place_orders(u, m, batch) ==
  LET n == Len(batch)
      place(S, i) == UNION {place_perp_order(v, m, batch[i], i = 1, i = n, FALSE) : v \in S}
  IN  IF \E i \in 1..n : batch[i].ioc THEN {}
      ELSE FoldLeft(place, {u}, [i \in 1..n |-> i])

get_last_order_id(u) == u.next_id - 1

slot_of(u, id) == Indices(u, LAMBDA o : is_open(o) /\ o.id = id)

placed_by(w, u, params) ==
  {[w EXCEPT !.user[u] = v] : v \in place_perp_order(w.user[u], w.m, params, TRUE, TRUE, FALSE)}

leftover_cancelled(w, u, id) ==
  {[w EXCEPT !.user[u] = v] : v \in cancel_order_by_order_id(w.user[u], id)}

\* Placing and filling at once: the order filled is the last one of the account.
place_and_take(w0, u, params, makers, auction_price, amm_available) ==
  LET done(w) ==
        LET id == get_last_order_id(w.user[u])
            filled == UNION {fill_perp_order(w, u, i, makers, u, 0, auction_price, amm_available, FALSE, FALSE) :
                               i \in slot_of(w.user[u], id)}
        IN  IF params.ioc THEN UNION {leftover_cancelled(x, u, id) : x \in filled} ELSE filled
  IN  IF params.post_only # "None" THEN {} ELSE UNION {done(w) : w \in placed_by(w0, u, params)}

\* Filling another's order with one's own, which is gone afterwards.
place_and_make(w0, u, params, t, id, auction_price) ==
  LET done(w) ==
        LET own == get_last_order_id(w.user[u])
            filled == UNION {fill_perp_order(w, t, i, {u}, u, own, auction_price, FALSE, FALSE, FALSE) :
                               i \in slot_of(w.user[t], id)}
        IN  UNION {leftover_cancelled(x, u, own) : x \in filled}
  IN  IF ~params.ioc \/ params.post_only = "None" \/ params.type # "Limit" THEN {}
      ELSE UNION {done(w) : w \in placed_by(w0, u, params)}

\* The part of a liquidation that touches orders: all are cancelled, and the
\* account stays flagged unless that was enough.
start_liquidation(w, u) ==
  LET x == settled(w, u)
      v == cancel_orders(x.user[u], Sides)
      safe == meets_margin_requirement(v, MarginMaintenance + MarginBuffer)
  IN  IF meets_margin_requirement(x.user[u], MarginMaintenance) /\ ~x.user[u].liquidated THEN {}
      ELSE {[x EXCEPT !.user[u] = [v EXCEPT !.liquidated = ~safe]]}

(***************************************************************************)
(* Actions.                                                                *)
(***************************************************************************)
World == [user |-> users, m |-> market]

Fresh == [user |-> [u \in Users |-> NewUser], m |-> NewMarket]

\* Nobody has traded yet, or somebody has just taken one of the Openings.
Init ==
  /\ oracle \in Prices /\ now = 0 /\ ops = 0
  /\ LET opened == UNION {place_and_take(Fresh, u, p, {}, p.price, TRUE) : u \in Users, p \in Openings}
     IN  \E w \in {Fresh} \cup opened : users = w.user /\ market = w.m

Becomes(worlds) ==
  /\ ops < MaxOps /\ ops' = ops + 1
  /\ \E w \in worlds : users' = w.user /\ market' = w.m
  /\ UNCHANGED <<oracle, now>>

UserBecomes(u, accounts) == Becomes({[World EXCEPT !.user[u] = v] : v \in accounts})

handle_place_perp_order(u, params) ==
  ~params.ioc /\ UserBecomes(u, place_perp_order(users[u], market, params, TRUE, TRUE, FALSE))

handle_place_orders(u, batch) == UserBecomes(u, place_orders(users[u], market, batch))

handle_cancel_order(u, id) == UserBecomes(u, cancel_order_by_order_id(users[u], id))

handle_cancel_order_by_user_id(u, uid) == UserBecomes(u, cancel_order_by_user_order_id(users[u], uid))

handle_cancel_orders(u, dirs) == UserBecomes(u, {cancel_orders(users[u], dirs)})

handle_modify_order(u, id, change) == UserBecomes(u, modify_order(users[u], market, id, change))

\* The keeper names any other accounts as makers.
handle_fill_perp_order(filler, t, i, makers, auction_price, amm_available, diverged) ==
  Becomes(fill_perp_order(World, t, i, makers, filler, 0, auction_price, amm_available, diverged, FALSE))

handle_place_and_take_perp_order(u, params, makers, auction_price, amm_available) ==
  Becomes(place_and_take(World, u, params, makers, auction_price, amm_available))

handle_place_and_make_perp_order(u, params, t, id, auction_price) ==
  Becomes(place_and_make(World, u, params, t, id, auction_price))

handle_trigger_order(filler, t, i) == Becomes(trigger_order(World, t, i, filler))

handle_force_cancel_orders(u) == UserBecomes(u, force_cancel_orders(users[u]))

handle_liquidate(u) == Becomes(start_liquidation(World, u))

handle_settle_funding_payment(u) == Becomes({settled(World, u)})

handle_update_funding_rate == Becomes({[World EXCEPT !.m = m] : m \in update_funding_rate(market)})

\* The admin lets the market, or the owner its account, only reduce.
handle_update_perp_market_status(status) ==
  /\ market.status # status
  /\ Becomes({[World EXCEPT !.m.status = status]})

handle_update_user_reduce_only(u, b) ==
  ~users[u].liquidated /\ UserBecomes(u, {[users[u] EXCEPT !.reduce_only = b]})

\* The oracle and time move on.
OracleMoves ==
  /\ ops < MaxOps /\ ops' = ops + 1
  /\ oracle' \in Prices \ {oracle}
  /\ UNCHANGED <<users, market, now>>

Tick == now < MaxNow /\ now' = now + 1 /\ UNCHANGED <<users, market, oracle, ops>>

\* A fill needs an order that could still be filled, a match two of them.
Openable(t) == {i \in SlotIds : is_open(users[t].orders[i])}

Next ==
  \/ \E u \in Users, p \in Templates : handle_place_perp_order(u, p)
  \/ \E u \in Users, p \in Templates, q \in Templates : handle_place_orders(u, <<p, q>>)
  \/ \E u \in Users, id \in 1..MaxOps : handle_cancel_order(u, id)
  \/ \E u \in Users, p \in Templates : handle_cancel_order_by_user_id(u, p.uid)
  \/ \E u \in Users, dirs \in {{"Long"}, Sides} : handle_cancel_orders(u, dirs)
  \/ \E u \in Users, id \in 1..MaxOps, c \in Changes : handle_modify_order(u, id, c)
  \/ \E f \in Users, t \in Users, a \in BOOLEAN, d \in BOOLEAN, price \in Prices :
       \E i \in Openable(t), makers \in SUBSET (Users \ {t}) : handle_fill_perp_order(f, t, i, makers, price, a, d)
  \/ \E u \in Users, p \in Templates, price \in Prices, a \in BOOLEAN : \E makers \in SUBSET (Users \ {u}) :
       handle_place_and_take_perp_order(u, p, makers, price, a)
  \/ \E u \in Users, p \in Templates, t \in Users, id \in 1..MaxOps, price \in Prices :
       t # u /\ handle_place_and_make_perp_order(u, p, t, id, price)
  \/ \E f \in Users, t \in Users : \E i \in Openable(t) : handle_trigger_order(f, t, i)
  \/ \E u \in Users : handle_force_cancel_orders(u)
  \/ \E u \in Users : handle_liquidate(u)
  \/ \E u \in Users : handle_settle_funding_payment(u)
  \/ handle_update_funding_rate
  \/ \E status \in {"Active", "ReduceOnly"} : handle_update_perp_market_status(status)
  \/ \E u \in Users, b \in BOOLEAN : handle_update_user_reduce_only(u, b)
  \/ OracleMoves
  \/ Tick

Spec == Init /\ [][Next]_vars

(***************************************************************************)
(* Properties.                                                             *)
(***************************************************************************)
SumOver(S, f(_)) == FoldSet(LAMBDA x, acc : acc + f(x), 0, S)

Open(u) == {i \in SlotIds : is_open(users[u].orders[i])}

\* The state has the shape the code gives it.
TypeOK ==
  /\ \A u \in Users :
       /\ users[u].open_orders \in 0..Slots /\ users[u].open_auctions \in 0..Slots
       /\ users[u].next_id \in Nat \ {0} /\ users[u].pos.open_bids >= 0 /\ users[u].pos.open_asks <= 0
       /\ \A i \in SlotIds : users[u].orders[i].status \in {"Init", "Open", "Filled", "Canceled"}
  /\ oracle \in Prices /\ now \in 0..MaxNow /\ ops \in 0..MaxOps

\* The three counters an account keeps about its orders say what its slots
\* hold, whoever closed an order and on whichever path (user.rs
\* decrement_open_orders, orders.rs update_order_after_fill, cancel_order):
\* deposits, deletion of the account and idleness are decided by them alone.
OpenOrdersExact ==
  \A u \in Users :
    /\ users[u].open_orders = Cardinality(Open(u))
    /\ users[u].pos.open_orders = Cardinality(Open(u))
    /\ users[u].open_auctions = Cardinality({i \in Open(u) : has_auction(users[u].orders[i])})

\* The position's open bids and asks, from which margin is computed, are exactly
\* what its counted open orders have left to fill (position.rs
\* increase/decrease_open_bids_and_asks, which saturate at zero: an excess would
\* go unnoticed).
OpenBidsAsksExact ==
  \A u \in Users :
    LET left(d) == SumOver({i \in Open(u) : /\ users[u].orders[i].dir = d
                                            /\ update_open_bids_and_asks(users[u].orders[i])},
                           LAMBDA i : users[u].orders[i].base - users[u].orders[i].filled)
    IN  users[u].pos.open_bids = left("Long") /\ users[u].pos.open_asks = -left("Short")

On(d) == {u \in Users : users[u].pos.base # 0 /\ get_direction(users[u].pos.base) = d}

\* The market's totals of each side are the sums over the positions on it
\* (position.rs update_position_and_market): open interest, funding and the
\* settlement price are computed from them.
TotalsExact ==
  /\ \A d \in Sides :
       /\ market.base[d] = SumOver(On(d), LAMBDA u : users[u].pos.base)
       /\ market.entry[d] = SumOver(On(d), LAMBDA u : users[u].pos.entry)
       /\ market.break_even[d] = SumOver(On(d), LAMBDA u : users[u].pos.break_even)
  /\ market.base["Long"] + market.base["Short"] = market.with_amm

\* The market knows how many accounts hold something in it: it may only be
\* deleted when nobody does (position.rs, number_of_users).
UsersExact ==
  /\ market.users = Cardinality({u \in Users : has_position(users[u].pos)})
  /\ market.users_with_base = Cardinality({u \in Users : users[u].pos.base # 0})

\* No quote comes from nowhere: what the positions hold and are still owed as
\* funding, what the reserves took and what the market booked as fees cancel out,
\* or fall short, but for what payments of funding were rounded down by, the
\* traders' and the market's own, each by less than one (math/funding.rs).
QuoteConserved ==
  LET pending(u) == pending_funding(users[u].pos, market)
      total == SumOver(Users, LAMBDA u : users[u].pos.quote + pending(u).payment) + market.curve + market.fees
      rounded == market.rounded + SumOver(Users, LAMBDA u : pending(u).rounded)
  IN  /\ market.quote = SumOver(Users, LAMBDA u : users[u].pos.quote)
      /\ FundingDivisor * total <= rounded

\* No order is filled beyond its size, and one that has nothing left is closed.
FillsBounded ==
  \A u \in Users, i \in SlotIds :
    LET o == users[u].orders[i]
    IN  /\ o.filled <= o.base
        /\ is_open(o) => o.filled < o.base
        /\ o.status = "Filled" => o.filled = o.base

\* What an account keeps about its orders is what its slots hold.
OrdersExact == TypeOK /\ OpenOrdersExact /\ OpenBidsAsksExact /\ FillsBounded

\* What the market keeps about its positions is what the accounts hold, and no
\* quote comes from nowhere but by rounding.
MarketExact == TotalsExact /\ UsersExact /\ QuoteConserved

\* What a reduce-only order takes part in never opens, grows or flips its owner's
\* position (user.rs get_base_asset_amount_unfilled), even when one fill goes
\* through several makers and the reserves.
ReduceOnlyNeverGrows ==
  [][\A u \in Users, i \in SlotIds :
       LET o == users[u].orders[i]
           q == users'[u].orders[i]
           others == {j \in SlotIds : /\ users'[u].orders[j].id = users[u].orders[j].id
                                      /\ users'[u].orders[j].filled # users[u].orders[j].filled}
       IN  (q.id = o.id /\ q.filled > o.filled /\ o.reduce_only /\ others = {i}) =>
             /\ users[u].pos.base # 0
             /\ Abs(users'[u].pos.base) < Abs(users[u].pos.base)
             /\ users'[u].pos.base * users[u].pos.base >= 0]_vars

\* Whoever's position a fill makes larger can bear it when the call is over: the
\* requirement between maintenance and initial margin holds after fees, rewards
\* and the other fills of the same call (orders.rs fulfill_perp_order).
FillsKeepMargin ==
  [][\A u \in Users : Abs(users'[u].pos.base) > Abs(users[u].pos.base) =>
       meets_margin_requirement(users[u], MarginFill)']_vars

\* A fill leaves its parties with what their orders and their margin allow.
FillsSound == ReduceOnlyNeverGrows /\ FillsKeepMargin
=============================================================================
