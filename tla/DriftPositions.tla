--------------------------- MODULE DriftPositions ---------------------------
(***************************************************************************)
(* A trader's position in one perpetual market of programs/drift, and the  *)
(* totals the market keeps over all positions (controller/position.rs,     *)
(* math/position.rs, controller/funding.rs).                               *)
(*                                                                         *)
(* Every operator that the code lets fail returns the SET of its outcomes: *)
(* the empty set is an error, which undoes the whole transaction.  An      *)
(* outcome is a record with the changed position p and market m.           *)
(*                                                                         *)
(* Bids are counted up and asks down from zero, as in the code.  Prices    *)
(* are quote per unit of base, so base * price is a quote amount.          *)
(***************************************************************************)
EXTENDS Integers, FiniteSets

CONSTANTS
  ReservePrecision,   \* AMM_RESERVE_PRECISION
  RateRatio           \* FUNDING_RATE_TO_QUOTE_PRECISION_PRECISION_RATIO

ASSUME FundingAssumption == {ReservePrecision, RateRatio} \subseteq Nat \ {0}

\* What a rate times a base amount is divided by to give quote: PRICE_PRECISION,
\* FUNDING_RATE_BUFFER and AMM_TO_QUOTE_PRECISION_RATIO, together as large as the
\* two above.
FundingDivisor == ReservePrecision * RateRatio

Sides == {"Long", "Short"}

Opposite(d) == IF d = "Long" THEN "Short" ELSE "Long"

Abs(x) == IF x < 0 THEN -x ELSE x

AtMost(a, b) == IF a < b THEN a ELSE b

AtLeast(a, b) == IF a > b THEN a ELSE b

\* Division of signed integers as Rust does it: towards zero.
SafeDiv(a, b) == IF (a >= 0) = (b > 0) THEN Abs(a) \div Abs(b) ELSE -(Abs(a) \div Abs(b))

CeilDiv(a, b) == (a + b - 1) \div b

(***************************************************************************)
(* State.                                                                  *)
(***************************************************************************)
NoPosition ==
  [base |-> 0, quote |-> 0, entry |-> 0, break_even |-> 0, last_funding |-> 0,
   open_orders |-> 0, open_bids |-> 0, open_asks |-> 0]

NewMarket ==
  [base |-> [s \in Sides |-> 0], with_amm |-> 0, quote |-> 0,
   entry |-> [s \in Sides |-> 0], break_even |-> [s \in Sides |-> 0],
   funding |-> [s \in Sides |-> 0], unsettled_funding |-> 0,
   users |-> 0, users_with_base |-> 0,
   fees |-> 0,           \* total_fee_minus_distributions
   exchange_fee |-> 0,   \* total_exchange_fee
   curve |-> 0,          \* history: the quote the reserves took in, surplus left out
  rounded |-> 0,        \* history: what payments of funding were rounded down by, in 1 / FundingDivisor
   last_funding_ts |-> 0, status |-> "Active"]

\* The side a position is on: get_direction says Long of an empty one.
get_direction(base) == IF base >= 0 THEN "Long" ELSE "Short"

has_position(p) == p.base # 0 \/ p.quote # 0

is_available(p) ==
  /\ ~has_position(p)
  /\ p.open_orders = 0 /\ p.open_bids = 0 /\ p.open_asks = 0

get_open_interest(m) == AtLeast(m.base["Long"], -m.base["Short"])

(***************************************************************************)
(* What the position is worth, and what it could become if its orders      *)
(* filled.                                                                 *)
(***************************************************************************)
pnl_with_oracle_price(p, price) == p.base * price + p.quote

worst_case_base_asset_amount(p) ==
  LET bids == p.base + p.open_bids
      asks == p.base + p.open_asks
  IN  IF Abs(asks) >= Abs(bids) THEN asks ELSE bids

worst_case_liability_value(p, price) == Abs(worst_case_base_asset_amount(p)) * price

(***************************************************************************)
(* A change of a position by a signed base and a signed quote amount.      *)
(***************************************************************************)
get_position_delta_for_fill(base, quote, dir) ==
  IF dir = "Long" THEN [base |-> base, quote |-> -quote] ELSE [base |-> -base, quote |-> quote]

get_position_update_type(p, delta) ==
  CASE p.base = 0                                    -> "Open"
    [] p.base # 0 /\ (p.base > 0) = (delta.base > 0) -> "Increase"
    [] p.base # 0 /\ (p.base > 0) # (delta.base > 0) ->
         IF Abs(p.base) > Abs(delta.base) THEN "Reduce"
         ELSE IF Abs(p.base) = Abs(delta.base) THEN "Close" ELSE "Flip"

\* Entry and break-even amounts after the change: a reduction takes a share of
\* them in proportion, a flip keeps the share of the delta that opens the new side.
new_amount(p, amount, delta, type) ==
  CASE type \in {"Open", "Increase"} -> amount + delta.quote
    [] type \in {"Reduce", "Close"}  ->
         amount - SafeDiv(amount * Abs(delta.base), Abs(p.base))
    [] type = "Flip"                 ->
         delta.quote - SafeDiv(delta.quote * Abs(p.base), Abs(delta.base))

\* mutant: a position closed with quote left to settle counts as gone
mut_new_users(p, delta, type, users) ==
  CASE type = "Open" /\ ~has_position(p) -> users + 1
    [] type = "Close"                    -> AtLeast(users - 1, 0)
    [] OTHER                             -> users

new_users(p, delta, type, users) ==
  CASE type = "Open" /\ ~has_position(p)                  -> users + 1
    [] type = "Close" /\ p.quote + delta.quote = 0        -> AtLeast(users - 1, 0)
    [] OTHER                                              -> users

new_users_with_base(type, users) ==
  CASE type = "Open"  -> users + 1
    [] type = "Close" -> AtLeast(users - 1, 0)
    [] OTHER          -> users

\* mutant: a flipped position leaves its old side's totals alone
mut_new_totals(totals, base, new_base, old, new) ==
  LET s == IF new_base = 0 THEN get_direction(base) ELSE get_direction(new_base)
  IN  [totals EXCEPT ![s] = @ + new - old]

\* The totals of one kind (base, entry or break-even) after one position goes
\* from old to new: a flip leaves one side and joins the other.
new_totals(totals, base, new_base, old, new) ==
  LET before == IF base = 0 THEN get_direction(new_base) ELSE get_direction(base)
      after  == IF new_base = 0 THEN before ELSE get_direction(new_base)
  IN  IF before = after
        THEN [totals EXCEPT ![before] = @ + new - old]
        ELSE [totals EXCEPT ![before] = @ - old, ![after] = @ + new]

\* A position that has not settled its funding may not change: the code errors.
funding_settled(p, m) == p.base # 0 => p.last_funding = m.funding[get_direction(p.base)]

\* A change of the quote alone, a fee or a reward or a payment.
update_quote_asset_amount(p, m, delta) ==
  LET q == [p EXCEPT !.quote = @ + delta]
      joined == IF has_position(p) THEN m.users ELSE m.users + 1
  IN  IF delta = 0 THEN [p |-> p, m |-> m]
      ELSE [p |-> q,
            m |-> [m EXCEPT !.quote = @ + delta,
                            !.users = IF has_position(q) THEN joined ELSE AtLeast(joined - 1, 0)]]

update_quote_break_even_amount(p, m, delta) ==
  IF delta = 0 \/ p.base = 0 THEN [p |-> p, m |-> m]
  ELSE [p |-> [p EXCEPT !.break_even = @ + delta],
        m |-> [m EXCEPT !.break_even[get_direction(p.base)] = @ + delta]]

update_quote_asset_and_break_even_amount(p, m, delta) ==
  LET r == update_quote_asset_amount(p, m, delta)
  IN  update_quote_break_even_amount(r.p, r.m, delta)

update_position_and_market(p, m, delta) ==
  IF delta.base = 0 THEN {update_quote_asset_amount(p, m, delta.quote)}
  ELSE LET type == get_position_update_type(p, delta)
           base == p.base + delta.base
           entry == new_amount(p, p.entry, delta, type)
           even == new_amount(p, p.break_even, delta, type)
       IN  IF ~funding_settled(p, m) THEN {}
           ELSE {[p |-> [p EXCEPT !.base = base, !.quote = @ + delta.quote,
                           !.entry = entry, !.break_even = even,
                           !.last_funding = CASE type = "Close"  -> 0
                                              [] type = "Reduce" -> @
                                              [] OTHER           -> m.funding[get_direction(base)]],
                  m |-> [m EXCEPT !.quote = @ + delta.quote,
                           !.users = new_users(p, delta, type, @),
                           !.users_with_base = new_users_with_base(type, @),
                           !.base = new_totals(@, p.base, base, p.base, base),
                           !.entry = new_totals(@, p.base, base, p.entry, entry),
                           !.break_even = new_totals(@, p.base, base, p.break_even, even)]]}

(***************************************************************************)
(* Funding.  The cumulative rates of both sides only ever move; a position *)
(* pays or receives the difference since it last looked.                   *)
(***************************************************************************)
calculate_funding_payment_in_quote_precision(rate, base) == -SafeDiv(rate * base, FundingDivisor)

calculate_funding_payment(p, rate) == calculate_funding_payment_in_quote_precision(rate - p.last_funding, p.base)

\* What rate * base loses to rounding when it is paid, in 1 / FundingDivisor.
rounded_down(rate, base) == IF rate * base > 0 THEN (rate * base) % FundingDivisor ELSE 0

\* What a position is still to receive or to pay, and what rounding will take off it.
pending_funding(p, m) ==
  LET rate == m.funding[get_direction(p.base)]
  IN  IF p.base = 0 THEN [payment |-> 0, rounded |-> 0]
      ELSE [payment |-> calculate_funding_payment(p, rate), rounded |-> rounded_down(rate - p.last_funding, p.base)]

\* mutant: the position pays but does not remember up to where
mut_settle_funding_payment(p, m) ==
  LET due == pending_funding(p, m)
      r == update_quote_asset_and_break_even_amount(p, m, due.payment)
  IN  IF p.base = 0 \/ funding_settled(p, m) THEN [p |-> p, m |-> m]
      ELSE [p |-> r.p, m |-> [r.m EXCEPT !.unsettled_funding = @ - due.payment, !.rounded = @ + due.rounded]]

settle_funding_payment(p, m) ==
  LET due == pending_funding(p, m)
      q == [p EXCEPT !.last_funding = m.funding[get_direction(p.base)]]
      r == update_quote_asset_and_break_even_amount(q, m, due.payment)
  IN  IF p.base = 0 \/ funding_settled(p, m) THEN [p |-> p, m |-> m]
      ELSE [p |-> r.p, m |-> [r.m EXCEPT !.unsettled_funding = @ - due.payment, !.rounded = @ + due.rounded]]

\* with_amm is what the traders hold together: what they pay the market.
uncapped_funding_pnl(m, rate) == -calculate_funding_payment_in_quote_precision(rate, m.with_amm)

\* The rate at which the base receives the limit, one less for the roundings.
calculate_funding_rate_from_pnl_limit(limit, base) ==
  LET biased == IF limit < 0 THEN limit + 1 ELSE limit
  IN  IF base = 0 THEN 0 ELSE SafeDiv(biased * FundingDivisor, base)

calculate_fee_pool(m) == AtLeast(m.fees - SafeDiv(m.exchange_fee, 2), 0)

\* mutant: a third of the pool is paid twice
mut_calculate_capped_funding_rate(m, rate) ==
  LET receiving == IF rate < 0 THEN m.base["Long"] ELSE m.base["Short"]
      paying == IF rate < 0 THEN m.base["Short"] ELSE m.base["Long"]
      limit == -SafeDiv(calculate_fee_pool(m), 3)
      to_pay == 2 * limit - Abs(calculate_funding_payment_in_quote_precision(rate, paying))
  IN  [rate |-> IF uncapped_funding_pnl(m, rate) >= limit THEN rate
                ELSE calculate_funding_rate_from_pnl_limit(to_pay, receiving),
       pnl |-> AtLeast(limit, uncapped_funding_pnl(m, rate))]

\* What the side that receives is paid when the fee pool cannot pay it in full:
\* what the other side pays and a third of the pool.
calculate_capped_funding_rate(m, rate) ==
  LET receiving == IF rate < 0 THEN m.base["Long"] ELSE m.base["Short"]
      paying == IF rate < 0 THEN m.base["Short"] ELSE m.base["Long"]
      limit == -SafeDiv(calculate_fee_pool(m), 3)
      to_pay == limit - Abs(calculate_funding_payment_in_quote_precision(rate, paying))
  IN  [rate |-> IF uncapped_funding_pnl(m, rate) >= limit THEN rate
                ELSE calculate_funding_rate_from_pnl_limit(to_pay, receiving),
       pnl |-> AtLeast(limit, uncapped_funding_pnl(m, rate))]

\* The market of the next period.  A market that pays rounds its payment down.
calculate_funding_rate_long_short(m, rate, now) ==
  LET pnl == uncapped_funding_pnl(m, rate)
      c == calculate_capped_funding_rate(m, rate)
      capped(s) == IF pnl < 0 /\ ((s = "Long") = (rate < 0)) THEN c.rate ELSE rate
      rounded == IF pnl >= 0 \/ c.pnl = pnl THEN rounded_down(-rate, m.with_amm) ELSE 0
  IN  IF pnl < 0 /\ c.pnl # 0 /\ m.fees + c.pnl < SafeDiv(m.exchange_fee, 2) THEN {}
      ELSE {[m EXCEPT !.fees = @ + (IF pnl >= 0 THEN pnl ELSE c.pnl),
                      !.funding = [s \in Sides |-> @[s] + capped(s)], !.rounded = @ + rounded,
                      !.unsettled_funding = @ - pnl, !.last_funding_ts = now]}

(***************************************************************************)
(* Bids and asks.                                                          *)
(***************************************************************************)
increase_open_bids_and_asks(p, dir, base, update) ==
  IF ~update THEN p
  ELSE IF dir = "Long" THEN [p EXCEPT !.open_bids = @ + base]
       ELSE [p EXCEPT !.open_asks = @ - base]

decrease_open_bids_and_asks(p, dir, base, update) ==
  IF ~update THEN p
  ELSE IF dir = "Long" THEN [p EXCEPT !.open_bids = AtLeast(@ - base, 0)]
       ELSE [p EXCEPT !.open_asks = AtMost(@ + base, 0)]
=============================================================================
