----------------------------- MODULE DriftCurve -----------------------------
(***************************************************************************)
(* The curve of one perp market of programs/drift (math/amm.rs,            *)
(* math/cp_curve.rs, math/repeg.rs, controller/amm.rs,                     *)
(* controller/repeg.rs): a constant product of base and quote reserves     *)
(* times a peg.  The protocol moves the curve towards the oracle and pays  *)
(* the users' gain from the market's fees.                                 *)
(*                                                                         *)
(* A market m has the reserves b and q, k (sqrt_k), peg, coef, the bounds  *)
(* min and max of b, term (the quote reserve once the users' net base net  *)
(* is closed), the users' quote cost quote, the fees tfmd, fees, liq_fees  *)
(* and withdrawn, the spreads base_spread, max_spread, long_spread and     *)
(* short_spread, intensity and adj, status, step, the claims' rev_max and  *)
(* rev_since, and init (margin_ratio_initial).                             *)
(***************************************************************************)
EXTENDS DriftInterest

CONSTANTS
  PricePrecision,     \* a price of one
  ConcPrecision,      \* CONCENTRATION_PRECISION
  MaxConc,            \* MAX_CONCENTRATION_COEFFICIENT
  RatioPrecision,     \* of the ratio of two ks
  MaxK,               \* MAX_SQRT_K
  ReserveSlack,       \* the reserves may miss the invariant by less than this
  MaxKPriceChange,    \* MAX_UPDATE_K_PRICE_CHANGE
  SpreadPerMargin     \* max_spread is less than this times the initial margin ratio

ASSUME CurveAssumption ==
  /\ {PricePrecision, ConcPrecision, RatioPrecision, MaxK, ReserveSlack, SpreadPerMargin} \subseteq Nat \ {0}
  /\ MaxConc > ConcPrecision

abs(x) == IF x < 0 THEN -x ELSE x

\* Division as in the source: towards zero.
quotient(x, y) == IF (x < 0) = (y < 0) THEN abs(x) \div abs(y) ELSE -(abs(x) \div abs(y))

(***************************************************************************)
(* The curve.                                                              *)
(***************************************************************************)
calculate_price(q, b, peg) == (q * peg * PricePrecision) \div b

reserve_price(m) == calculate_price(m.q, m.b, m.peg)

calculate_bid_ask_bounds(coef, base) ==
  [min |-> (base * ConcPrecision) \div coef, max |-> (base * coef) \div ConcPrecision]

calculate_market_open_bids_asks(m) == [bids |-> atLeast(0, m.b - m.min), asks |-> -atLeast(0, m.max - m.b)]

\* The reserves after amount of base goes in (Add) or out (Remove).
calculate_swap_output(amount, base, dir, k) ==
  LET new == IF dir = "Add" THEN base + amount ELSE base - amount
  IN  IF new <= 0 THEN {} ELSE {[q |-> (k * k) \div new, b |-> new]}

\* Net long users would give their base back, net short ones take it.
calculate_terminal_reserves(m) ==
  calculate_swap_output(abs(m.net), m.b, IF m.net > 0 THEN "Add" ELSE "Remove", m.k)

calculate_quote_asset_amount_swapped(before, after, dir, peg) ==
  IF dir = "Add" THEN (before - after) * peg ELSE (after - before + 1) * peg + 1

\* What closing the users' net base pays them, or costs them.
calculate_base_asset_value(m) ==
  IF m.net = 0 THEN {0}
  ELSE {calculate_quote_asset_amount_swapped(m.q, r.q, IF m.net > 0 THEN "Add" ELSE "Remove", m.peg) :
          r \in calculate_terminal_reserves(m)}

\* The users' gain when the value goes from v to w.
calculate_pnl(m, v, w) == IF m.net > 0 THEN w - v ELSE v - w

\* Without curve updates the spread is halved; with them it depends on the
\* volatility and the inventory, and any spread up to the limit is possible.
spread_choices(m) ==
  LET half == m.base_spread \div 2
  IN  {<<half, half>>} \union
      (IF m.intensity > 0 THEN {<<half, atLeast(half, m.max_spread - half)>>} ELSE {})

adjusted(spread, adj) ==
  IF adj < 0 THEN atLeast(1, spread - (spread * abs(adj)) \div 100)
  ELSE IF adj > 0 THEN atLeast(1, spread + (spread * adj + 99) \div 100)
  ELSE spread

update_spreads(m) ==
  {[m EXCEPT !.long_spread = adjusted(s[1], m.adj), !.short_spread = adjusted(s[2], m.adj)] : s \in spread_choices(m)}

\* mutant: the terminal reserve is left as it was
mut_with_bounds(m, coef) ==
  UNION {LET bounds == calculate_bid_ask_bounds(coef, t.b)
         IN  update_spreads([m EXCEPT !.coef = coef, !.min = bounds.min, !.max = bounds.max]) :
           t \in calculate_terminal_reserves(m)}

\* The terminal reserve, the bounds around it and the spreads.
with_bounds(m, coef) ==
  UNION {LET bounds == calculate_bid_ask_bounds(coef, t.b)
         IN  update_spreads([m EXCEPT !.coef = coef, !.term = t.q, !.min = bounds.min, !.max = bounds.max]) :
           t \in calculate_terminal_reserves(m)}

(***************************************************************************)
(* Moves of the curve.                                                     *)
(***************************************************************************)
\* The stored terminal reserve must be the one the reserves give.
update_concentration_coef(m, scale) ==
  LET coef == ConcPrecision + (MaxConc - ConcPrecision) \div scale
      unloads(n) == LET open == calculate_market_open_bids_asks(n) IN open.bids > n.net /\ open.asks < n.net
  IN  IF scale = 0 \/ coef <= ConcPrecision \/ \E t \in calculate_terminal_reserves(m) : t.q # m.term THEN {}
      ELSE {n \in with_bounds(m, coef) : unloads(n)}

move_price(m, base, quote, k) ==
  LET q == (k * k) \div base
  IN  IF abs(quote - q) >= ReserveSlack THEN {}
      ELSE with_bounds([m EXCEPT !.b = base, !.q = q, !.k = k], m.coef)

\* The reserves that the users' net base leaves of a balanced curve.
recenter_perp_market_amm(m, peg, k) ==
  UNION {with_bounds([m EXCEPT !.b = r.b, !.q = (k * k) \div r.b, !.k = k, !.peg = peg], m.coef) :
           r \in calculate_swap_output(abs(m.net), k, IF m.net > 0 THEN "Remove" ELSE "Add", k)}

\* k may not fall by more than half, nor below the users' net base.
get_update_k_result(m, k) ==
  LET exact == (k * RatioPrecision) \div m.k
      ratio == IF exact < RatioPrecision THEN exact + 1 ELSE exact
      base == (m.b * ratio) \div RatioPrecision
  IN  IF \/ 2 * exact < RatioPrecision
         \/ (ratio >= RatioPrecision /\ k > MaxK)
         \/ (m.status # "ReduceOnly" /\ k < m.k /\ abs(m.net) > k)
         \/ base = 0
        THEN {}
        ELSE {[k |-> k, b |-> base, q |-> (k * k) \div base]}

update_k(m, r) == with_bounds([m EXCEPT !.b = r.b, !.q = r.q, !.k = r.k], m.coef)

\* The moved market and what the users gain by it.
adjust_k_cost(m, r) ==
  UNION {UNION {{[m |-> n, cost |-> calculate_pnl(m, v, u)] : u \in calculate_base_asset_value(n)} :
                  n \in update_k(m, r)} : v \in calculate_base_asset_value(m)}

adjust_peg_cost(m, peg) ==
  LET n == [m EXCEPT !.peg = peg]
  IN  UNION {{[m |-> n, cost |-> calculate_pnl(m, v, u)] : u \in calculate_base_asset_value(n)} :
               v \in calculate_base_asset_value(m)}

(***************************************************************************)
(* The fees that pay for it.                                               *)
(***************************************************************************)
\* Half of the exchange fees stay.
get_total_fee_lower_bound(m) == m.fees \div 2

fee_reserved_for_protocol(m) == get_total_fee_lower_bound(m) + m.liq_fees - m.withdrawn

calculate_fee_pool(m) == atLeast(0, m.tfmd - fee_reserved_for_protocol(m))

\* A cost that would leave too little is not applied.
apply_cost_to_market(m, cost, check) ==
  IF cost > 0 /\ check /\ m.tfmd - cost < fee_reserved_for_protocol(m) THEN {}
  ELSE {[m EXCEPT !.tfmd = @ - cost]}

\* The terminal price moves towards the oracle, not past the near edge of its
\* confidence, and the price not past the far edge.
calculate_repeg_validity(n, before, o) ==
  LET terminal == {calculate_price(t.q, t.b, n.peg) : t \in calculate_terminal_reserves(n)}
  IN  \A after \in terminal :
        /\ o.price > after => /\ after >= before /\ o.price - o.conf >= after
                              /\ reserve_price(n) <= o.price + o.conf
        /\ o.price < after => /\ after <= before /\ o.price + o.conf <= after
                              /\ reserve_price(n) >= o.price - o.conf

repeg(m, peg, o) ==
  LET before == CHOOSE p \in {calculate_price(t.q, t.b, m.peg) : t \in calculate_terminal_reserves(m)} : TRUE
  IN  IF peg = m.peg \/ ~o.valid THEN {}
      ELSE UNION {{[n EXCEPT !.peg = peg] : n \in apply_cost_to_market(m, r.cost, TRUE)} :
                    r \in {r \in adjust_peg_cost(m, peg) : calculate_repeg_validity(r.m, before, o)}}

(***************************************************************************)
(* The update every fill begins with.                                      *)
(***************************************************************************)
\* Rounded to the nearest peg, at least one.
calculate_peg_from_target_price(q, b, price) ==
  LET x == (price * b * 2) \div (q * PricePrecision) IN atLeast(1, (x + 1) \div 2)

calculate_repeg_cost(m, peg) == (m.q - m.term) * (peg - m.peg)

calculate_per_peg_cost(m) ==
  LET c == m.q - m.term IN IF c > 0 THEN c + 1 ELSE IF c < 0 THEN c - 1 ELSE 0

\* When the fees do not pay for the oracle's price the mark only has to come
\* within half the maximum spread of it, and then the lower bound is waived.
calculate_optimal_peg_and_budget(m, o) ==
  LET optimal == calculate_peg_from_target_price(m.q, m.b, o.price)
      budget == calculate_fee_pool(m)
      half == (o.price * (m.max_spread \div 2)) \div 100
      gap == reserve_price(m) - o.price
      nearer == IF gap < 0 THEN reserve_price(m) + (abs(gap) - half) ELSE reserve_price(m) - (abs(gap) - half)
      near == calculate_peg_from_target_price(m.q, m.b, nearer)
  IN  IF budget >= atLeast(0, calculate_repeg_cost(m, optimal))
        THEN {[peg |-> optimal, budget |-> budget, check |-> TRUE]}
      ELSE IF abs(gap) > half
        THEN IF calculate_repeg_cost(m, near) < 0 THEN {}
             ELSE {[peg |-> near, budget |-> calculate_repeg_cost(m, near), check |-> FALSE]}
      ELSE {[peg |-> optimal, budget |-> budget, check |-> budget # 0]}

\* The whole way if it is free, earns, or is within the budget, else as far as
\* the budget goes; a market that may lowers k first, by a thousandth, which at
\* this scale is nothing.
adjust_amm(m, p) ==
  LET per == calculate_per_peg_cost(m)
      delta == p.peg - m.peg
      reach == IF per = 0 THEN 0 ELSE quotient(p.budget, per)
      whole == \/ per = 0
               \/ (per > 0 /\ delta < 0)
               \/ (per < 0 /\ delta > 0)
               \/ abs(reach) > abs(delta)
      peg == IF whole THEN p.peg ELSE IF reach > 0 THEN m.peg + reach ELSE atLeast(1, m.peg - abs(reach))
  IN  IF delta = 0 \/ m.intensity = 0 THEN [m |-> m, cost |-> 0]
      ELSE [m |-> [m EXCEPT !.peg = peg], cost |-> calculate_repeg_cost(m, peg)]

\* o is the oracle; an update that is not paid for leaves the curve.
update_amm(m, o) ==
  LET moved == IF ~o.valid \/ m.intensity = 0 THEN {m}
               ELSE UNION {LET r == adjust_amm(m, p)
                               paid == apply_cost_to_market(m, r.cost, p.check)
                           IN  IF paid = {} THEN {m} ELSE {[n EXCEPT !.peg = r.m.peg] : n \in paid} :
                             p \in calculate_optimal_peg_and_budget(m, o)}
  IN  IF m.status \in {"Settlement", "Delisted"} THEN {m} ELSE UNION {update_spreads(n) : n \in moved}

(***************************************************************************)
(* What a market must be.                                                  *)
(***************************************************************************)
\* mutant: the peg may be zero
mut_validate_perp_market(m) ==
  /\ m.long % m.step = 0 /\ m.short % m.step = 0
  /\ m.long - m.short = m.net
  /\ m.status # "ReduceOnly" => m.k > abs(m.net)
  /\ (m.k >= m.b \/ m.k >= m.q)
  /\ abs((m.k * m.k) \div m.b - m.q) < ReserveSlack
  /\ m.adj >= 0 => m.long_spread + m.short_spread >= m.base_spread - 2
  /\ m.long_spread + m.short_spread <= 100
  /\ m.net > 0 => m.term <= m.q
  /\ m.net < 0 => m.term >= m.q
  /\ m.net = 0 => m.term = m.q
  /\ m.base_spread > 0 => m.max_spread > m.base_spread /\ m.max_spread < m.init * SpreadPerMargin
  /\ m.rev_max >= abs(m.rev_since)

\* The reserves for the bid and the ask are left out.
validate_perp_market(m) ==
  /\ m.long % m.step = 0 /\ m.short % m.step = 0
  /\ m.long - m.short = m.net
  /\ m.peg > 0
  /\ m.status # "ReduceOnly" => m.k > abs(m.net)
  /\ (m.k >= m.b \/ m.k >= m.q)
  /\ abs((m.k * m.k) \div m.b - m.q) < ReserveSlack
  /\ m.adj >= 0 => m.long_spread + m.short_spread >= m.base_spread - 2
  /\ m.long_spread + m.short_spread <= 100
  /\ m.net > 0 => m.term <= m.q
  /\ m.net < 0 => m.term >= m.q
  /\ m.net = 0 => m.term = m.q
  /\ m.base_spread > 0 => m.max_spread > m.base_spread /\ m.max_spread < m.init * SpreadPerMargin
  /\ m.rev_max >= abs(m.rev_since)

calculate_net_user_pnl(m, price) == m.net * price + m.quote

\* The net holders get at most the oracle's price, at worst what the pools pay.
calculate_expiry_price(m, target, excess) ==
  LET best == -quotient(m.quote - excess, m.net)
  IN  IF abs(m.net) < m.step THEN target
      ELSE IF m.net >= 0 THEN atMost(best, target) - 1
      ELSE atLeast(best, target) + 1
=============================================================================
