------------------------- MODULE MCDriftLiquidation -------------------------
EXTENDS DriftLiquidation

MCPerp == [ratio_init |-> 20, ratio_maint |-> 10, upnl_init |-> 50, liq_fee |-> 2, max_liq_fee |-> 5,
           if_fee |-> 2, max_insurance |-> 20]

MCToken == [i \in {0, 1} |->
  IF i = 0 THEN [asset_init |-> 100, asset_maint |-> 100, liab_init |-> 100, liab_maint |-> 100, liq_fee |-> 0, if_fee |-> 0, safer |-> TRUE]
  ELSE [asset_init |-> 80, asset_maint |-> 90, liab_init |-> 120, liab_maint |-> 110, liq_fee |-> 5, if_fee |-> 2, safer |-> FALSE]]

D(x) == [bal |-> 10 * x, type |-> "Deposit"]
B(x) == [bal |-> 10 * x, type |-> "Borrow"]
Pos(b, q, orders, bids) ==
  [NoPosition EXCEPT !.base = b, !.quote = q, !.entry = q, !.break_even = q, !.open_orders = orders, !.open_bids = bids]
A(s0, s1, pos, isolated, iso) ==
  [spot |-> [i \in {0, 1} |-> IF i = 0 THEN s0 ELSE s1], pos |-> pos, isolated |-> isolated, iso |-> iso,
   status |-> {}, flag |-> {}, freed |-> 0, last_slot |-> 0, liquidations |-> 0]

Sum(bals, type) == MapThenSumSet(LAMBDA n : IF bals[n].type = type THEN bals[n].bal ELSE 0, DOMAIN bals)

\* The markets of a world with these accounts, and vaults that hold what is not lent.
SpotOf(bals, cdi, cbi, insurance) ==
  LET k == [dep |-> Sum(bals, "Deposit"), bor |-> Sum(bals, "Borrow"), cdi |-> cdi, cbi |-> cbi,
            revenue |-> NoBalance, vault |-> 0, if_vault |-> insurance]
  IN  [k EXCEPT !.vault = deposits(k) - borrows(k) + Rounding]

MarketOf(acct0) ==
  LET side(s) == {n \in Accounts : acct0[n].pos.base # 0 /\ get_direction(acct0[n].pos.base) = s}
      total(s, f(_)) == MapThenSumSet(LAMBDA n : f(acct0[n].pos), side(s))
  IN  [NewMarket EXCEPT !.base = [s \in Sides |-> total(s, LAMBDA p : p.base)],
         !.entry = [s \in Sides |-> total(s, LAMBDA p : p.entry)],
         !.break_even = [s \in Sides |-> total(s, LAMBDA p : p.break_even)],
         !.with_amm = MapThenSumSet(LAMBDA n : acct0[n].pos.base, Accounts),
         !.quote = MapThenSumSet(LAMBDA n : acct0[n].pos.quote, Accounts),
         !.curve = -MapThenSumSet(LAMBDA n : acct0[n].pos.quote, Accounts),
         !.users = Cardinality({n \in Accounts : has_position(acct0[n].pos)}),
         !.users_with_base = Cardinality({n \in Accounts : acct0[n].pos.base # 0})]

Opening(user, third, price0, price1) ==
  LET liq == A(D(1000), D(100), NoPosition, FALSE, NoBalance)
      acct0 == [n \in Accounts |-> CASE n = "user" -> user [] n = "liq" -> liq [] OTHER -> third]
      fee == D(5)
      bals0 == [n \in Accounts \union {"iso", "fee"} |->
                  CASE n = "iso" -> user.iso [] n = "fee" -> fee [] OTHER -> acct0[n].spot[0]]
      bals1 == [n \in Accounts |-> acct0[n].spot[1]]
  IN  [acct |-> acct0, m |-> MarketOf(acct0),
       s |-> [i \in {0, 1} |-> IF i = 0 THEN SpotOf(bals0, 11, 12, 15) ELSE SpotOf(bals1, 10, 12, 5)],
       k |-> [pnl_pool |-> NoBalance, fee_pool |-> fee, settled |-> 0, liq_fee |-> 0, paid |-> 0, social |-> 0],
       oracle |-> price0, token_price |-> price1]

Trader == A(D(400), D(50), Pos(-20, 200, 0, 0), FALSE, NoBalance)

\* A long position with an order, a borrow against a token, an isolated position,
\* and a borrow against a profit.
MCOpenings ==
  {Opening(A(D(40), NoBalance, Pos(20, -200, 1, 5), FALSE, NoBalance), Trader, 10, 5),
   Opening(A(B(100), D(30), NoPosition, FALSE, NoBalance), Trader, 10, 5),
   Opening(A(D(50), B(9), Pos(20, -200, 1, 5), TRUE, D(40)), Trader, 10, 5),
   Opening(A(NoBalance, B(8), Pos(0, 42, 0, 0), FALSE, NoBalance), Trader, 10, 5)}
=============================================================================
