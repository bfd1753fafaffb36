-------------------------- MODULE DriftSpotBalance --------------------------
(***************************************************************************)
(* The balances of one token of programs/drift (controller/                *)
(* spot_balance.rs, math/spot_balance.rs).  A holder keeps a scaled        *)
(* balance that is a deposit or a borrow; the market keeps the sums of     *)
(* both and one cumulative interest for each, and a scaled balance times   *)
(* its interest is an amount of tokens.  Every conversion rounds.          *)
(*                                                                         *)
(* As in DriftPositions an operator that the code lets fail returns the    *)
(* set of its outcomes, empty for an error.                                *)
(***************************************************************************)
EXTENDS Integers, FiniteSets

CONSTANT
  Scale   \* 10^(19 - decimals): the interest at which one balance is one token

ASSUME ScaleAssumption == Scale \in Nat \ {0}

BalanceTypes == {"Deposit", "Borrow"}

NoBalance == [bal |-> 0, type |-> "Deposit"]

cumulative_interest(k, type) == IF type = "Deposit" THEN k.cdi ELSE k.cbi

\* Rounding up adds one to any balance but zero, an exact one too.
get_spot_balance(amount, k, type, round_up) ==
  LET b == (amount * Scale) \div cumulative_interest(k, type)
  IN  IF round_up /\ b # 0 THEN b + 1 ELSE b

\* Deposits round down, borrows up.
get_token_amount(bal, k, type) ==
  IF type = "Deposit" THEN (bal * k.cdi) \div Scale
  ELSE (bal * k.cbi + Scale - 1) \div Scale

token_amount(b, k) == get_token_amount(b.bal, k, b.type)

get_signed_token_amount(b, k) == IF b.type = "Deposit" THEN token_amount(b, k) ELSE -token_amount(b, k)

deposits(k) == get_token_amount(k.dep, k, "Deposit")

borrows(k) == get_token_amount(k.bor, k, "Borrow")

(***************************************************************************)
(* A change of one balance, and of the market's sums with it.              *)
(***************************************************************************)
increase_spot_balance(delta, k, type) ==
  IF type = "Deposit" THEN [k EXCEPT !.dep = @ + delta] ELSE [k EXCEPT !.bor = @ + delta]

\* The sums are unsigned: taking too much from one is an error.
decrease_spot_balance(delta, k, type) ==
  IF type = "Deposit" THEN IF delta > k.dep THEN {} ELSE {[k EXCEPT !.dep = @ - delta]}
  ELSE IF delta > k.bor THEN {} ELSE {[k EXCEPT !.bor = @ - delta]}

\* A balance with the other sign of the change is used up first; what is left of
\* the change makes a balance of its own kind.  A balance worth no token at all
\* is not used up: it changes its kind as it stands.
joined(amount, dir, k, b) ==
  LET delta == get_spot_balance(amount, k, dir, dir = "Borrow")
  IN  [k |-> increase_spot_balance(delta, k, dir), b |-> [bal |-> b.bal + delta, type |-> dir]]

update_spot_balances(amount, dir, k, b, leaving) ==
  LET current == token_amount(b, k)
      partly == current > amount
      delta == IF partly THEN get_spot_balance(amount, k, b.type, leaving \/ b.type = "Borrow") ELSE b.bal
      rest == IF partly THEN 0 ELSE amount - current
      reduced == IF current = 0 THEN {[k |-> k, b |-> b]}
                 ELSE IF delta > b.bal THEN {}
                 ELSE {[k |-> j, b |-> [b EXCEPT !.bal = @ - delta]] : j \in decrease_spot_balance(delta, k, b.type)}
      results == IF dir = b.type THEN {joined(amount, dir, k, b)}
                 ELSE {IF rest > 0 THEN joined(rest, dir, r.k, r.b) ELSE r : r \in reduced}
  IN  {r \in results : leaving /\ dir = "Borrow" => deposits(r.k) >= borrows(r.k)}

update_revenue_pool_balances(amount, dir, k) ==
  {[r.k EXCEPT !.revenue = r.b] : r \in update_spot_balances(amount, dir, k, k.revenue, FALSE)}

other(dir) == IF dir = "Deposit" THEN "Borrow" ELSE "Deposit"

\* One holder's balance changes, then the other's the other way.
both_change(amount, dir, k, from, to) ==
  UNION {{[k |-> q.k, from |-> r.b, to |-> q.b] : q \in update_spot_balances(amount, other(dir), r.k, to, FALSE)} :
           r \in update_spot_balances(amount, dir, k, from, FALSE)}

\* Between a holder and the revenue pool nothing else is asked.
transfer_balances(amount, k, from, to) == both_change(amount, "Borrow", k, from, to)

\* amount moves from one holder to another, both inside the exchange, or back when it
\* is negative; no holder's deposit may be more than the market's.
transfer_spot_balances(amount, k, from, to) ==
  IF amount = 0 THEN {[k |-> k, from |-> from, to |-> to]}
  ELSE IF from.type = "Deposit" /\ from.bal > k.dep THEN {}
  ELSE both_change(IF amount < 0 THEN -amount ELSE amount, IF amount < 0 THEN "Deposit" ELSE "Borrow", k, from, to)

(***************************************************************************)
(* What holders are worth against the vault.                               *)
(***************************************************************************)
\* revenue_amount <= depositors_amount.
validate_spot_balances(k) == get_token_amount(k.revenue.bal, k, "Deposit") <= deposits(k)

\* The vault holds the difference of deposits and borrows.
validate_spot_market_vault_amount(k) == validate_spot_balances(k) /\ k.vault >= deposits(k) - borrows(k)
=============================================================================
