----------------------------- MODULE PerpMarket -----------------------------
(***************************************************************************)
(* The perpetuals market of programs/amm (instructions/perp_market.rs).    *)
(*                                                                         *)
(* A trader deposits collateral under a commitment that hides the position *)
(* and gets collateral back when closing it.  The market keeps the number  *)
(* and the collateral of the positions of each side; the account of a      *)
(* position, one per owner, outlives the position, which can be closed     *)
(* again.  The market names its vault, but no instruction compares: the    *)
(* collateral goes into any token account, and comes back out of any that  *)
(* the market's authority owns.  handler_open_position and                 *)
(* handler_close_position share the market with the price authority and    *)
(* with anybody who updates the funding rate.                              *)
(*                                                                         *)
(* The commitment is not modelled: no instruction compares it.  Neither is *)
(* handler_liquidation_check, which only reads and returns a verdict.      *)
(***************************************************************************)
EXTENDS FullMath, FiniteSetsExt, Functions

CONSTANTS
  Owners,              \* model bound: the traders
  Collaterals,         \* model bound: amounts deposited
  Requests,            \* model bound: amounts asked back
  MarkPrices,          \* model bound: the mark prices the authority reports
  MinCollateral,       \* PerpMarket.min_collateral
  Bps,                 \* 10_000
  BaseFundingRate,     \* BASE_FUNDING_RATE_BPS
  FundingEpochSlots,   \* FUNDING_EPOCH_SLOTS
  Vaults,              \* token accounts of the market's authority, the named one among them
  Elsewhere,           \* any other token account: a trader's own, or of another mint
  Payees,              \* model bound: the accounts that collateral is returned to
  MaxSlot,             \* model bound: slots that pass
  MaxAgain             \* model bound: times that a closed position is closed again

ASSUME MarketAssumption ==
  /\ IsFiniteSet(Owners)
  /\ Collaterals \subseteq Nat /\ Requests \subseteq Nat
  /\ MarkPrices \subseteq Nat \ {0}
  /\ MinCollateral \in Nat \ {0}
  /\ Bps \in Nat \ {0}
  /\ BaseFundingRate \in Nat
  /\ FundingEpochSlots \in Nat \ {0}
  /\ IsFiniteSet(Vaults) /\ Elsewhere \notin Vaults
  /\ Payees \subseteq Vaults \cup {Elsewhere}
  /\ MaxSlot \in Nat
  /\ MaxAgain \in Nat

Sides == {"long", "short"}

VARIABLES
  market,      \* PerpMarket: open interest, notional, prices, funding
  commitment,  \* the PositionCommitment accounts
  live,        \* history: the owners whose position is open
  held,        \* the tokens in each of the authority's accounts
  astray,      \* history: what closing again took from the counters, and the
               \* collateral that was paid elsewhere or taken again
  slot         \* the clock

market_vars == <<market, commitment, live, held, astray>>

NoCommitment == [exists |-> FALSE]

\* i128 division truncates towards zero.
truncated_div(a, b) == IF a >= 0 THEN a \div b ELSE -((-a) \div b)

total_open_interest == market.open_interest["long"] + market.open_interest["short"]
oi_skew == market.open_interest["long"] - market.open_interest["short"]

oi_imbalance_bps ==
  IF total_open_interest = 0 THEN 0
  ELSE ((IF oi_skew >= 0 THEN oi_skew ELSE -oi_skew) * Bps) \div total_open_interest

calculate_funding_rate ==
  IF total_open_interest = 0 THEN 0
  ELSE truncated_div(oi_skew * BaseFundingRate, total_open_interest)

(***************************************************************************)
(* Instructions.  No instruction changes the status of a market: it is     *)
(* active from handler_init_market on.                                     *)
(***************************************************************************)
\* mutant: both sides share a counter
mut_oi_added(oi, is_long, n) == [oi EXCEPT !["long"] = @ + n]

oi_added(oi, is_long, n) == [oi EXCEPT ![IF is_long THEN "long" ELSE "short"] = @ + n]

\* mutant: a position is taken out of both sides
mut_oi_removed(oi, is_long, n) == [s \in Sides |-> saturating_sub(oi[s], n)]

oi_removed(oi, is_long, n) ==
  [oi EXCEPT ![IF is_long THEN "long" ELSE "short"] = saturating_sub(@, n)]

Accounts == Vaults \cup {Elsewhere}

\* The token program's transfer.
transferred(from, to, n) ==
  [v \in Vaults |-> held[v] + (IF v = to THEN n ELSE 0) - (IF v = from THEN n ELSE 0)]

handler_open_position(o, amount, is_long, to) ==
  /\ ~commitment[o].exists
  /\ amount >= MinCollateral
  /\ held' = transferred(Elsewhere, to, amount)
  /\ market' = [market EXCEPT !.open_interest = oi_added(@, is_long, 1),
                              !.oi_notional = oi_added(@, is_long, amount)]
  /\ commitment' = [commitment EXCEPT ![o] =
                      [exists |-> TRUE, is_long |-> is_long, collateral_amount |-> amount]]
  /\ live' = live \cup {o}
  /\ astray' = (IF to \in Vaults THEN astray ELSE [astray EXCEPT !.tokens = @ + amount])
  /\ UNCHANGED slot

\* mutant: the owner gets what is asked for
mut_return_amount(o, to_return) == to_return

return_amount(o, to_return) == least(to_return, commitment[o].collateral_amount)

\* What closing a closed position adds to the history.
taken_again(c, paid) ==
  [astray EXCEPT !.closings = oi_added(@, c.is_long, 1),
                 !.notional = oi_added(@, c.is_long, c.collateral_amount),
                 !.tokens = @ + paid]

\* The position's account stays as it is.  An account that holds too little fails
\* the transfer.
handler_close_position(o, to_return, from, to) ==
  /\ commitment[o].exists
  /\ o \in live \/ astray.closings["long"] + astray.closings["short"] < MaxAgain
  /\ LET c == commitment[o]
         paid == return_amount(o, to_return)
     IN /\ paid <= held[from]
        /\ held' = transferred(from, to, paid)
        /\ market' = [market EXCEPT
                        !.open_interest = oi_removed(@, c.is_long, 1),
                        !.oi_notional = oi_removed(@, c.is_long, c.collateral_amount)]
        /\ astray' = (IF o \in live THEN astray ELSE taken_again(c, paid))
  /\ live' = live \ {o}
  /\ UNCHANGED <<commitment, slot>>

handler_update_mark_price(price) ==
  /\ market' = [market EXCEPT !.mark_price_x64 = price]
  /\ UNCHANGED <<commitment, live, held, astray, slot>>

handler_update_funding_rate ==
  /\ slot >= market.last_funding_slot + FundingEpochSlots
  /\ market' = [market EXCEPT !.funding_rate_x64 = calculate_funding_rate,
                              !.cumulative_funding_x64 = @ + calculate_funding_rate,
                              !.last_funding_slot = slot]
  /\ UNCHANGED <<commitment, live, held, astray, slot>>

advance_slot ==
  /\ slot < MaxSlot
  /\ slot' = slot + 1
  /\ UNCHANGED market_vars

InitMarket ==
  /\ market = [open_interest |-> [s \in Sides |-> 0], oi_notional |-> [s \in Sides |-> 0],
               mark_price_x64 |-> 0, funding_rate_x64 |-> 0, cumulative_funding_x64 |-> 0,
               last_funding_slot |-> 0]
  /\ commitment = [o \in Owners |-> NoCommitment]
  /\ live = {}
  /\ held = [v \in Vaults |-> 0]
  /\ astray = [closings |-> [s \in Sides |-> 0], notional |-> [s \in Sides |-> 0], tokens |-> 0]
  /\ slot = 1

market_step ==
  \/ \E o \in Owners, amount \in Collaterals, is_long \in BOOLEAN, to \in Accounts :
       handler_open_position(o, amount, is_long, to)
  \/ \E o \in Owners, to_return \in Requests, from \in Vaults, to \in Payees :
       handler_close_position(o, to_return, from, to)
  \/ \E price \in MarkPrices : handler_update_mark_price(price)
  \/ handler_update_funding_rate

(***************************************************************************)
(* Properties.                                                             *)
(***************************************************************************)
\* The accounts hold values of their types.
MarketTypeOK ==
  /\ market.open_interest \in [Sides -> Nat]
  /\ market.oi_notional \in [Sides -> Nat]
  /\ market.mark_price_x64 \in Nat
  /\ market.funding_rate_x64 \in Int
  /\ market.cumulative_funding_x64 \in Int
  /\ market.last_funding_slot \in Nat
  /\ live \subseteq {o \in Owners : commitment[o].exists}
  /\ \A o \in Owners : commitment[o].exists =>
       commitment[o].is_long \in BOOLEAN /\ commitment[o].collateral_amount \in Nat
  /\ held \in [Vaults -> Nat]
  /\ astray.closings \in [Sides -> Nat] /\ astray.notional \in [Sides -> Nat] /\ astray.tokens \in Nat
  /\ slot \in Nat

collateral == [o \in Owners |-> IF commitment[o].exists THEN commitment[o].collateral_amount ELSE 0]

on_side(side) == {o \in live : commitment[o].is_long = (side = "long")}

\* "Aggregate long open interest (number of long positions)": whatever the order in
\* which traders open and close, the market's counters never name more than the
\* positions that are open, and what they miss is what closed positions took out
\* when they were closed again.
OpenInterestBounded ==
  \A side \in Sides :
    LET count == Cardinality(on_side(side))
        sum == SumFunctionOnSet(collateral, on_side(side))
    IN /\ market.open_interest[side] <= count
       /\ count <= market.open_interest[side] + astray.closings[side]
       /\ market.oi_notional[side] <= sum
       /\ sum <= market.oi_notional[side] + astray.notional[side]

\* The accounts of the market's authority together cover the collateral of all open
\* positions, but for what traders paid elsewhere when they opened and took by
\* closing again: who deposits with the market and closes once takes nothing that
\* another deposited.
CollateralAccounted ==
  SumFunctionOnSet(held, Vaults) + astray.tokens >= SumFunctionOnSet(collateral, live)

\* The counters are those of the open positions.  It fails: a position can be closed again.
OpenInterestExact ==
  \A side \in Sides :
    /\ market.open_interest[side] = Cardinality(on_side(side))
    /\ market.oi_notional[side] = SumFunctionOnSet(collateral, on_side(side))

\* The accounts cover the collateral of the open positions.  It fails, without
\* closing again: the collateral of a position can be paid elsewhere.
CollateralCovered == SumFunctionOnSet(held, Vaults) >= SumFunctionOnSet(collateral, live)
=============================================================================
