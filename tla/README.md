# Formal model of Nebula DEX

TLA+ modules for the on-chain programs of Nebula DEX, the TLC configurations
that check them on small instances, and TLAPS proofs of what holds for every
instance.  The reference is the Rust source under `programs/`; every definition
keeps the name of the function or field it stands for where TLA+ allows it, and
`PROJECT.json` maps it to the lines it was translated from.

## The system

Nebula DEX is a fork of the Raydium concentrated-liquidity AMM with limit
orders, a set of MEV-protection hooks and a small perpetuals market; two small
satellite programs; and a fork of the Drift protocol, an exchange for perpetual
futures with cross margin, lending, liquidation and insurance funds.  Everything
runs as instructions of Solana programs: one instruction is atomic, it either
commits all its writes or, when it returns an error, none of them.  What makes
the system hard is therefore not threads but the *order* of instructions of
different users: each one reads state that others have left behind, much of it
lazily updated (a limit order learns of its fills when its owner settles it, a
position learns of its fees or its funding when it is next touched), in
fixed-point arithmetic that must always round against the caller.

### Components

| Component | State | Operations | Why it is hard |
| --- | --- | --- | --- |
| **Limit orders** (`amm`: `states/limit_order.rs`, `instructions/limit_order/*`, the order fields of `TickState`) | per tick: `order_phase`, `orders_amount`, `part_filled_orders_remaining`, `unfilled_ratio_x64`; per order: its phase, total, filled amount, ratio, settle base and settled output | open, increase, decrease, settle, close; `match_limit_order` inside a swap | orders are filled in cohorts without being visited; each reconstructs its fill from one shared ratio whose rounding accumulates; orders of both directions share a tick |
| **Ticks, positions and liquidity** (`open_position*.rs`, `increase_`/`decrease_liquidity*.rs`, `close_position.rs`, `TickState`) | active liquidity, gross and net liquidity of ticks, fee growth inside and outside, position liquidity and owed fees | open, increase, decrease, close | active liquidity must be that of the positions in range after any path of the price; fee growth is stored relative to the side the price was last on |
| **Swap loop** (`swap.rs`, `swap_v2.rs`, `swap_router_base_in.rs`) | price, tick, fee growth, protocol and fund fees, vaults | exact input and output in both directions, across ticks, with orders matched before a tick is crossed | termination; a price resting on a boundary; price limits |
| **Swap mathematics** (`libraries/*.rs`) | none | amounts, next price, fees | rounding direction, overflow |
| **Dynamic fee** (`states/pool_fee.rs`) | volatility reference, accumulator, time of the last move | update in a swap, fee, bound of a step | filter and decay periods, clamping, groups of ticks that are skipped |
| **Tick array bitmaps** | a bit per tick array | flip, search | must agree with the count kept in the array |
| **Rewards** (`states/pool.rs`, `initialize_reward.rs`, `set_reward_params.rs`, ...) | rate, period, growth, emitted and claimed totals | initialize, change, accrue, claim, collect the remainder | lazy accrual; a change in mid-stream settles the past at the old rate |
| **Oracle** (`states/oracle.rs`) | ring of 100 cumulative-tick observations | update at the end of a swap; two readers | wrap-around, updates that come too soon, readers that assume an order |
| **Shield hooks** (`nebula_shield.rs`, `arb_sweep.rs`, `jit_protection.rs`) | sweep configuration and cooldown, tax totals, guards | correction and tax before a swap, sweep, guards | the correction writes the pool's price on another user's behalf |
| **Configuration and fees** (`instructions/admin/*`, `collect_protocol_fee.rs`, `collect_fund_fee.rs`, `tipy.rs`) | fee rates, status bits | create, update, collect | status bits read by other instructions |
| **Perpetuals market** and **perp shield** (`perp_market.rs`, `perp_shield.rs`) | market, commitments, vaults; breaker, metrics, alerts | open, close, mark price, funding; guard, trigger, reset | a commitment outlives its position; no instruction compares the token account with the market's vault; an error reverts the metrics that led to it |
| **`nebula-shield`**, **`nebula-nft-position`** | settings, totals and guards; a record per position NFT | initialize, update, guard, sweep; mint, burn, transfer | counters written before an error do not persist; record and token can part |
| **Drift: orders and positions** (`controller/orders.rs`, `controller/position.rs`, `controller/funding.rs`, `math/fulfillment.rs`, `math/orders.rs`, handlers of `user.rs`, `keeper.rs`) | order slots and three counters per user, positions, totals of each side in the market, funding rates | place, cancel, modify, fill, trigger, expire, settle funding | one fill walks over makers and the curve and moves three accounts; counters saturate silently |
| **Drift: spot accounts and settlement** (`user.rs`, `controller/spot_balance.rs`, `isolated_position.rs`, `controller/pnl.rs`) | scaled balances, cumulative interest, sums and vaults, pnl and fee pools | deposit, withdraw, transfer, swap, isolated collateral, settle | each conversion rounds; margin is checked per handler and not everywhere; pools of markets must stay apart |
| **Drift: liquidation** (`controller/liquidation.rs`, `math/liquidation.rs`, `state/liquidation_mode.rs`) | liquidation and bankruptcy flags, margin freed, what insurance paid | transfers of position, deposit, borrow or loss to a liquidator or the market, a swap, two bankruptcies | partial steps at moving prices; losses that someone must carry |
| **Drift: insurance and interest** (`controller/insurance.rs`, `math/insurance.rs`, `if_staker.rs`, `math/spot_withdraw.rs`) | vault and shares of a fund, pending requests, rebase exponents | stake, request, cancel, remove, revenue, losses, rebase, swap of funds | share price under losses and pending requests |
| **Drift: markets and administration** (`admin.rs`, `controller/repeg.rs`, `controller/amm.rs`, `math/cp_curve.rs`) | every setting of the exchange and its markets, curve, caches, fulfilment configs | some 130 handlers: setters and the life cycle of markets | settings that only make sense together are written by different handlers |
| **Drift: liquidity pool, commitments, oracles, signed messages** | constituents, targets and cache; counts; price feeds | | see *Not modelled* |
| **Client, scripts, tests** | none on chain | command line | out of scope |

### How they interact

* A swap (`swap_internal`) drives ticks, positions, limit orders, dynamic fee,
  rewards and the oracle in one instruction: it accrues rewards, reads and
  updates the volatility state, finds initialized ticks through the array and
  the bitmap, matches the limit orders resting at a tick it reaches, crosses
  the tick and, at the end, writes price, tick, liquidity, fee growth and an
  observation.
* Liquidity and limit-order instructions share `initialized_tick_count` and the
  bitmap: a tick is initialized if it carries liquidity *or* orders, and both
  sides must keep the count.
* The hooks of `swap_v2` run before `swap_internal`, read the observations that
  earlier swaps left and may rewrite the pool's price.  `nebula-shield` is not
  called by them.
* The perp shield guards liquidations of the perpetuals market; neither calls
  the AMM.
* In Drift a user account is the meeting point: orders reserve margin that
  withdrawals, swaps and isolated transfers check; settlement turns a position's
  quote into a balance of market 0 out of the pnl pool; liquidation moves both
  and may end in a bankruptcy that the insurance fund pays; the fund's revenue is
  the interest borrowers pay; administration changes every parameter of all this
  and winds markets up.

### What makes each component correct

* Limit orders: the vaults cover every order's claim; cancelling returns all
  that is unfilled; a fill is never undone; an order can always be settled and
  so closed; each unfilled order is reachable by a swap from its own side only;
  the array's count and the bitmap are exact.
* Positions and ticks: active liquidity is the liquidity in range; net and
  gross liquidity are the sums over positions; fees paid out never exceed fees
  taken in.
* Swap loop: it terminates; the price moves one way; no tick is passed over.
* Dynamic fee: the accumulator is that of the price, whichever groups a swap
  skipped.
* Rewards: nothing but time earns; claims never exceed emission, emission never
  exceeds funding, and no claim is refused.
* Oracle and shield: the reference is a mean of observed ticks; corrections go
  towards it and keep their cooldown; the tax is not taken from positions.
* Perpetuals: the counters count the open positions and the authority's accounts
  hold their collateral, but for what closing again and depositing elsewhere took;
  a tripped breaker stays tripped for its cooldown.
* Drift: counters and totals are those of the orders, positions and balances;
  no quote and no token comes from nowhere, but what payments of funding are
  rounded down by; nobody falls below a margin by an
  action of their own; a bankrupt account has nothing; stakers do not gain by
  each other; settings that several handlers write agree.

## Modules and the code they stand for

`PROJECT.json` gives, for each definition, the source lines it was translated
from.  Definitions named `mut_...` are not part of the model: each is a
plausible bug, and the project's configurations reject the specification in
which it replaces the definition it is named after.

| Module | Source | State | Actions |
| --- | --- | --- | --- |
| `FullMath` | `libraries/full_math.rs`, `unsafe_math.rs`, Rust's saturating operations | - | operators with the rounding of the code |
| `SwapMath` | `libraries/swap_math.rs`, `sqrt_price_math.rs`, `liquidity_math.rs` | - | amounts, next price, one step of a swap with its fee |
| `TickOrders` | `TickState::match_limit_order` and the order fields of `states/tick_array.rs` | - | how a swap fills the cohorts of a tick, and what it pays |
| `DynamicFee` | `states/pool_fee.rs`, the dynamic part of `swap.rs` | - | checks of a configuration, reference, accumulator, fee, bound of a step |
| `LimitOrder` | `instructions/limit_order/*`, `states/limit_order.rs` | `tick`, `order` by nonce, `order_nonce`, the array's count and bit, `vault`, the pool's tick and status | the five order instructions; the part of `swap_internal` that meets the tick; a swap elsewhere; liquidity at another tick; `update_pool_status` |
| `Pool` | `instructions/swap.rs`, the liquidity instructions, `states/tick_array.rs`, `personal_position.rs`, fee collection | price, tick, liquidity, fee growth, fees, volatility; ticks, arrays, bitmap; positions; vaults; the running swap | the liquidity instructions; `swap_internal` as a sequence of steps on a copy that is committed or dropped; order totals opened and cancelled; fee collection; status |
| `Rewards` | reward part of `states/pool.rs` and the reward instructions, of positions and of ticks | `reward`, growth outside each tick, positions, vault, clock | liquidity, `swap`, `initialize_reward`, `set_reward_params` by funder or administrator, `collect_remaining_rewards`, `update_rewards_only`, status, time |
| `PerpMarket`, `PerpShield` | `perp_market.rs`, `perp_shield.rs` | market, commitments, the tokens in each account of the market's authority, slot; shield, alerts, the last guard call; histories of open positions and of what went astray | every instruction that changes state, collateral paid into and out of any account |
| `Oracle` | `states/oracle.rs`, the readers in `nebula_shield.rs` and `arb_sweep.rs` | - | ring update, `observe_twap`, `get_twap_tick` |
| `ShieldHooks` | `swap_v2.rs`, `nebula_shield.rs`, `arb_sweep.rs` | price and tick, vaults, observations, arb configuration, clock; histories of observations and corrections | `swap_v2` with both hooks, `arb_sweep`, `init_arb_config`, `update_manipulation_tax`, `toggle_arb`, time |
| `NebulaShield` | program `nebula-shield`; `jit_protection.rs` of `amm` | settings, global totals, guards, treasury, slot | every instruction of both |
| `NftPosition` | program `nebula-nft-position` | records, tokens, fees | mint, burn, transfer, set transferable; the token program's transfers, burns and mints (external) |
| `DriftPositions` | `controller/position.rs`, `math/position.rs`, `controller/funding.rs` | - | position and market after a change, a fee, a funding payment with its rounding |
| `DriftOrders` | `controller/orders.rs`, `math/fulfillment.rs`, `math/matching.rs`, order handlers | `users`, `market`, `oracle`, `now` | place (one, several, and take, and make), cancel, modify, fill, trigger, force-cancel, start of a liquidation, funding, market status, reduce-only mode, price and time |
| `DriftSpotBalance`, `DriftInterest` | `controller/spot_balance.rs`, `math/spot_balance.rs`, `math/spot_withdraw.rs`, `math/stats.rs` | - | balances, interest, averages, withdrawal limits |
| `DriftSpot` | deposit, withdraw, transfer and swap handlers of `user.rs`; `isolated_position.rs`; `controller/pnl.rs` and the settling handlers of `keeper.rs` | tokens, accounts, perp market, price, time | those handlers |
| `DriftLiquidation` | `controller/liquidation.rs`, `math/liquidation.rs`, `math/margin.rs`, `state/liquidation_mode.rs` | accounts, market, tokens, pools, prices, slot | every `liquidate_*`, swap liquidation, both bankruptcies, the status handler, funding, price and time |
| `DriftInsurance` | `controller/insurance.rs`, `math/insurance.rs`, `if_staker.rs`, fund handlers of `keeper.rs` | tokens, funds, stakes, perp market, rebalance and transfer configurations, time | stake, request, cancel, remove, revenue, claim of a market, protocol transfers, swap of funds, time |
| `DriftCurve`, `DriftMarkets`, `DriftAdmin` | `controller/amm.rs`, `controller/repeg.rs`, `math/cp_curve.rs`, `math/repeg.rs`, `instructions/admin.rs`, `validation/*` | the exchange, its markets, oracles, caches, configs, time; who called | the handlers of `admin.rs` by the admin or the hot wallet |
| `ShieldPrograms` | - | `focus` | joins the three programs of the shield |
| `SumTheorems` | - | - | lemmas on sums over finite sets |
| `LimitOrderProofs`, `PoolProofs`, `RewardsProofs`, `PerpShieldProofs`, `ShieldProofs`, `DriftAdminProofs` | - | - | theorems and proofs |
| `MC...` | - | - | values for the constants of a run |

An instruction is one action, because the runtime executes it atomically and
undoes it entirely when it fails; an action whose guard is false stands for an
instruction that returns an error.  Two exceptions show the inside of an
instruction.  In `Pool` the loop of a swap is a sequence of actions, so that its
intermediate states can be examined and its termination stated; no other
instruction runs meanwhile.  In `PerpShield` the guard records that it was
called and refused (`attempt`), because what a refusal undoes is the question
there.

The Drift modules are written in one way.  Its handlers are long chains of calls
that each may fail, so a handler is an operator from a *world* (a record of all
accounts it can touch) to the **set** of worlds it may leave: the empty set is
an error, several elements are choices the caller or a price has.  A chain of
calls is a union over the outcomes of the first, so an error in any of them
undoes all, as the runtime does.  `Next` then takes any outcome of any handler.

`Pool` and `LimitOrder` meet in `TickOrders`, which `Pool` instantiates for each
tick: it keeps the totals of a tick and matches them with the operators with
which `LimitOrder` fills the accounts of single orders.  `Rewards` takes the
liquidity of the pool to be that of the positions in range, which is part of
`LiquidityExact` of `Pool`.  `ShieldHooks` has a pool with one position over all
ticks and no trade fee: ticks, fees and orders are the matter of `Pool`.
`PerpShield` extends `PerpMarket`, whose open interest it reads.  `ShieldPrograms`
joins the hooks and the two satellite programs, which share no account: in a
behaviour one of them acts (`focus`).  `DriftPositions`, `DriftSpotBalance` and
`DriftInterest` are shared by the Drift modules; `DriftAdmin` extends
`DriftMarkets` and that `DriftCurve`.

The begin handlers of Drift's swaps look for the matching end instruction by
comparing its first bytes with eight zeros, a placeholder for its identifier
(`user.rs:3952`, `keeper.rs:1718`, `if_staker.rs:507`), so as built they return
an error.  The constant `EndsMatch` of `DriftSpot` and `DriftInsurance` says
whether they find it.  The runs set it, so that what follows the check is
examined; with `FALSE` these actions are disabled.  `DriftLiquidation` models
the swap of a liquidator as the one transaction it is when the end is found.

## Runs

All runs check every interleaving within their bounds.  `CHECK_DEADLOCK` is off
everywhere: the programs only react to instructions, and the bounds on orders,
time or operations stop every model.

| Run | Properties | Bounds |
| --- | --- | --- |
| `limit_order_cohorts` | `TickExact` (types; the array's count and bit; every unfilled order is offered to its own side only; cancelling pays all that is unfilled), `ClaimsCovered` (the vaults cover all orders), `OrderShape`, `NeverStranded` (every order can be settled), `CloseForfeitsDust` (closing gives up at most the output of the one unit that a settlement keeps back), `FillsMonotone` | two orders of up to 2 plus top-ups, phases 0 to 2, price 80/64, fee 1/4 on either token; another tick of the array; limit orders stopped and resumed |
| `pool_liquidity` | `LiquidityExact` (types; active liquidity is that in range; tick sums; the tick is that of the price), `TicksFound` (counts and bitmap exact; search finds the nearest initialized tick), `VaultsCover` (withdrawals, fees and orders), `VolatilityExact`, `PriceOneWay` | two positions with ranges that meet, overlap and share an end, ticks -3 to 3 with spacing 2, swaps of all four kinds, a dynamic fee and times before, between and after its periods, five instructions |
| `pool_orders` | `LiquidityExact`, `TicksFound`, `VaultsCover`, `OnePartyDone` (a swap that names its output leaves a tick only when it or the orders there are used up), `SwapTerminates` | one position, orders first and last in their arrays, the fee on token 0, five instructions, weak fairness; swaps that name their input pay no fee here, see below |
| `pool_entering` | `PriceOneWay`, violated | one position below the price, a dynamic fee, spacing 1 |
| `rewards` | `RewardsCovered` (types; the vault covers what was earned and the rest of the period; no claim is refused), `EarnedExact` (nothing but the passing of time earns, and a payment takes what it pays) | two positions with nested ranges, two rates, a change by either authority, four seconds, totals that reach their largest value 3 |
| `perp_shield_breaker` | `RecordsSound` (the counters name no position that is not open and miss only what closing again took; the authority's accounts cover all collateral but what was paid elsewhere or taken again; the breaker's clock), `GuardHolds`, `TriggerPossible`, `CoolsDown` | two owners, deposits into two accounts of the authority or elsewhere, requests above the deposit, one position closed again, two prices, four slots, two triggers |
| `shield` | `ReferenceExact` (the ring is the end of the log of accepted observations; the reference lies within the ticks observed in its window), `CorrectionSound` (towards the reference, past it only where the smallest sweep asks for it; cooldown over hook and instruction together), `TaxBacked`, `ProgramsSound` (settings stay acceptable over partial updates; totals are those of the shields; no lock beyond its maximum; a bound NFT keeps its owner; every token that is gone was burnt by its holder or went with its record, one each) | a ring of 5 that is new, filling or has wrapped; ticks -4 to 4; 5 instructions of the pool, 6 of `nebula-shield` with two pools, 8 of `nebula-nft-position` with two wallets and mints |
| `drift_orders` | `OrdersExact` (three counters of open orders and open bids and asks are those of the slots; no overfill), `MarketExact` (totals of each side, users counted, no quote from nowhere but what payments of funding are rounded down by), `FillsSound` (a reduce-only order never grows a position; whoever grows by a fill has the margin) | two users with two slots, five order templates (taker, resting, reduce-only, trigger, JIT), two changes, prices 8 and 12, funding of either sign at a rate that does not divide, three instructions, from the start or after a first trade |
| `drift_spot` | `BooksExact` (sums and vaults are those of all holders; pools never owe; tokens of one pool never reach another; protected tokens are never owed; the healthy can leave an expired market), `MarginKept` (nobody gets below initial margin by an action of their own, cross and isolated apart; liquidation ends healthy), `EquityKept` | three accounts of two pools, four spot markets, one perp market, starting worlds with and without debts, isolated positions, profits and expiry; two instructions and a price of three |
| `drift_liquidation` | `BooksExact` (sums, vaults, totals), `BankruptcySound` (a bankrupt account has nothing; losses are paid in full but for what the shares of them are rounded down by; insurance within its allowance), `MarginsSeparate` (an isolated position and the rest never pay for each other) | user, liquidator and a third account, two tokens, several starting debts, two price moves, five instructions |
| `drift_insurance` | `FundExact` (shares are the stakes'; a pending request can be cancelled; claims within limits; vaults cover), `StakersFair` (no step but a claim lowers the share price; a request earns nothing; cancelling keeps its value) | two stakers, two funds, starting funds before and after losses, five instructions, two units of time |
| `drift_admin` | `SettingsSound` (margins, weights, fees, spreads, rates and insurance limits written by different handlers agree; no funding in prediction markets; a market maker's price is whole; an oracle in use exists), `MarketsSound` (markets counted; claims backed by vaults; delisted means empty; settled only after expiry; the curve's derived fields are those of its reserves), `CallsBounded` (no call pays out of a vault or spends the protected fees; the hot wallet starts nothing) | any two calls of either wallet, the recentring crank with an oracle account of its choice, on an empty, a fresh, a busy and an expired exchange |

The bounds are small, but each is past the point at which the next case stops
being new: three phases are a filled, a part-filled and a waiting cohort and
saturation; arrays of two put every tick first or last in its array; a scale
`Q64` of 4 to 64 instead of 2^64 makes rounding visible in every step instead of
once in 2^64; funding is divided by 2 in `drift_orders` and by 1000 in
`drift_liquidation` (`FundingDivisor`, 10^12 in the code), and in both the properties
without `rounded` are violated; two positions are one to act and one to be affected; a ring of
five with nine and ten observations behind it has wrapped.  The Drift runs start
from several worlds each (`Openings`), because an account short of margin, a
fund after a loss or a market at its expiry takes many instructions to reach; two
to five instructions then meet in any order.  Two calls are enough for settings:
a disagreement needs the handler that wrote the one and the handler that wrote
the other.  The largest values (`U64Max`, `PhaseMax`, `U16Max`) are low enough to
be reached, except for `Growth`, which a difference crosses by wrapping below
zero.

`Pool` prices are a table of increasing square roots, because the powers of
1.0001 need full-width arithmetic.  The time of the dynamic fee is the time since
its reference moved, counted to `decay_period`.

### Fairness

`SwapTerminates` is the only liveness property.  It assumes weak fairness of
`run_swap`, the steps of a swap that has started: the loop is straight-line code
of one instruction and nothing can intervene.  A loop that never ends is a swap
that runs out of compute units.  No fairness is assumed of any user: nobody is
obliged to send an instruction.  What a user *could* do is stated instead as an
invariant over enabled instructions: `NeverStranded`, `TriggerPossible`, and the
conjuncts of `RewardsCovered`, `FundExact` and `BooksExact` about claims, pending
requests and expired markets.

### Disagreements with what the repository says

`pool_entering` shows one: the comment on the loop says "Each iteration processes
one step from current price to the next initialized tick" (`swap.rs:573`), but
after a jump over more than one group of ticks without liquidity the dynamic fee
still names the group it started from, and the next step of a swap downwards
moves the price up.  In `pool_liquidity` the spacing is 2, so that no such jump
is possible and the rest of the behaviour is checked.

The configurations below each end in a trace that contradicts a comment; they
are kept so that it can be reproduced.

| Configuration (module) | Statement | What the code does |
| --- | --- | --- |
| `LimitOrder_topup` (`LimitOrder`) | the array's count and bitmap must follow the orders (`open_limit_order.rs:164`) | `increase_limit_order` does not update them; an order that was decreased to nothing and is increased again rests at a tick no swap finds |
| `Pool_gap` (`MCPool`) | `liquidity` is "The currently in range liquidity" (`states/pool.rs:85`) | with one unit left, all of it fee, a swap leaves the orders of a tick unmatched; if that is the first tick of an array, the next search starts in the wrong array and the tick is never crossed |
| `Pool_leftover` (`MCPool`) | "One of the two parties must be equal to 0 to exit the loop" (`swap.rs:772`) | the same unit: neither is zero, and the swap may not end |
| `Pool_output_fee` (`MCPool`) | the loop goes on "until we've consumed all input/output or reached the price limit" (`swap.rs:572`) | with the fee on the output a remainder too small to move the price is never consumed |
| `PerpMarket_again` (`MCPerpShield`) | open interest is the "number of long positions" (`states/perp_market.rs:72`) | a position can be closed again and again |
| the same with `CollateralCovered` as the invariant | the vault is the "Collateral vault holding trader deposits" (`states/perp_market.rs:52`) | a deposit is paid into any account and returned out of any that the authority owns (`perp_market.rs:107`, `:203`) |
| `PerpShield_arms` (`MCPerpShield`) | "any threshold breach arms the breaker" (`states/perp_shield.rs:12`) | the guard arms the breaker and returns an error, which undoes it |

The constant `TopUpEmptied` leaves the step in question out of the other runs, so
that their properties are checked of the rest of the behaviour and not only up to
the first disagreement.  For the same reason swaps that name their input pay no
fee in `pool_orders`.  No such step is left out of the perpetuals market: the history
`astray` counts what closing again and depositing elsewhere have taken, and
`RecordsSound` says that nothing else is missing.

Further disagreements that can be read off the definitions:

* `states/perp_shield.rs:13` says "pauses new position opens; liquidations still
  proceed"; `handler_open_position` looks at the market's status only, which the
  shield never changes, and it is liquidations that are refused.
* `states/perp_shield.rs:14` says "auto-reset after cooldown + metrics
  normalize"; `auto_reset` judges by the metrics of the last call that
  succeeded, and a refused call discards its update.
* `states/perp_shield.rs:257` says "record of each circuit-breaker trigger
  event"; a forced guard call arms the breaker without an alert.
* `lib.rs:293` says that on extension the "new value can't be less than old
  value" (of the rate); `may_lower` allows it near the end, and the
  administrator is not bound at all.
* `reward_total_emitted` is rounded up at every update; once it exceeds what the
  vault holds, `collect_remaining_rewards` fails although positions have earned
  less than that.
* The correction before a swap is "Best-effort: never blocks swap" (`swap_v2.rs:158`); it
  can move the price past the user's limit, and the swap fails.  It moves the
  price without moving tokens, so `TaxBacked` is stated of pools that no
  correction has touched.
* `get_twap_tick` of `arb_sweep.rs` divides all that was ever accumulated by the
  time since the last but one observation: it is no mean of ticks.
  `ReferenceExact` speaks of `observe_twap`.
* A blocked removal counts itself in `jit_blocks` and returns an error, which
  undoes the count.
* A guard's lock has a ceiling "so nobody can lock forever"
  (`states/nebula_shield.rs:102`); each recorded addition starts it anew, and `record_jit_add` asks for a signer
  and not for the owner.  `ProgramsSound` bounds each lock.
* `mint_nft.rs:5` says the mint authority is "revoked post-mint"; nothing revokes
  it.  The record's owner is the "wallet that holds the NFT" (`state.rs:16`); a plain
  token transfer changes the holder and not the record.

### Observations on Drift

What the Drift modules had to model that a reader might not expect; none of it
contradicts a stated property of a run, and several properties name it as their
exception.

* Spot.  The expiry of a market cannot be settled for an isolated position that
  has collateral (`controller/pnl.rs:620`).  An account of pool 1 that buys the
  quote token is held to maintenance margin only (`math/spot_swap.rs:39`).
  Pausing swaps needs both deposits and withdrawals paused (`user.rs:4115`).
  Withdrawals from and transfers to an isolated position skip the withdrawal
  limits (`isolated_position.rs:407`, `:214`).  Interest that rounds to zero
  keeps its time (`spot_balance.rs:144`).
* Liquidation.  A liquidation ends by the amount transferred and not by the
  margin reached (`liquidation.rs:572`).  What the fee pool pays in a bankruptcy
  leaves it and reaches no other pool (`:3453`).  A bankruptcy cannot be resolved
  with no open interest, even if insurance pays everything
  (`math/liquidation.rs:301`).  A second liquidation joins the first's clock and
  identifier (`state/user.rs:408`).
* Orders.  The order id that `place_and_take` looks up is read before the call
  that may use it (`user.rs:2804`).  Open bids and asks saturate at zero, so an
  excess would go unnoticed; `OrdersExact` excludes it.
* Insurance.  A staker who owns every share and cancels a request loses them to
  the protocol (`math/insurance.rs:99`).  A rebase keeps a staker from requesting
  until they add stake, and a small request pending over one may be stuck.
  `admin_remove_insurance_fund_stake` is never called.
* Funding.  Each payment is rounded towards zero, and so is what the market books
  for all of them (`math/funding.rs:160`, `:202`): traders may pay a little less
  than the market or other traders receive.  The rate that shares a loss is
  rounded up (`math/liquidation.rs:317`), but a share may still be rounded to
  nothing: a loss of one unit shared by two positions is paid by neither.  The
  properties allow exactly what the roundings amount to (`rounded`).
* Administration.  The crank that recentres a curve takes the price from any
  account of the market's kind of oracle (`admin.rs:1690`, `:5618`).  Setting the paused operations replaces the set, so pausing one
  operation resumes another (`admin.rs:3371`).  The setter of `base_spread` does
  not look at `max_spread` (`:3846`).  A status setter can revive a market in
  settlement (`:3348`) or make it `Initialized`, after which it may be deleted
  with its pools (`:1210`).  A deleted perp market leaves its cache entry and a
  deleted spot market its fulfilment configs (`:1229`, `:1276`).  Settling an
  expired market again changes its price (`controller/repeg.rs:471`).

## Proofs

TLAPS checks the theorems for every value of the constants that satisfies the
named assumptions: any number of orders or owners, any amounts, prices, fee
rates, thresholds and widths.

**`LimitOrderProofs`.**  `IInv` is `TypeOK /\ OrderShape /\ SaturatesEmpty /\
NonceFresh`.  None of the first three is inductive alone: that amounts stay
natural numbers rests on an order never claiming more than its cohort's ratio
leaves it (`OrderShape`); that a new cohort never meets an order of its own
phase rests on `SaturatesEmpty`; and an order is opened on an account that does
not exist yet (`NonceFresh`).  The argument goes through the arithmetic once,
in lemmas: division is monotone (`DivMono`), scaling by a fraction never
increases (`ScaleLe`), a match takes no more than the tick has
(`MatchBounded`), consuming only lowers the ratio of a phase (`ConsumeTick`),
settling and decreasing return an order that fits (`SettleFits`,
`DecreaseFits`).  Each action then has a lemma (`OpenStep`, ... `SwapStep`).
From `Invariance` follow `TypeCorrect`, `ShapeCorrect`, `SaturationSafe`,
`SettlementTotal` (an order can always be settled, and the branch the code calls
impossible is) and the action property `FillsNeverUndone`.  Assumptions:
`PriceAssumption` (the two roundings of a tick's price differ by at most one),
`BoundAssumption`, `FeeAssumption` (a fee is below the whole).

**`PerpShieldProofs`.**  `IInv` joins the types of the breaker's slots and
counter, the clock of the breaker (active exactly if it was armed after its last
reset), `TriggerPossible` and `GuardHolds`.  The guard rewrites the shield in
four steps; one lemma per step says what it leaves alone, and `GuardedBreaker`
composes them.  From it follow `GuardCorrect`, `ClockCorrect`,
`TriggerAlwaysPossible` and `CooldownRespected`.

`RecordsCorrect` proves `RecordsSound` without a hypothesis: positions are closed
again as often as anyone likes, and collateral goes to and comes from any account.
The counters are not sums over the open positions then (`PerpMarket_again`).  What
is inductive is how far they may fall short: by what closing again has taken from
them, since subtractions saturate at zero and can only take less; and the tokens in
all accounts of the authority (`TransferSum`) by what was paid elsewhere or taken
again.

**`SumTheorems`.**  Books are sums over accounts, so these lemmas say how
`SumFunctionOnSet` of a finite set changes when one account does
(`SumUpdate`), when one joins or leaves, and that sums of dominated functions are
dominated.  They rest on the induction over finite sets of `FiniteSetTheorems`,
stated of a set instead of a predicate (`CountingInduction`, `SubsetInduction`),
because the provers cannot be given an operator.

**The cohorts** are the second part of `LimitOrderProofs`.  `TickInv` adds to
`IInv` what ties a tick to its orders, for any number of them: `WaitingExact` (`orders_amount` is the sum of the orders of
the present phase), `Backed` and `Sided`.  `Backed` is the delicate one.  Of the
cohort that is being filled an order owns `settle_base * ratio / own ratio` and
may take back the integer part.  That the integer parts are covered by
`part_filled_orders_remaining` is not inductive: the next fill scales the real
shares and not their integer parts.  `Backed` therefore bounds the shares over a
common denominator, and each step exhibits the new one.  `TickCorrect`
(`TickExact`) assumes `~TopUpEmptied`; with the top-up of an emptied order the
array's count is wrong, as `LimitOrder_topup` shows.  `DustBounded`
(`CloseForfeitsDust`) needs the invariant `paid_but_dust`: what was paid for an
order falls short of its filled part by no more than the unit kept back.

**`PoolProofs`.**  For any number of positions and orders, any strictly increasing
table of prices and any size of arrays: `LiquidityCorrect` (`LiquidityExact`),
`SearchCorrect` (`TicksFound`), `MatchingCorrect` (`OnePartyDone`, and
`OnePartyUsedUp` for all swaps) and `PriceCorrect` (`PriceOneWay`).  They have one
inductive invariant, since each needs the others: a swap that passes over a tick
leaves its liquidity wrong, the search is right only if counts and bitmap are, and
those are kept only if every tick that liquidity or orders touch is counted.
`IInv` has two parts.  `PoolInv` says of the accounts that counts and bitmap are
those of the initialized ticks, that the liquidity of ticks and pool are sums over
the positions, and that the price lies in the current tick.  `SwapInv` says the
same of the copy on which a swap works, with what is only true inside the loop:
`Located` (the array in which the search starts is that of the current tick, or the
one above it whose first tick has just been crossed downwards, or the next one in
the bitmap), `Ahead` (no initialized tick lies between the current tick and
`tick_next`), and `Counted` (a tick that a match has emptied stays counted until it
is passed).  TLC checked `IInv` on the instances of `pool_liquidity` and
`pool_orders` before it was proved.

The lemmas follow the code.  `CrossSum` and `NothingBetween`: entering a tick
changes the sum in range by the net liquidity of that tick, and nothing else does.
`GrownSums`: one position more or less.  `CountsFollow`, `BitmapShows`, `NextArray`,
`SearchNearest`: counts, bitmap and search.  `NextPriceOneWay`, `StepSound`: with the
roundings of `sqrt_price_math` a step ends between the price and its target and
takes no more than remains.  `MatchSound`, `MatchExhausts`: a match leaves no order
or nothing of the swap.  Then one lemma per step of the loop (`FindKeeps`,
`ComputeKeeps`, `MatchKeeps`, `PassKeeps`, `EndKeeps`) and per instruction
(`OpenKeeps` ... `OpenOrderKeeps`, `StartKeeps`).

Two hypotheses leave out pools for which the statements are false, as the runs
above show.  `StaticFee`: with a dynamic fee a bounded step may turn around
(`pool_entering`).  `NothingLeftOver`: where orders rest, a swap that names its
input and pays the fee on it may be left with one unit that is all fee
(`Pool_leftover`), and then miss a tick (`Pool_gap`); so either there are no orders
or such swaps pay no fee.  Assumptions: `TickAssumption` (prices increase strictly
from tick to tick and their squares are not zero), `RateAssumption` (the shares of
protocol and fund are at most the fee) and `InputAssumption` (arguments pass the
checks of the instructions: ranges and orders at multiples of the tick spacing,
amounts not zero).

`VolatilityCorrect` (`VolatilityExact`) has neither hypothesis: it holds of pools with a
dynamic fee, also where a step turns around.  Between swaps the statement is not
inductive, and inside the loop it is false at times: the group of ticks moves on before the
accumulator does.  `VolatilityInv` says when it holds: whenever the loop is not about
to compute a step, unless the swap has used nothing yet.  Such a swap has moved the
reference without the accumulator (`swap_start`), but it cannot succeed: its amounts are
zero (`EndMeasured`).  The rest is one lemma per step (`ComputeMeasured`,
`IndexMeasured`, `MatchMeasured`, `PassMeasured`), with `AccumulatorSet` for the one
fact on which all rest, that updating the accumulator leaves what it is computed from.
It needs of `FeeAssumption` that the largest accumulator is unsigned.  TLC checked
`VolatilityInv` on the instance of `pool_liquidity` with four instructions.

**`RewardsProofs`.**  `RewardsAreCovered` (`RewardsCovered`) and `EarnedIsExact`
(`EarnedExact`), for any number of positions and ranges, any rates and periods, and
growth that wraps at any size.  Nothing the code keeps is the sum of what positions
have earned, and the integer parts that it computes are not inductive: an update
adds to exact shares.  The invariant `IInv` therefore speaks of shares in 1/`Q64` of a
token, what a position is owed and its liquidity times the growth it has not seen
(`Share`), whose sum is `Owes`:

* `Claims`: the emitted total less what was claimed covers `Owes`;
* `Funded`: the vault and `dust` cover `Owes` and the rest of the period;
* `Timing`: the last update lies in the period and not in the future, and a reward
  that was never initialized is blank.

`UpdatedReward` is the heart of it: an update moves to the liquidity in range no more
than it adds to the total (what is emitted is rounded up, growth down) and than it takes from the
rest of the period, also where the total reaches its maximum.  `OwesGrows` carries
that to the sum over the positions.  `InsideIs` and `BelowCrossed` say that growth inside a
range is a difference of two growths below, which crossing a tick does not
change; `Elsewhere` and `Cleared` that initializing and clearing ticks concerns
nobody else's range; `Touched` that bringing a position up to date only moves the integer part
of its share.  Then one lemma per instruction, most through one of three that they
share: `TouchStep` (update, then change one position), `StillStep` (change or pay one
position without an update) and `RestatedStep` (restate the reward).  Each also says
that the step pays at most one position and leaves what the others have earned as it was
(`PaysOnly`), from which `EarnedExact` follows.  Assumption: `RewardAssumption` (the
constants have their types, ranges are not empty).  TLC checked `IInv` on the instance of
`rewards` before it was proved.

The proof corrected the property.  Once `reward_total_emitted` is `u64::MAX`
`update_reward_infos` returns at once and `last_update_time` stays behind, so what the
period "still hands out" is not the time since then at the rate: it is bounded by
what is left below the maximum (`rest_of_period`).  Stated without that bound
`RewardsFunded` is false after a change of parameters in that state, and nothing is
lost: growth has stopped.

**`ShieldProofs`.**  `ProgramsCorrect` proves `ProgramsSound`.  A shield is
updated field by field, so the invariant speaks of all settings at once
(`Shielding`); the totals of the program are sums over the pools; the record
of a bound NFT keeps its owner wherever the token goes, and the tokens of a mint
are those minted less those burnt by holders or with the record.  No instruction of one program writes an account of another.

The second half is about the hooks.  `CorrectionsCorrect` rests on `ConfigInv`: the configuration
has the types of its instruction, `last_sweep_slot` is the time of the last
correction whoever made it, and the history of corrections is sound.  The
lemmas are about the rounding of a sweep's raw amount and the price it leads to.
`TaxCorrect` rests on `Covered`: until a correction, the vaults cover what the
position would be paid at the present price, rounded as the code rounds.  Each
swap pays for the movement of that amount because the four amounts of
`sqrt_price_math` round against the user (`Amount0Floor`, `Amount0Ceil`, `Split0`,
`Amount1`, `StepCovers`).
`ReferencesCorrect` proves `ReferenceExact` from `LogOf`: read backwards from its
index, whatever that is, the ring is the end of the log of all accepted
observations, and two of its sums differ by the ticks in between times the seconds each
is taken to have held.  `update` turns the ring by one slot (`SlotOf`, `LogGrows`);
`observe_twap` finds an observation old enough whose successor is not
(`TwapReads`), over such a stretch the sum grows by at least the lowest and at most
the highest tick per second (`MeanOfStretch`, by counting back from the latest
but one), and truncation towards zero and the clamp leave the quotient between the two
(`TruncBetween`, `NotClamped`).  It needs that logged times keep their distance
(`Logged`): an observation at the time of the one before would have no successor in the window.
Assumptions: `HookAssumption` (prices
increase strictly with the tick, as in `tick_math`) and
`InputAssumption` (arguments have the types of the instruction; the observations a
pool starts with are ones that `update` could have accepted).
A swap from a price of zero, to which a correction may have taken the pool, fails
(`ZeroSqrtPrice`, `liquidity_math.rs:181`): without that guard the types of the
vaults were not provable, and the guard is part of `exact_internal_v2`.

**`DriftAdminProofs`.**  `SettingsAlwaysSound` (`SettingsSound`), for any number of
markets, any arguments and fee tiers, and any order of the calls of the admin, the
hot wallet and the two crank wallets.  The rules relate fields that different
handlers write (what `validate_margin` compares is written by five handlers, each its
own part), so what must be shown is that each of the handlers of `DriftMarkets` and
`DriftAdmin` keeps all of them.  The invariant `Kept` states
the rules of one market at a time and joins two facts they rest on: the fields are
there and have their types (`Whole`), and the counts name the markets exactly
(`MarketsCounted`), without which a market might be made over another.

A handler is a set of worlds; `Sound` says that all of them keep the rules, and each
handler has a lemma.  Those that write none of the fields compared are shown to
leave the same market through every call they make: spreads, reserves, peg and
k (`SpreadsSame` ... `RaisedSame`, `CurveHandlers`), interest, balances and pools
(`InterestSame`, `BalancesSame`, `PoolMoved`), up to the settlement of an expired
market (`SettleExpired`, `PoolsToRevenue`).  For the others the lemma shows that the
handler's checks imply the rules, also where a market is made (`NewSpotKept`,
`NewPerpKept`).  A prelaunch oracle cannot go while a market reads it, and a market
can only change to one that can be read (`PricedOracle`).

Assumptions: `OpeningsAssumption` (an exchange starts whole, counted and with sound
settings), `ArgumentsAssumption` (arguments that the instructions declare unsigned
are natural numbers) and `MarketsAssumption` (the smallest ratios are positive and
that of high leverage mode is at most the ordinary one, `constants.rs`).  The model
checker evaluates all three.

The proof corrected the property.  `FeesCovered` allowed for one rounding; the check of
a fee tier divides twice, and with a fee of 103, a discount of 67, a referrer's share
of 100 and a filler's of 3 the tier is accepted and exceeds one unit by rounding.
The bound is now that of two divisions (`SharesCovered`).

`SaturatesEmpty` needs three cohorts to be at stake and is covered by the proof
only; the runs have two orders.

Only model-checked:

* `ClaimsCovered`.  It holds within the run's bounds and not for every value of
  the constants, because each fill rounds the ratio of the cohort down.  With
  `Q64` = 16, one order of 12 and two swaps that fill one unit each, the ratio
  goes from 16 over 14 to 12: settling computes 9 unfilled without a remainder,
  keeps no dust back and pays for 3 units where swaps paid for 2.  An error takes an amount
  in the order of `Q64` per number of fills, so amounts far below 2^64 do not meet
  it; a proof would need that bound as a hypothesis and an invariant about the
  number of fills.
* Of `Pool`: `VaultsCover` (fee growth wraps and is spread over positions with
  rounding at each step), and of pools with a dynamic fee all but `VolatilityExact`.
* The properties of the Drift modules but `SettingsSound`; of `MarketsSound`, that the
  markets are counted is part of what `DriftAdminProofs` proves (`RulesKept`).
* Liveness under fairness, and what a recursive definition computes for every
  input, which are out of the prover's reach.

## Not modelled

* Token-2022 transfer fees: amounts are what the vaults receive or send.
* The caller's own limits (minimum and maximum amounts, slippage) of the AMM's
  liquidity instructions: they only make an instruction fail.
* Liquidity computed from a maximum amount (`get_liquidity_from_*`).
* The bit-by-bit evaluation of tick prices and logarithms (`tick_math.rs`).
* The split of the bitmap between the pool and its extension account.
* The router's chain of swaps: each of them is one `swap_v2`.
* `handler_liquidation_check`, which reads and returns a verdict; plain transfers
  into the accounts of the perpetuals market's authority, which only add to them.
* The overflow of a position's reward: what positions are owed never exceeds the
  total emitted, which fits its type.
* Drift's liquidity pool (`state/lp_pool.rs`, `lp_pool.rs`, `lp_admin.rs`,
  `amm_cache.rs`): target weights, constituents and the cache of perp markets.
  Only its settlement writes to what is modelled.  Its hazards: the cache of a
  market is initialised again whenever its last amounts are all zero
  (`amm_cache.rs:335`); a settlement with nothing to move does not record its slot
  (`keeper.rs:3511`); a derivative's update lowers its parent's target in place
  (`lp_pool.rs:1889`).
* Drift's `commitment.rs`, which raises and lowers the counts of users by which a
  market's deletion is decided (`commitment.rs:84`); oracle adapters (prices are inputs of the models, taken
  to be valid); signed messages; the high-leverage register; revenue shares and
  referrals beyond their balance; spot orders and external fulfilment; fuel;
  events.
* Client, scripts, tests, account loading and event definitions.

## Plan

Done: `LimitOrder`, `Pool`, `PerpMarket`, `PerpShield`, the shield hooks and the
satellite programs and `Rewards`, each with proofs; the five parts of Drift,
model-checked, and the settings of its administration proved.  Next, in this order:

1. Proofs about the Drift arithmetic: a balance's sums stay those of its holders
   (`DriftSpotBalance`), a position's change keeps the totals (`DriftPositions`),
   stakes and cancellations never lower the price of a share (`DriftInsurance`).
2. `DriftPool`: the cache of perp markets and its settlement with the liquidity
   pool, and the commitments, whose hazards are named above.
3. `Bitmap`: search operators against a set-based reference.
