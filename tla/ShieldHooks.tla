---------------------------- MODULE ShieldHooks ----------------------------
(***************************************************************************)
(* The shield of the pool program: the correction of the price and the tax *)
(* before a swap (instructions/nebula_shield.rs, called by swap_v2.rs),    *)
(* the instruction arb_sweep with its configuration, and the observations  *)
(* both are decided on.  The pool has one position over all ticks, a trade *)
(* fee of zero and tokens without transfer fees: ticks, fees and orders    *)
(* are the matter of Pool.  An instruction that fails changes nothing.     *)
(*                                                                         *)
(* observed, correction and corrected_at are history: every observation    *)
(* ever accepted, the correction that the last instruction made and the    *)
(* slot of the last correction.                                            *)
(***************************************************************************)
EXTENDS Oracle, SwapMath, Sequences

CONSTANTS
  Q32,                \* 2^32, by which prices are shifted in compute_inline_arb
  Bps,                \* 10_000
  SqrtPrice,          \* get_sqrt_price_at_tick
  Liquidity,          \* PoolState.liquidity
  MinObservations,    \* MIN_OBSERVATIONS
  MinWindow,          \* the shortest twap_window_seconds
  TaxWindow,          \* the 30 seconds of detect_same_slot_manipulation
  Threshold,          \* DEFAULT_MANIPULATION_THRESHOLD_BPS
  DefaultTax,         \* manipulation_tax_bps when zero is passed
  Histories,          \* model bound: the observations of this pool and of others at the start
  ArbConfigs,         \* model bound: the parameters of init_arb_config
  Taxes,              \* model bound: the values of update_manipulation_tax
  Swaps,              \* model bound: the swaps submitted
  Steps,              \* model bound: <<slots, seconds>> that pass at once
  Purse,              \* model bound: what anyone pays to the pool authority at once
  MaxOps              \* model bound: instructions executed

VARIABLES
  sqrt_price, tick,   \* PoolState.sqrt_price_x64, tick_current
  last_swap_slot,     \* PoolState.padding1[0]
  protocol_fees,      \* PoolState.protocol_fees_token_0 and _1
  vault,              \* the two token vaults
  oracle,             \* ObservationState
  arb_config,         \* ArbConfig of the pool, or {}: a set of at most one
  authority_tokens,   \* tokens of accounts that the PDA pool_authority owns
  clock,              \* Clock: slot and unix_timestamp
  observed, correction, corrected_at, ops

poolVars == <<sqrt_price, tick, last_swap_slot, protocol_fees, vault>>
hookVars == <<poolVars, oracle, arb_config, authority_tokens, clock, observed, correction,
             corrected_at, ops>>

ASSUME HookAssumption ==
  /\ SqrtPrice \in [MinTick .. MaxTick -> Nat \ {0}]
  /\ \A t, u \in MinTick .. MaxTick : t < u => SqrtPrice[t] < SqrtPrice[u]
  /\ Liquidity \in Nat \ {0} /\ Bps \in Nat \ {0} /\ Q32 \in Nat \ {0}
  /\ Q64 \in Nat \ {0} /\ FeeDenom \in Nat \ {0} /\ U64Max \in Nat /\ TaxWindow \in Nat

Tokens == 0 .. 1
NoCorrection == [path |-> "none"]

\* The parameters of init_arb_config, and the account it makes.
ArbParameters ==
  [min_spread_bps: Nat, treasury_share_bps: Nat, twap_window_seconds: Nat,
   min_sweep_amount: Nat, max_sweep_amount: Nat, cooldown_slots: Nat,
   manipulation_tax_bps: Nat]

ArbConfig ==
  [min_spread_bps: Nat, treasury_share_bps: Nat, twap_window_seconds: Nat,
   min_sweep_amount: Nat, max_sweep_amount: Nat, cooldown_slots: Nat,
   manipulation_tax_bps: Nat, last_sweep_slot: Nat, total_profit_captured_a: Nat,
   total_profit_captured_b: Nat, enabled: BOOLEAN,
   manipulation_tax_collected: [Tokens -> Nat], manipulation_detections: Nat]

\* What a pool can have recorded: its ticks, no two sooner than the ring accepts.
observations_possible(s) ==
  /\ \A k \in 1 .. Len(s) : s[k].tick \in MinTick .. MaxTick
  /\ \A k \in 1 .. Len(s) - 1 : s[k + 1].time >= s[k].time + UPDATE_DURATION

\* What the instructions are called with.
ASSUME InputAssumption ==
  /\ \A h \in Histories :
       /\ h.observations \in Seq([time: Nat, tick: Int]) /\ h.now \in Nat
       /\ h.tick \in MinTick .. MaxTick
       /\ observations_possible(h.observations)
  /\ ArbConfigs \subseteq ArbParameters /\ DefaultTax \in Nat /\ Taxes \subseteq Nat
  /\ Swaps \subseteq [zero_for_one: BOOLEAN, base_input: BOOLEAN, amount: Nat, limit: Nat,
                      other_amount_threshold: Nat]
  /\ Steps \subseteq Nat \X Nat /\ Purse \in Nat

get_tick_at_sqrt_price(p) ==
  IF p < SqrtPrice[MinTick] \/ p >= SqrtPrice[MaxTick]
  THEN {} ELSE {Max({t \in MinTick .. MaxTick : SqrtPrice[t] <= p})}

(***************************************************************************)
(* The sweep, computed alike by the hook and by the instruction.           *)
(***************************************************************************)
gap(spot, reference) == IF spot > reference THEN spot - reference ELSE reference - spot

\* (spread_bps, a_to_b)
calculate_spread(spot, reference) ==
  [bps |-> (gap(spot, reference) * Bps) \div reference, a_to_b |-> spot > reference]

\* mutant: the gap is closed and as much again
mut_raw_amount(spot, reference) == (Liquidity * ((gap(spot, reference) * 8) \div 5)) \div Q64

\* What closes four fifths of the gap.
raw_amount(spot, reference) == (Liquidity * ((gap(spot, reference) * 4) \div 5)) \div Q64

calculate_sweep_amount(c, spot, reference) ==
  Min({Max({raw_amount(spot, reference), c.min_sweep_amount}), c.max_sweep_amount})

compute_arb_swap(spot, amount, a_to_b) ==
  LET virtual == IF a_to_b THEN Liquidity \div Max({spot \div Q32, 1})
                 ELSE Liquidity * (spot \div Q64)
  IN IF virtual + amount = 0 THEN 0 ELSE (Liquidity * amount) \div (virtual + amount)

profit(spot, amount, a_to_b) == saturating_sub(compute_arb_swap(spot, amount, a_to_b), amount)

\* mutant: the direction of the correction is turned round
mut_apply_arb(spot, amount, a_to_b) ==
  IF a_to_b THEN spot + (amount * Q64) \div Liquidity
  ELSE saturating_sub(spot, (amount * Q64) \div Liquidity)

\* The price that a sweep of this amount leaves.
apply_arb(spot, amount, a_to_b) ==
  IF a_to_b THEN saturating_sub(spot, (amount * Q64) \div Liquidity)
  ELSE spot + (amount * Q64) \div Liquidity

credited(c, a_to_b, amount) ==
  IF a_to_b THEN [c EXCEPT !.total_profit_captured_b = @ + amount]
  ELSE [c EXCEPT !.total_profit_captured_a = @ + amount]

\* mutant: the slot of the sweep is not recorded
mut_swept(c, slot) == c

swept(c, slot) == [c EXCEPT !.last_sweep_slot = slot]

cooled(c, slot) == slot >= c.last_sweep_slot + c.cooldown_slots

\* The price, the tick and the configuration that pre_swap_arb_check leaves, and
\* what it did: every return before the end leaves them as they are.
pre_swap_arb_check(p, t, c, o, clk) ==
  LET left == [price |-> p, tick |-> t, config |-> c, correction |-> NoCorrection]
      done(reference) ==
        LET spread == calculate_spread(p, reference)
            amount == calculate_sweep_amount(c, p, reference)
            gain == profit(p, amount, spread.a_to_b)
            q == apply_arb(p, amount, spread.a_to_b)
        IN IF spread.bps < c.min_spread_bps \/ amount = 0 \/ gain = 0
           THEN left
           ELSE [price |-> q,
                 tick |-> IF get_tick_at_sqrt_price(q) = {} THEN t
                          ELSE CHOOSE u \in get_tick_at_sqrt_price(q) : TRUE,
                 config |-> swept(credited(c, spread.a_to_b, gain), clk.slot),
                 correction |-> [path |-> "hook", from |-> p, to |-> q, reference |-> reference,
                                 raised |-> c.min_sweep_amount > raw_amount(p, reference),
                                 since |-> clk.slot - corrected_at,
                                 cooldown |-> c.cooldown_slots]]
      reference == {SqrtPrice[x] : x \in observe_twap(o, c.twap_window_seconds, clk.now)}
  IN IF ~c.enabled \/ ~cooled(c, clk.slot) \/ o.index < MinObservations \/ reference = {}
     THEN left
     ELSE done(CHOOSE r \in reference : TRUE)

(***************************************************************************)
(* The tax on a swap that names its input.                                 *)
(***************************************************************************)
detect_same_slot_manipulation(p, o, now) ==
  \E x \in observe_twap(o, TaxWindow, now) : calculate_spread(p, SqrtPrice[x]).bps > Threshold

tax_of(c, amount) ==
  LET tax == (amount * c.manipulation_tax_bps) \div Bps
  IN IF tax >= amount THEN 0 ELSE tax

\* mutant: the tax is credited to the side that leaves
mut_taxed(c, fees, token, tax, detected) ==
  [config |-> [c EXCEPT !.manipulation_detections = IF detected THEN @ + 1 ELSE @,
                        !.manipulation_tax_collected[token] = @ + tax],
   fees |-> [fees EXCEPT ![1 - token] = @ + tax]]

\* try_apply_manipulation_tax: the configuration and the protocol fees after it.
taxed(c, fees, token, tax, detected) ==
  [config |-> [c EXCEPT !.manipulation_detections = IF detected THEN @ + 1 ELSE @,
                        !.manipulation_tax_collected[token] = @ + tax],
   fees |-> [fees EXCEPT ![token] = @ + tax]]

(***************************************************************************)
(* Instructions.                                                           *)
(***************************************************************************)
observation_recorded(t) ==
  /\ oracle' = update(oracle, clock.now, t)
  /\ observed' = IF accepts(oracle, clock.now)
                 THEN Append(observed, [time |-> clock.now, tick |-> t]) ELSE observed

limit_allowed(p, limit, zero_for_one) ==
  IF zero_for_one THEN limit < p /\ limit > SqrtPrice[MinTick]
  ELSE limit > p /\ limit < SqrtPrice[MaxTick]

limit_or_default(s) ==
  CASE s.limit # 0 -> s.limit
    [] s.zero_for_one -> SqrtPrice[MinTick] + 1
    [] OTHER -> SqrtPrice[MaxTick] - 1

\* mutant: the tax is not added to what the user pays in
mut_paid_in(step, tax) == step.amount_in + step.fee

\* What the user pays: the step and the tax, which swap_v2 adds again.
paid_in(step, tax) == step.amount_in + step.fee + tax

\* What the user set for the other side: the least to receive, the most to pay.
within_threshold(s, paid, received) ==
  IF s.base_input THEN received >= s.other_amount_threshold ELSE paid <= s.other_amount_threshold

\* exact_internal_v2: the hooks, swap_internal and the transfers.  hook is what
\* pre_swap_arb_check left, configs the configuration if it was supplied.
exact_internal_v2(s, configs, hook, detected) ==
  LET in == IF s.zero_for_one THEN 0 ELSE 1
      tax == IF detected THEN tax_of(hook.config, s.amount) ELSE 0
      after == taxed(hook.config, protocol_fees, in, tax, detected)
      step == compute_swap(hook.price, limit_or_default(s), Liquidity, s.amount - tax, 0,
                           s.base_input, s.zero_for_one, TRUE)
      paid == paid_in(step, tax)
  IN /\ limit_allowed(hook.price, limit_or_default(s), s.zero_for_one)
     /\ hook.price > 0      \* ZeroSqrtPrice: a correction may have taken all of it
     /\ step.ok
     /\ paid # 0 /\ step.amount_out # 0
     /\ s.limit = 0 => s.amount = (IF s.base_input THEN paid ELSE step.amount_out)
     /\ vault[1 - in] >= step.amount_out
     /\ within_threshold(s, paid, step.amount_out)
     /\ sqrt_price' = step.price
     /\ \E t \in get_tick_at_sqrt_price(step.price) :
          /\ tick' = t
          /\ IF t # hook.tick THEN observation_recorded(hook.tick) ELSE UNCHANGED <<oracle, observed>>
     /\ vault' = [vault EXCEPT ![in] = @ + paid, ![1 - in] = @ - step.amount_out]
     /\ last_swap_slot' = clock.slot
     /\ IF configs = {}
        THEN UNCHANGED <<arb_config, protocol_fees>>
        ELSE arb_config' = {after.config} /\ protocol_fees' = after.fees
     /\ correction' = hook.correction
     /\ corrected_at' = IF hook.correction = NoCorrection THEN corrected_at ELSE clock.slot
     /\ UNCHANGED <<authority_tokens, clock>>

\* A swap with or without the account of the configuration.
swap_v2(s, configs) ==
  /\ clock.now > last_swap_slot
  /\ \E c \in IF configs = {} THEN {[enabled |-> FALSE]} ELSE configs :
     \E hook \in {pre_swap_arb_check(sqrt_price, tick, c, oracle, clock)} :
       exact_internal_v2(s, configs, hook,
         configs # {} /\ s.base_input /\ detect_same_slot_manipulation(hook.price, oracle, clock.now))

\* The ring of a pool after these observations.
RingAfter(h) ==
  LET ring[n \in 0 .. Len(h)] ==
        IF n = 0 THEN NoObservations ELSE update(ring[n - 1], h[n].time, h[n].tick)
  IN ring[Len(h)]

\* A sweep towards the reference tick x, read from the observations o.
sweep(c, o, x) ==
  LET reference == SqrtPrice[x]
      spread == calculate_spread(sqrt_price, reference)
      amount == calculate_sweep_amount(c, sqrt_price, reference)
      gain == profit(sqrt_price, amount, spread.a_to_b)
      treasury_amount == (gain * c.treasury_share_bps) \div Bps
      q == apply_arb(sqrt_price, amount, spread.a_to_b)
  IN /\ c.enabled /\ cooled(c, clock.slot) /\ o.index >= MinObservations
     /\ spread.bps >= c.min_spread_bps
     /\ gain > 0
     /\ authority_tokens >= treasury_amount
     /\ authority_tokens' = authority_tokens - treasury_amount
     /\ sqrt_price' = q
     /\ \E t \in get_tick_at_sqrt_price(q) : tick' = t
     /\ arb_config' = {swept(credited(c, spread.a_to_b, treasury_amount), clock.slot)}
     /\ correction' = [path |-> "instruction", from |-> sqrt_price, to |-> q,
                       reference |-> reference,
                       raised |-> c.min_sweep_amount > raw_amount(sqrt_price, reference),
                       since |-> clock.slot - corrected_at, cooldown |-> c.cooldown_slots]
     /\ corrected_at' = clock.slot
     /\ UNCHANGED <<last_swap_slot, protocol_fees, vault, oracle, clock, observed>>

\* The instruction of the arb authority, who may pass the observations of any pool.
\* The vaults belong to the pool itself, so the treasury's share comes from another
\* account, one that the pool authority owns, or the transfer fails.
arb_sweep ==
  \E c \in arb_config : \E o \in {oracle} \cup {RingAfter(h.observations) : h \in Histories} :
    \E x \in get_twap_tick(o, clock.now) : sweep(c, o, x)

init_arb_config(a) ==
  /\ arb_config = {}
  /\ a.treasury_share_bps <= Bps /\ a.manipulation_tax_bps <= Bps
  /\ a.min_spread_bps > 0 /\ a.min_sweep_amount < a.max_sweep_amount
  /\ a.twap_window_seconds >= MinWindow
  /\ arb_config' =
       {[min_spread_bps |-> a.min_spread_bps, treasury_share_bps |-> a.treasury_share_bps,
         twap_window_seconds |-> a.twap_window_seconds,
         min_sweep_amount |-> a.min_sweep_amount, max_sweep_amount |-> a.max_sweep_amount,
         cooldown_slots |-> a.cooldown_slots,
         manipulation_tax_bps |->
           IF a.manipulation_tax_bps = 0 THEN DefaultTax ELSE a.manipulation_tax_bps,
         last_sweep_slot |-> 0, total_profit_captured_a |-> 0, total_profit_captured_b |-> 0,
         enabled |-> TRUE, manipulation_tax_collected |-> [i \in Tokens |-> 0],
         manipulation_detections |-> 0]}
  /\ correction' = NoCorrection
  /\ UNCHANGED <<poolVars, oracle, authority_tokens, clock, observed, corrected_at>>

update_manipulation_tax(new_tax_bps) ==
  /\ new_tax_bps <= Bps
  /\ arb_config # {}
  /\ arb_config' = {[c EXCEPT !.manipulation_tax_bps = new_tax_bps] : c \in arb_config}
  /\ correction' = NoCorrection
  /\ UNCHANGED <<poolVars, oracle, authority_tokens, clock, observed, corrected_at>>

toggle_arb(enabled) ==
  /\ arb_config # {}
  /\ arb_config' = {[c EXCEPT !.enabled = enabled] : c \in arb_config}
  /\ correction' = NoCorrection
  /\ UNCHANGED <<poolVars, oracle, authority_tokens, clock, observed, corrected_at>>

\* A token transfer by anyone.
fund_authority ==
  /\ authority_tokens = 0
  /\ authority_tokens' = Purse
  /\ correction' = NoCorrection
  /\ UNCHANGED <<poolVars, oracle, arb_config, clock, observed, corrected_at>>

advance_clock(step) ==
  /\ clock' = [slot |-> clock.slot + step[1], now |-> clock.now + step[2]]
  /\ correction' = NoCorrection
  /\ UNCHANGED <<poolVars, oracle, arb_config, authority_tokens, observed, corrected_at>>

HooksStep ==
  \/ \E s \in Swaps : \E configs \in {arb_config, {}} : swap_v2(s, configs)
  \/ arb_sweep
  \/ \E a \in ArbConfigs : init_arb_config(a)
  \/ \E x \in Taxes : update_manipulation_tax(x)
  \/ \E b \in BOOLEAN : toggle_arb(b)
  \/ fund_authority
  \/ \E step \in Steps : advance_clock(step)

HooksNext == ops < MaxOps /\ ops' = ops + 1 /\ HooksStep

(***************************************************************************)
(* A history is a sequence of observations; the position is opened after   *)
(* it, so that the vaults hold what the position is made of.               *)
(***************************************************************************)
liquidity_amounts(p, t, adding) ==
  get_delta_amounts_signed(t, p, MinTick, MaxTick, SqrtPrice[MinTick], SqrtPrice[MaxTick],
                           Liquidity, adding)

HooksInit ==
  /\ \E h \in Histories : \E t \in MinTick + 1 .. MaxTick - 1 :
       /\ t = h.tick
       /\ observed = h.observations /\ oracle = RingAfter(h.observations)
       /\ tick = t /\ sqrt_price = SqrtPrice[t]
       /\ vault = [i \in Tokens |-> liquidity_amounts(SqrtPrice[t], t, TRUE)[i + 1]]
       /\ clock = [slot |-> 1, now |-> h.now]
  /\ last_swap_slot = 0 /\ protocol_fees = [i \in Tokens |-> 0]
  /\ arb_config = {} /\ authority_tokens = 0
  /\ correction = NoCorrection /\ corrected_at = 0 /\ ops = 0

HooksSpec == HooksInit /\ [][HooksNext]_hookVars

(***************************************************************************)
(* Properties.                                                             *)
(***************************************************************************)
HooksTypeOK ==
  /\ sqrt_price \in Nat /\ tick \in MinTick .. MaxTick
  /\ last_swap_slot \in Nat /\ vault \in [Tokens -> Nat] /\ protocol_fees \in [Tokens -> Nat]
  /\ oracle.index \in 0 .. OBSERVATION_NUM - 1
  /\ Cardinality(arb_config) <= 1 /\ authority_tokens \in Nat

\* The ring holds the latest of all observations ever accepted, in their order,
\* each with the sum of the one before it plus its tick for the time between.
RingIsLog ==
  LET n == Len(observed)
      at(k) == oracle.observations[(oracle.index + OBSERVATION_NUM - k) % OBSERVATION_NUM]
  IN /\ oracle.initialized <=> n > 0
     /\ \A k \in 0 .. Min({n, OBSERVATION_NUM}) - 1 : at(k).time = observed[n - k].time
     /\ \A k \in 0 .. Min({n, OBSERVATION_NUM}) - 2 :
          at(k).cumulative - at(k + 1).cumulative
            = observed[n - k].tick * (observed[n - k].time - observed[n - k - 1].time)

\* A reference over a window is a mean of ticks observed in one stretch that
\* begins at or before the window and ends in it: it lies between their extremes.
ReferenceIsMean ==
  \A window \in {TaxWindow} \cup {c.twap_window_seconds : c \in arb_config} :
    \A x \in observe_twap(oracle, window, clock.now) :
      \E i \in 1 .. Len(observed) - 2 :
        LET stretch == {observed[k].tick : k \in i + 1 .. Len(observed) - 1}
        IN /\ observed[i].time <= saturating_sub(clock.now, window)
           /\ observed[i + 1].time > saturating_sub(clock.now, window)
           /\ Min(stretch) <= x /\ x <= Max(stretch)

\* However often the ring has wrapped and whichever updates came too soon, what
\* the shield takes for the recent price is one that the pool observed
\* (oracle.rs:update, nebula_shield.rs:observe_twap).
ReferenceExact == HooksTypeOK /\ RingIsLog /\ ReferenceIsMean

\* A correction moves the price towards the reference it was decided on, past it
\* only where the smallest sweep amount is more than the gap asks for, and no
\* two corrections, by the hook or by the instruction, are closer than the
\* cooldown (nebula_shield.rs:pre_swap_arb_check, arb_sweep.rs:handler).
CorrectionSound ==
  correction # NoCorrection =>
    LET c == correction
    IN /\ c.from > c.reference => c.to <= c.from /\ (c.raised \/ c.to >= c.reference)
       /\ c.from <= c.reference => c.to >= c.from /\ (c.raised \/ c.to <= c.reference)
       /\ c.since >= c.cooldown

\* The tax on a swap is paid in by the user and leaves what belongs to the
\* position alone: unless a correction has moved the price, which moves no token,
\* the vaults cover the position and the protocol's fees, and these are the taxes
\* that the configuration has counted (nebula_shield.rs:try_apply_manipulation_tax).
TaxBacked ==
  /\ corrected_at = 0 =>
       \A i \in Tokens :
         vault[i] >= liquidity_amounts(sqrt_price, tick, FALSE)[i + 1] + protocol_fees[i]
  /\ \A c \in arb_config : c.manipulation_tax_collected = protocol_fees
=============================================================================
