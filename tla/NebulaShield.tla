---------------------------- MODULE NebulaShield ----------------------------
(***************************************************************************)
(* The stand-alone program nebula-shield: shields of pools with their      *)
(* settings, sweeps to the treasury and the guards that lock a position    *)
(* after liquidity was added; and the guards of the pool program           *)
(* (instructions/jit_protection.rs), which differ in how they start.  An   *)
(* instruction that fails changes nothing: a removal that is blocked       *)
(* returns an error, so its counters jit_blocks and total_jit_blocks never *)
(* change and are left out.                                                *)
(*                                                                         *)
(* sweeps is history: the sweeps that have succeeded.                      *)
(***************************************************************************)
EXTENDS FullMath, FiniteSetsExt, Functions

CONSTANTS
  Pools, Mints,             \* pools, and the NFT mints that name positions
  MAX_LOCK_SLOTS, DEFAULT_MIN_LOCK_SLOTS,
  ShareDenom,               \* the 10_000 of treasury_share_bps
  MinTwapWindow,            \* the shortest twap_window_seconds
  ShieldConfigs,            \* model bound: the parameters of initialize_shield
  ConfigUpdates,            \* model bound: the updates, functions of some fields
  Locks,                    \* model bound: the values of min_lock_slots
  SweepAmounts,             \* model bound: the amounts of sweeps
  VaultTokens,              \* model bound: what the token account of a pool's authority holds
  SlotSteps,                \* model bound: the slots that pass at once
  MaxShieldOps              \* model bound: instructions executed

VARIABLES
  global_shield,   \* GlobalShieldState: {} before initialize_global
  shield_config,   \* ShieldConfig of each pool, {} before initialize_shield
  jit_guard,       \* JitGuardState or JitGuard by program and mint, {} before it is made
  token_vault,     \* tokens of the account that a pool's pool_authority owns
  treasury_vault, slot, sweeps, shield_ops

shieldVars == <<global_shield, shield_config, jit_guard, token_vault, treasury_vault, slot,
                sweeps, shield_ops>>
Programs == {"amm", "nebula_shield"}

Settings == {"min_spread_bps", "treasury_share_bps", "twap_window_seconds", "min_sweep_amount",
             "max_sweep_amount", "cooldown_slots", "min_jit_lock_slots"}

ASSUME LockAssumption ==
  /\ MAX_LOCK_SLOTS \in Nat /\ DEFAULT_MIN_LOCK_SLOTS \in 0 .. MAX_LOCK_SLOTS
  /\ ShareDenom \in Nat \ {0} /\ MinTwapWindow \in Nat

ASSUME ShieldInputs ==
  /\ IsFiniteSet(Pools)
  /\ ShieldConfigs \subseteq [Settings -> Nat]
  /\ \A u \in ConfigUpdates :
       /\ DOMAIN u \subseteq Settings \cup {"enabled"}
       /\ \A f \in DOMAIN u : IF f = "enabled" THEN u[f] \in BOOLEAN ELSE u[f] \in Nat
  /\ Locks \subseteq Nat /\ SweepAmounts \subseteq Nat /\ SlotSteps \subseteq Nat
  /\ VaultTokens \in Nat

or_default(lock) == IF lock = 0 THEN DEFAULT_MIN_LOCK_SLOTS ELSE lock

initialize_global ==
  /\ global_shield = {}
  /\ global_shield' = {[pools_protected |-> 0, total_arb_sweeps |-> 0, total_treasury_routed |-> 0]}
  /\ UNCHANGED <<shield_config, jit_guard, token_vault, treasury_vault, slot, sweeps>>

initialize_shield(pool, c) ==
  /\ global_shield # {} /\ shield_config[pool] = {}
  /\ c.treasury_share_bps <= ShareDenom /\ c.min_spread_bps > 0
  /\ c.min_sweep_amount < c.max_sweep_amount
  /\ c.twap_window_seconds >= MinTwapWindow
  /\ c.min_jit_lock_slots <= MAX_LOCK_SLOTS
  /\ shield_config' = [shield_config EXCEPT ![pool] =
       {[min_spread_bps |-> c.min_spread_bps, treasury_share_bps |-> c.treasury_share_bps,
         twap_window_seconds |-> c.twap_window_seconds, min_sweep_amount |-> c.min_sweep_amount,
         max_sweep_amount |-> c.max_sweep_amount, cooldown_slots |-> c.cooldown_slots,
         min_jit_lock_slots |-> or_default(c.min_jit_lock_slots), last_sweep_slot |-> 0,
         total_profit_captured_a |-> 0, enabled |-> TRUE]}]
  /\ global_shield' = {[g EXCEPT !.pools_protected = @ + 1] : g \in global_shield}
  /\ UNCHANGED <<jit_guard, token_vault, treasury_vault, slot, sweeps>>

\* mutant: the range is checked only when both ends are given
mut_update_allowed(new, u) ==
  /\ "min_spread_bps" \in DOMAIN u => u.min_spread_bps > 0
  /\ "treasury_share_bps" \in DOMAIN u => u.treasury_share_bps <= ShareDenom
  /\ "twap_window_seconds" \in DOMAIN u => u.twap_window_seconds >= MinTwapWindow
  /\ "min_jit_lock_slots" \in DOMAIN u => u.min_jit_lock_slots <= MAX_LOCK_SLOTS
  /\ {"min_sweep_amount", "max_sweep_amount"} \subseteq DOMAIN u
       => new.min_sweep_amount < new.max_sweep_amount

\* Each field that is given is checked, and the range whatever is given.
update_allowed(new, u) ==
  /\ "min_spread_bps" \in DOMAIN u => u.min_spread_bps > 0
  /\ "treasury_share_bps" \in DOMAIN u => u.treasury_share_bps <= ShareDenom
  /\ "twap_window_seconds" \in DOMAIN u => u.twap_window_seconds >= MinTwapWindow
  /\ "min_jit_lock_slots" \in DOMAIN u => u.min_jit_lock_slots <= MAX_LOCK_SLOTS
  /\ new.min_sweep_amount < new.max_sweep_amount

update_shield_config(pool, u) ==
  \E c \in shield_config[pool] :
    LET new == [f \in DOMAIN c |-> IF f \in DOMAIN u THEN u[f] ELSE c[f]]
    IN /\ update_allowed(new, u)
       /\ shield_config' = [shield_config EXCEPT ![pool] = {new}]
       /\ UNCHANGED <<global_shield, jit_guard, token_vault, treasury_vault, slot, sweeps>>

\* mutant: the program's total counts the amount of the sweep, not what was routed
mut_global_after(g, sweep_amount, routed) ==
  [g EXCEPT !.total_arb_sweeps = @ + 1, !.total_treasury_routed = @ + sweep_amount]

global_after(g, sweep_amount, routed) ==
  [g EXCEPT !.total_arb_sweeps = @ + 1, !.total_treasury_routed = @ + routed]

execute_arb_sweep(pool, sweep_amount) ==
  \E c \in shield_config[pool] :
    LET treasury_amount == (sweep_amount * c.treasury_share_bps) \div ShareDenom
    IN /\ c.enabled
       /\ slot >= c.last_sweep_slot + c.cooldown_slots
       /\ sweep_amount \in c.min_sweep_amount .. c.max_sweep_amount
       /\ treasury_amount > 0 /\ token_vault[pool] >= treasury_amount
       /\ token_vault' = [token_vault EXCEPT ![pool] = @ - treasury_amount]
       /\ treasury_vault' = treasury_vault + treasury_amount
       /\ shield_config' = [shield_config EXCEPT ![pool] =
            {[c EXCEPT !.last_sweep_slot = slot,
                       !.total_profit_captured_a = @ + treasury_amount]}]
       /\ global_shield' = {global_after(g, sweep_amount, treasury_amount) : g \in global_shield}
       /\ sweeps' = sweeps + 1
       /\ UNCHANGED <<jit_guard, slot>>

(***************************************************************************)
(* Guards.                                                                 *)
(***************************************************************************)
new_guard(lock) == [min_lock_slots |-> lock, last_add_slot |-> slot, add_count |-> 1,
                    remove_count |-> 0]

\* mutant: a lock longer than the largest is taken as it is
mut_effective_lock(c, lock) == IF lock = 0 THEN c.min_jit_lock_slots ELSE lock

effective_lock(c, lock) ==
  IF lock = 0 THEN c.min_jit_lock_slots ELSE least(lock, MAX_LOCK_SLOTS)

\* nebula-shield: the lock of the shield, or the given one cut to the largest.
init_jit_guard(pool, mint, lock) ==
  \E c \in shield_config[pool] :
    /\ c.enabled /\ jit_guard[<<"nebula_shield", pool, mint>>] = {}
    /\ jit_guard' = [jit_guard EXCEPT ![<<"nebula_shield", pool, mint>>] =
                       {new_guard(effective_lock(c, lock))}]
    /\ UNCHANGED <<global_shield, shield_config, token_vault, treasury_vault, slot, sweeps>>

\* The pool program: a lock that is too long is refused.
amm_init_guard(pool, mint, lock) ==
  /\ lock <= MAX_LOCK_SLOTS /\ jit_guard[<<"amm", pool, mint>>] = {}
  /\ jit_guard' = [jit_guard EXCEPT ![<<"amm", pool, mint>>] = {new_guard(or_default(lock))}]
  /\ UNCHANGED <<global_shield, shield_config, token_vault, treasury_vault, slot, sweeps>>

\* mutant: the slot that unlocks is still locked
mut_can_remove(g, now) == now > g.last_add_slot + g.min_lock_slots

can_remove(g, now) == now >= g.last_add_slot + g.min_lock_slots

check_jit(program, pool, mint) ==
  \E g \in jit_guard[<<program, pool, mint>>] :
    /\ program = "nebula_shield" => global_shield # {}
    /\ can_remove(g, slot)
    /\ jit_guard' = [jit_guard EXCEPT ![<<program, pool, mint>>] =
                       {[g EXCEPT !.remove_count = @ + 1]}]
    /\ UNCHANGED <<global_shield, shield_config, token_vault, treasury_vault, slot, sweeps>>

record_jit_add(program, pool, mint) ==
  \E g \in jit_guard[<<program, pool, mint>>] :
    /\ jit_guard' = [jit_guard EXCEPT ![<<program, pool, mint>>] =
                       {[g EXCEPT !.last_add_slot = slot, !.add_count = @ + 1]}]
    /\ UNCHANGED <<global_shield, shield_config, token_vault, treasury_vault, slot, sweeps>>

advance_slot(n) ==
  /\ slot' = slot + n
  /\ UNCHANGED <<global_shield, shield_config, jit_guard, token_vault, treasury_vault, sweeps>>

ShieldStep ==
  \/ initialize_global
  \/ \E n \in SlotSteps : advance_slot(n)
  \/ \E pool \in Pools :
       \/ \E c \in ShieldConfigs : initialize_shield(pool, c)
       \/ \E u \in ConfigUpdates : update_shield_config(pool, u)
       \/ \E a \in SweepAmounts : execute_arb_sweep(pool, a)
       \/ \E mint \in Mints :
            \/ \E lock \in Locks : init_jit_guard(pool, mint, lock)
            \/ \E lock \in Locks : amm_init_guard(pool, mint, lock)
            \/ \E p \in Programs : check_jit(p, pool, mint) \/ record_jit_add(p, pool, mint)

ShieldNext == shield_ops < MaxShieldOps /\ shield_ops' = shield_ops + 1 /\ ShieldStep

ShieldInit ==
  /\ global_shield = {} /\ shield_config = [pool \in Pools |-> {}]
  /\ jit_guard = [x \in Programs \X Pools \X Mints |-> {}]
  /\ token_vault = [pool \in Pools |-> VaultTokens] /\ treasury_vault = 0
  /\ slot = 1 /\ sweeps = 0 /\ shield_ops = 0

(***************************************************************************)
(* Properties.                                                             *)
(***************************************************************************)
\* Whichever fields were updated together, a shield's settings are ones that
\* initialize_shield would accept: in particular some amount can be swept.
SettingsAccepted ==
  \A pool \in Pools : \A c \in shield_config[pool] :
    /\ c.treasury_share_bps <= ShareDenom /\ c.min_spread_bps > 0
    /\ c.min_sweep_amount < c.max_sweep_amount
    /\ c.twap_window_seconds >= MinTwapWindow /\ c.min_jit_lock_slots <= MAX_LOCK_SLOTS

profit_of(configs) ==
  IF configs = {} THEN 0 ELSE (CHOOSE c \in configs : TRUE).total_profit_captured_a

captured == [pool \in Pools |-> profit_of(shield_config[pool])]

\* The program's totals are those of its shields, what was routed has arrived, and
\* a pool's shield has captured what its authority's account has lost.
TotalsOfShields ==
  /\ \A g \in global_shield :
       /\ g.pools_protected = Cardinality({pool \in Pools : shield_config[pool] # {}})
       /\ g.total_arb_sweeps = sweeps
       /\ g.total_treasury_routed = treasury_vault
  /\ treasury_vault = SumFunctionOnSet(captured, Pools)
  /\ \A pool \in Pools : captured[pool] + token_vault[pool] = VaultTokens

\* No guard can hold a position longer than the largest lock after it was last
\* told of an addition, whoever chose the lock and wherever it came from.
LockBounded ==
  \A x \in Programs \X Pools \X Mints : \A g \in jit_guard[x] :
    slot >= g.last_add_slot + MAX_LOCK_SLOTS => can_remove(g, slot)
=============================================================================
