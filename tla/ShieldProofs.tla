---------------------------- MODULE ShieldProofs ----------------------------
(***************************************************************************)
(* Proofs about the shield: the programs nebula-shield and                 *)
(* nebula-nft-position, for any number of pools, positions and wallets and *)
(* any settings, and the hooks of a pool's swaps, for any pool and any     *)
(* sequence of swaps, sweeps and observations.                             *)
(***************************************************************************)
EXTENDS ShieldPrograms, SumTheorems

(***************************************************************************)
(* nebula-shield: the accounts, and the invariant.                         *)
(***************************************************************************)
ShieldFields == Settings \cup {"last_sweep_slot", "total_profit_captured_a", "enabled"}

\* A shield with settings that initialize_shield would accept.
Shielding(c) ==
  /\ DOMAIN c = ShieldFields
  /\ \A f \in ShieldFields \ {"enabled"} : c[f] \in Nat
  /\ c.treasury_share_bps <= ShareDenom /\ c.min_spread_bps > 0
  /\ c.min_sweep_amount < c.max_sweep_amount
  /\ c.twap_window_seconds >= MinTwapWindow /\ c.min_jit_lock_slots <= MAX_LOCK_SLOTS

Global == [pools_protected : Nat, total_arb_sweeps : Nat, total_treasury_routed : Nat]

Guard == [min_lock_slots : 0 .. MAX_LOCK_SLOTS, last_add_slot : Nat, add_count : Nat,
          remove_count : Nat]

\* An account that does not exist yet, or one with this content.
AtMostOne(S) == S = {} \/ \E x : S = {x}

protected == {pool \in Pools : shield_config[pool] # {}}

\* The accounts of the program, each made at most once, with the clock.
ShieldShape ==
  /\ AtMostOne(global_shield) /\ \A g \in global_shield : g \in Global
  /\ DOMAIN shield_config = Pools
  /\ \A pool \in Pools : AtMostOne(shield_config[pool])
                         /\ \A c \in shield_config[pool] : Shielding(c)
  /\ DOMAIN jit_guard = Programs \X Pools \X Mints
  /\ \A x \in Programs \X Pools \X Mints : jit_guard[x] \subseteq Guard
  /\ token_vault \in [Pools -> Nat] /\ treasury_vault \in Nat
  /\ slot \in Nat /\ sweeps \in Nat

\* No shield is made and nothing is swept before the program is set up.
NothingBefore ==
  global_shield = {} => protected = {} /\ sweeps = 0 /\ treasury_vault = 0

ShieldIInv == ShieldShape /\ NothingBefore /\ TotalsOfShields

\* The profit of a pool with and without a shield.
LEMMA ProfitOf ==
  /\ profit_of({}) = 0
  /\ \A c : profit_of({c}) = c.total_profit_captured_a
BY DEF profit_of

\* The captured profit of a pool's shield.
LEMMA CapturedValue ==
  ASSUME NEW pool \in Pools
  PROVE  /\ shield_config[pool] = {} => captured[pool] = 0
         /\ \A c : shield_config[pool] = {c} => captured[pool] = c.total_profit_captured_a
BY ProfitOf DEF captured

\* Profits are numbers, and there are finitely many pools.
LEMMA CapturedNat ==
  ASSUME ShieldShape
  PROVE  /\ captured \in [Pools -> Nat]
         /\ IsFiniteSet(Pools) /\ IsFiniteSet(protected)
         /\ Cardinality(protected) \in Nat
<1>1. ASSUME NEW pool \in Pools PROVE captured[pool] \in Nat
  <2>1. CASE shield_config[pool] = {}
    BY <2>1, CapturedValue DEF ShieldShape
  <2>2. ASSUME NEW c, shield_config[pool] = {c} PROVE captured[pool] \in Nat
    <3>1. captured[pool] = c.total_profit_captured_a /\ Shielding(c)
      BY <2>2, CapturedValue DEF ShieldShape
    <3> QED BY <3>1 DEF Shielding, ShieldFields, Settings
  <2> QED BY <2>1, <2>2 DEF ShieldShape, AtMostOne
<1>2. captured = [pool \in Pools |-> captured[pool]]
  BY DEF captured
<1>3. IsFiniteSet(Pools) /\ IsFiniteSet(protected)
  BY ShieldInputs, FS_Subset DEF protected
<1>4. Cardinality(protected) \in Nat
  BY <1>3, FS_CardinalityType
<1> QED BY <1>1, <1>2, <1>3, <1>4

\* Before initialize_global nothing exists.
LEMMA InitShield == ShieldInit => ShieldIInv
<1> SUFFICES ASSUME ShieldInit PROVE ShieldIInv
  OBVIOUS
<1>1. /\ global_shield = {} /\ treasury_vault = 0 /\ sweeps = 0 /\ slot = 1
      /\ shield_config = [pool \in Pools |-> {}]
      /\ token_vault = [pool \in Pools |-> VaultTokens] /\ VaultTokens \in Nat
      /\ jit_guard = [x \in Programs \X Pools \X Mints |-> {}]
  BY ShieldInputs DEF ShieldInit
<1>2. ShieldShape
  BY <1>1 DEF ShieldShape, AtMostOne
<1>3. protected = {}
  BY <1>1 DEF protected
<1>4. \A pool \in Pools : captured[pool] = 0
  BY <1>1, CapturedValue
<1>5. SumFunctionOnSet(captured, Pools) = 0
  <2> DEFINE f == captured
  <2>1. IsFiniteSet(Pools) /\ \A pool \in Pools : f[pool] = 0
    BY <1>2, <1>4, CapturedNat
  <2> HIDE DEF f
  <2>2. SumFunctionOnSet(f, Pools) = 0
    BY <2>1, SumZero
  <2> QED BY <2>2 DEF f
<1>6. TotalsOfShields
  BY <1>1, <1>4, <1>5 DEF TotalsOfShields
<1> QED BY <1>1, <1>2, <1>3, <1>6 DEF ShieldIInv, NothingBefore
\* initialize_global starts the totals at zero.
LEMMA GlobalPreserves ==
  ASSUME ShieldIInv, initialize_global
  PROVE  ShieldIInv'
<1> DEFINE g == [pools_protected |-> 0, total_arb_sweeps |-> 0, total_treasury_routed |-> 0]
<1>1. /\ global_shield = {} /\ global_shield' = {g}
      /\ UNCHANGED <<shield_config, jit_guard, token_vault, treasury_vault, slot, sweeps>>
  BY DEF initialize_global
<1>2. captured' = captured /\ protected' = protected
  BY <1>1 DEF captured, protected
<1>3. protected = {} /\ sweeps = 0 /\ treasury_vault = 0
  BY <1>1 DEF ShieldIInv, NothingBefore
<1>4. Cardinality(protected) = 0
  BY <1>3, FS_EmptySet
<1>5. ShieldShape'
  BY <1>1 DEF ShieldIInv, ShieldShape, AtMostOne, Global
<1>6. TotalsOfShields'
  BY <1>1, <1>2, <1>3, <1>4 DEF ShieldIInv, TotalsOfShields, protected
<1>7. NothingBefore'
  BY <1>1 DEF NothingBefore
<1> QED BY <1>5, <1>6, <1>7 DEF ShieldIInv

\* initialize_shield: one more pool is protected, by acceptable settings.
LEMMA ShieldPreserves ==
  ASSUME ShieldIInv, NEW pool \in Pools, NEW c \in ShieldConfigs, initialize_shield(pool, c)
  PROVE  ShieldIInv'
<1> DEFINE d == [min_spread_bps |-> c.min_spread_bps, treasury_share_bps |-> c.treasury_share_bps,
                 twap_window_seconds |-> c.twap_window_seconds,
                 min_sweep_amount |-> c.min_sweep_amount,
                 max_sweep_amount |-> c.max_sweep_amount, cooldown_slots |-> c.cooldown_slots,
                 min_jit_lock_slots |-> or_default(c.min_jit_lock_slots), last_sweep_slot |-> 0,
                 total_profit_captured_a |-> 0, enabled |-> TRUE]
<1>1. /\ global_shield # {} /\ shield_config[pool] = {}
      /\ c.treasury_share_bps <= ShareDenom /\ c.min_spread_bps > 0
      /\ c.min_sweep_amount < c.max_sweep_amount
      /\ c.twap_window_seconds >= MinTwapWindow
      /\ c.min_jit_lock_slots <= MAX_LOCK_SLOTS
      /\ shield_config' = [shield_config EXCEPT ![pool] = {d}]
      /\ global_shield' = {[g EXCEPT !.pools_protected = @ + 1] : g \in global_shield}
      /\ UNCHANGED <<jit_guard, token_vault, treasury_vault, slot, sweeps>>
  BY DEF initialize_shield
<1>2. \A f \in Settings : c[f] \in Nat
  BY ShieldInputs
<1>3. Shielding(d) /\ d.total_profit_captured_a = 0
  <2>1. or_default(c.min_jit_lock_slots) \in 0 .. MAX_LOCK_SLOTS
    BY <1>1, <1>2, LockAssumption DEF or_default, Settings
  <2> QED BY <1>1, <1>2, <2>1, LockAssumption DEF Shielding, ShieldFields, Settings
<1> HIDE DEF d
<1>4. ShieldShape /\ TotalsOfShields
  BY DEF ShieldIInv
<1>5. /\ DOMAIN shield_config' = Pools
      /\ \A p \in Pools : shield_config'[p] = IF p = pool THEN {d} ELSE shield_config[p]
  BY <1>1, <1>4 DEF ShieldShape
<1>6. PICK g \in Global : global_shield = {g}
  BY <1>1, <1>4 DEF ShieldShape, AtMostOne
<1>7. global_shield' = {[g EXCEPT !.pools_protected = @ + 1]}
  BY <1>1, <1>6
<1>8. ShieldShape'
  <2>1. [g EXCEPT !.pools_protected = @ + 1] \in Global
    BY DEF Global
  <2>2. \A p \in Pools : AtMostOne(shield_config'[p]) /\ \A x \in shield_config'[p] : Shielding(x)
    BY <1>3, <1>4, <1>5 DEF ShieldShape, AtMostOne
  <2>3. AtMostOne(global_shield') /\ \A x \in global_shield' : x \in Global
    BY <1>7, <2>1 DEF AtMostOne
  <2> QED BY <1>1, <1>4, <1>5, <2>2, <2>3 DEF ShieldShape
<1>9. \A p \in Pools : captured'[p] = captured[p]
  <2> SUFFICES ASSUME NEW p \in Pools PROVE captured'[p] = captured[p]
    OBVIOUS
  <2>1. CASE p = pool
    <3>1. captured[p] = 0
      BY <2>1, <1>1, <1>4, CapturedValue DEF ShieldShape
    <3>2. captured'[p] = 0
      BY <2>1, <1>3, <1>5, ProfitOf DEF captured
    <3> QED BY <3>1, <3>2
  <2>2. CASE p # pool
    BY <2>2, <1>5 DEF captured
  <2> QED BY <2>1, <2>2
<1>10. SumFunctionOnSet(captured', Pools) = SumFunctionOnSet(captured, Pools)
  <2> DEFINE f == captured
             e == captured'
  <2>1. \A p \in Pools : f[p] = e[p]
    BY <1>9
  <2>2. IsFiniteSet(Pools)
    BY ShieldInputs
  <2> HIDE DEF f, e
  <2>3. SumFunctionOnSet(f, Pools) = SumFunctionOnSet(e, Pools)
    BY <2>1, <2>2, SumEqual
  <2> QED BY <2>3 DEF f, e
<1>11. Cardinality(protected') = Cardinality(protected) + 1
  <2>1. protected' = protected \cup {pool} /\ pool \notin protected
    BY <1>1, <1>5 DEF protected
  <2>2. IsFiniteSet(protected)
    BY <1>4, CapturedNat
  <2> QED BY <2>1, <2>2, FS_AddElement
<1>12. TotalsOfShields'
  <2>1. \A x \in global_shield' : /\ x.pools_protected = Cardinality(protected')
                                   /\ x.total_arb_sweeps = sweeps'
                                   /\ x.total_treasury_routed = treasury_vault'
    <3>1. /\ g.pools_protected = Cardinality(protected)
          /\ g.total_arb_sweeps = sweeps
          /\ g.total_treasury_routed = treasury_vault
      BY <1>4, <1>6 DEF TotalsOfShields, protected
    <3> DEFINE h == [g EXCEPT !.pools_protected = @ + 1]
    <3>2. /\ h.pools_protected = g.pools_protected + 1
          /\ h.total_arb_sweeps = g.total_arb_sweeps
          /\ h.total_treasury_routed = g.total_treasury_routed
      BY DEF Global
    <3> HIDE DEF h
    <3> QED BY <3>1, <3>2, <1>1, <1>7, <1>11 DEF h
  <2>2. treasury_vault' = SumFunctionOnSet(captured', Pools)
    BY <1>1, <1>4, <1>10 DEF TotalsOfShields
  <2>3. \A p \in Pools : captured'[p] + token_vault'[p] = VaultTokens
    BY <1>1, <1>4, <1>9 DEF TotalsOfShields
  <2> QED BY <2>1, <2>2, <2>3 DEF TotalsOfShields, protected
<1>13. NothingBefore'
  BY <1>7 DEF NothingBefore
<1> QED BY <1>8, <1>12, <1>13 DEF ShieldIInv

\* update_shield_config: whichever fields are given, the settings stay acceptable.
LEMMA UpdateAccepted ==
  ASSUME NEW c, Shielding(c), NEW u \in ConfigUpdates,
         NEW new, new = [f \in DOMAIN c |-> IF f \in DOMAIN u THEN u[f] ELSE c[f]],
         update_allowed(new, u)
  PROVE  Shielding(new) /\ new.total_profit_captured_a = c.total_profit_captured_a
<1>1. /\ DOMAIN c = ShieldFields /\ DOMAIN new = ShieldFields
      /\ \A f \in ShieldFields : new[f] = IF f \in DOMAIN u THEN u[f] ELSE c[f]
  BY DEF Shielding
<1>2. /\ DOMAIN u \subseteq Settings \cup {"enabled"}
      /\ \A f \in DOMAIN u : IF f = "enabled" THEN u[f] \in BOOLEAN ELSE u[f] \in Nat
  BY ShieldInputs
<1>3. ASSUME NEW f \in ShieldFields \ {"enabled"} PROVE new[f] \in Nat
  BY <1>1, <1>2 DEF Shielding
<1>4. /\ new.min_spread_bps > 0 /\ new.treasury_share_bps <= ShareDenom
      /\ new.twap_window_seconds >= MinTwapWindow
      /\ new.min_jit_lock_slots <= MAX_LOCK_SLOTS
  BY <1>1 DEF update_allowed, Shielding, ShieldFields, Settings
<1>5. new.min_sweep_amount < new.max_sweep_amount
  BY DEF update_allowed
<1>6. new.total_profit_captured_a = c.total_profit_captured_a
  BY <1>1, <1>2 DEF ShieldFields, Settings
<1> QED BY <1>1, <1>3, <1>4, <1>5, <1>6 DEF Shielding

\* update_shield_config touches nothing that is added up.
LEMMA UpdatePreserves ==
  ASSUME ShieldIInv, NEW pool \in Pools, NEW u \in ConfigUpdates, update_shield_config(pool, u)
  PROVE  ShieldIInv'
<1>1. PICK c \in shield_config[pool] :
        LET new == [f \in DOMAIN c |-> IF f \in DOMAIN u THEN u[f] ELSE c[f]]
        IN /\ update_allowed(new, u)
           /\ shield_config' = [shield_config EXCEPT ![pool] = {new}]
           /\ UNCHANGED <<global_shield, jit_guard, token_vault, treasury_vault, slot, sweeps>>
  BY DEF update_shield_config
<1> DEFINE new == [f \in DOMAIN c |-> IF f \in DOMAIN u THEN u[f] ELSE c[f]]
<1>2. /\ update_allowed(new, u) /\ shield_config' = [shield_config EXCEPT ![pool] = {new}]
      /\ UNCHANGED <<global_shield, jit_guard, token_vault, treasury_vault, slot, sweeps>>
  BY <1>1
<1>3. ShieldShape /\ TotalsOfShields /\ NothingBefore
  BY DEF ShieldIInv
<1>4. shield_config[pool] = {c} /\ Shielding(c)
  BY <1>3 DEF ShieldShape, AtMostOne
<1>5. Shielding(new) /\ new.total_profit_captured_a = c.total_profit_captured_a
  BY <1>2, <1>4, UpdateAccepted
<1> HIDE DEF new
<1>6. /\ DOMAIN shield_config' = Pools
      /\ \A p \in Pools : shield_config'[p] = IF p = pool THEN {new} ELSE shield_config[p]
  BY <1>2, <1>3 DEF ShieldShape
<1>7. \A p \in Pools : AtMostOne(shield_config'[p]) /\ \A x \in shield_config'[p] : Shielding(x)
  BY <1>3, <1>5, <1>6 DEF ShieldShape, AtMostOne
<1>8. ShieldShape'
  BY <1>2, <1>3, <1>6, <1>7 DEF ShieldShape
<1>9. protected' = protected
  BY <1>4, <1>6 DEF protected
<1>10. captured' = captured
  <2>1. \A p \in Pools : captured'[p] = captured[p]
    BY <1>4, <1>5, <1>6, ProfitOf DEF captured
  <2>2. captured = [p \in Pools |-> captured[p]] /\ captured' = [p \in Pools |-> captured'[p]]
    BY DEF captured
  <2> QED BY <2>1, <2>2
<1>11. TotalsOfShields'
  BY <1>2, <1>3, <1>9, <1>10 DEF TotalsOfShields, protected
<1>12. NothingBefore'
  BY <1>2, <1>3, <1>9 DEF NothingBefore
<1> QED BY <1>8, <1>11, <1>12 DEF ShieldIInv
\* execute_arb_sweep: what leaves the account of the pool's authority reaches the
\* treasury, the pool's profit and the program's total.
LEMMA SweepPreserves ==
  ASSUME ShieldIInv, NEW pool \in Pools, NEW amount \in SweepAmounts,
         execute_arb_sweep(pool, amount)
  PROVE  ShieldIInv'
<1>1. PICK c \in shield_config[pool] :
        LET routed == (amount * c.treasury_share_bps) \div ShareDenom
        IN /\ routed > 0 /\ token_vault[pool] >= routed
           /\ token_vault' = [token_vault EXCEPT ![pool] = @ - routed]
           /\ treasury_vault' = treasury_vault + routed
           /\ shield_config' = [shield_config EXCEPT ![pool] =
                {[c EXCEPT !.last_sweep_slot = slot, !.total_profit_captured_a = @ + routed]}]
           /\ global_shield' = {global_after(g, amount, routed) : g \in global_shield}
           /\ sweeps' = sweeps + 1
           /\ UNCHANGED <<jit_guard, slot>>
  BY DEF execute_arb_sweep
<1> DEFINE routed == (amount * c.treasury_share_bps) \div ShareDenom
           d == [c EXCEPT !.last_sweep_slot = slot, !.total_profit_captured_a = @ + routed]
<1>2. ShieldShape /\ TotalsOfShields /\ NothingBefore
  BY DEF ShieldIInv
<1>3. shield_config[pool] = {c} /\ Shielding(c)
  BY <1>2 DEF ShieldShape, AtMostOne
<1>4. routed \in Nat
  <2> DEFINE a == amount * c.treasury_share_bps
  <2>1. amount \in Nat /\ c.treasury_share_bps \in Nat /\ ShareDenom \in Nat \ {0}
    BY <1>3, ShieldInputs, LockAssumption DEF Shielding, ShieldFields, Settings
  <2>2. a \in Nat
    BY <2>1
  <2>3. routed = a \div ShareDenom
    OBVIOUS
  <2> HIDE DEF a, routed
  <2> QED BY <2>1, <2>2, <2>3
<1>5. /\ token_vault[pool] >= routed
      /\ token_vault' = [token_vault EXCEPT ![pool] = @ - routed]
      /\ treasury_vault' = treasury_vault + routed
      /\ shield_config' = [shield_config EXCEPT ![pool] = {d}]
      /\ global_shield' = {global_after(g, amount, routed) : g \in global_shield}
      /\ sweeps' = sweeps + 1 /\ UNCHANGED <<jit_guard, slot>>
  BY <1>1
<1> HIDE DEF routed
<1>6. /\ Shielding(d)
      /\ d.total_profit_captured_a = c.total_profit_captured_a + routed
      /\ c.total_profit_captured_a \in Nat
  <2>1. slot \in Nat
    BY <1>2 DEF ShieldShape
  <2>2. /\ DOMAIN c = ShieldFields /\ DOMAIN d = ShieldFields
        /\ d.last_sweep_slot = slot
        /\ d.total_profit_captured_a = c.total_profit_captured_a + routed
        /\ \A f \in ShieldFields \ {"last_sweep_slot", "total_profit_captured_a"} : d[f] = c[f]
    BY <1>3 DEF Shielding, ShieldFields, Settings
  <2>3. c.total_profit_captured_a \in Nat
    BY <1>3 DEF Shielding, ShieldFields, Settings
  <2> HIDE DEF d
  <2>4. ASSUME NEW f \in ShieldFields \ {"enabled"} PROVE d[f] \in Nat
    <3>1. CASE f = "last_sweep_slot"
      BY <3>1, <2>1, <2>2
    <3>2. CASE f = "total_profit_captured_a"
      BY <3>2, <2>2, <2>3, <1>4
    <3>3. CASE f \notin {"last_sweep_slot", "total_profit_captured_a"}
      BY <3>3, <2>2, <1>3 DEF Shielding
    <3> QED BY <3>1, <3>2, <3>3
  <2>5. /\ d.treasury_share_bps = c.treasury_share_bps /\ d.min_spread_bps = c.min_spread_bps
        /\ d.min_sweep_amount = c.min_sweep_amount /\ d.max_sweep_amount = c.max_sweep_amount
        /\ d.twap_window_seconds = c.twap_window_seconds
        /\ d.min_jit_lock_slots = c.min_jit_lock_slots
    BY <2>2 DEF ShieldFields, Settings
  <2> QED BY <2>2, <2>3, <2>4, <2>5, <1>3 DEF Shielding
<1> HIDE DEF d
<1>7. /\ DOMAIN shield_config' = Pools
      /\ \A p \in Pools : shield_config'[p] = IF p = pool THEN {d} ELSE shield_config[p]
  BY <1>2, <1>5 DEF ShieldShape
<1>8. protected' = protected /\ protected # {}
  BY <1>3, <1>7 DEF protected
<1>9. PICK g \in Global : global_shield = {g}
  BY <1>2, <1>8 DEF ShieldShape, NothingBefore, AtMostOne
<1> DEFINE h == global_after(g, amount, routed)
<1>10. /\ global_shield' = {h} /\ h \in Global
       /\ h.pools_protected = g.pools_protected
       /\ h.total_arb_sweeps = g.total_arb_sweeps + 1
       /\ h.total_treasury_routed = g.total_treasury_routed + routed
  <2> DEFINE n == g.total_arb_sweeps + 1
             r == g.total_treasury_routed + routed
  <2>1. h = [g EXCEPT !.total_arb_sweeps = n, !.total_treasury_routed = r]
    BY DEF global_after, Global
  <2>2. n \in Nat /\ r \in Nat
    BY <1>4 DEF Global
  <2>3. global_shield' = {h}
    BY <1>5, <1>9
  <2>4. h.total_arb_sweeps = n /\ h.total_treasury_routed = r
    BY <2>1 DEF Global
  <2> HIDE DEF n, r, h
  <2>5. h \in Global /\ h.pools_protected = g.pools_protected
    BY <2>1, <2>2 DEF Global
  <2> QED BY <2>3, <2>4, <2>5 DEF n, r
<1> HIDE DEF h
<1>11. /\ token_vault \in [Pools -> Nat] /\ treasury_vault \in Nat /\ sweeps \in Nat
       /\ token_vault' \in [Pools -> Nat] /\ treasury_vault' \in Nat /\ sweeps' \in Nat
       /\ \A p \in Pools : token_vault'[p] = IF p = pool THEN token_vault[p] - routed
                                               ELSE token_vault[p]
  <2>1. token_vault \in [Pools -> Nat] /\ treasury_vault \in Nat /\ sweeps \in Nat
    BY <1>2 DEF ShieldShape
  <2>2. treasury_vault' \in Nat /\ sweeps' \in Nat
    BY <2>1, <1>4, <1>5
  <2>3. token_vault[pool] - routed \in Nat
    BY <2>1, <1>4, <1>5
  <2> QED BY <2>1, <2>2, <2>3, <1>5
<1>12. ShieldShape'
  <2>1. \A p \in Pools : AtMostOne(shield_config'[p]) /\ \A x \in shield_config'[p] : Shielding(x)
    BY <1>2, <1>6, <1>7 DEF ShieldShape, AtMostOne
  <2>2. AtMostOne(global_shield') /\ \A x \in global_shield' : x \in Global
    BY <1>10 DEF AtMostOne
  <2> QED BY <1>2, <1>5, <1>7, <1>11, <2>1, <2>2 DEF ShieldShape
<1>13. /\ captured[pool] = c.total_profit_captured_a
       /\ captured'[pool] = captured[pool] + routed
       /\ \A p \in Pools : p # pool => captured'[p] = captured[p]
  BY <1>3, <1>6, <1>7, ProfitOf DEF captured
<1>14. SumFunctionOnSet(captured', Pools) = SumFunctionOnSet(captured, Pools) + routed
  <2> DEFINE f == captured
             e == captured'
  <2>1. f \in [Pools -> Nat] /\ IsFiniteSet(Pools)
    BY <1>2, CapturedNat
  <2>2. e[pool] = f[pool] + routed /\ \A p \in Pools : p # pool => e[p] = f[p]
    BY <1>13
  <2> HIDE DEF f, e
  <2>3. \A p \in Pools : f[p] \in Int /\ e[p] \in Int
    BY <2>1, <2>2, <1>4
  <2>4. \A p \in Pools : p # pool => f[p] = e[p]
    BY <2>2
  <2>5. SumFunctionOnSet(e, Pools) = (SumFunctionOnSet(f, Pools) - f[pool]) + e[pool]
    BY <2>1, <2>3, <2>4, SumUpdate
  <2>6. SumFunctionOnSet(f, Pools) \in Int
    BY <2>1, <2>3, SumInt
  <2>7. SumFunctionOnSet(e, Pools) = SumFunctionOnSet(f, Pools) + routed
    BY <2>2, <2>3, <2>5, <2>6, <1>4
  <2> QED BY <2>7 DEF f, e
<1>15. TotalsOfShields'
  <2>1. /\ g.pools_protected = Cardinality(protected)
        /\ g.total_arb_sweeps = sweeps
        /\ g.total_treasury_routed = treasury_vault
    BY <1>2, <1>9 DEF TotalsOfShields, protected
  <2>2. \A x \in global_shield' : /\ x.pools_protected = Cardinality(protected')
                                   /\ x.total_arb_sweeps = sweeps'
                                   /\ x.total_treasury_routed = treasury_vault'
    BY <2>1, <1>5, <1>8, <1>10
  <2>3. treasury_vault' = SumFunctionOnSet(captured', Pools)
    BY <1>2, <1>5, <1>14 DEF TotalsOfShields
  <2>4. ASSUME NEW p \in Pools PROVE captured'[p] + token_vault'[p] = VaultTokens
    <3>1. captured[p] + token_vault[p] = VaultTokens
      BY <1>2 DEF TotalsOfShields
    <3>2. captured[p] \in Nat /\ token_vault[p] \in Nat
      BY <1>2, <1>11, CapturedNat
    <3>3. CASE p = pool
      BY <3>1, <3>2, <3>3, <1>4, <1>11, <1>13
    <3>4. CASE p # pool
      BY <3>1, <3>4, <1>11, <1>13
    <3> QED BY <3>3, <3>4
  <2> QED BY <2>2, <2>3, <2>4 DEF TotalsOfShields, protected
<1>16. NothingBefore'
  BY <1>10 DEF NothingBefore
<1> QED BY <1>12, <1>15, <1>16 DEF ShieldIInv

\* A step that changes at most one guard, and not for a longer lock.
LEMMA GuardStep ==
  ASSUME ShieldIInv,
         UNCHANGED <<global_shield, shield_config, token_vault, treasury_vault, slot, sweeps>>,
         NEW x \in Programs \X Pools \X Mints, NEW g \in Guard,
         jit_guard' = [jit_guard EXCEPT ![x] = {g}]
  PROVE  ShieldIInv'
<1>1. captured' = captured /\ protected' = protected
  BY DEF captured, protected
<1>2. ShieldShape'
  <2>1. DOMAIN jit_guard' = Programs \X Pools \X Mints
    BY DEF ShieldIInv, ShieldShape
  <2>2. \A y \in Programs \X Pools \X Mints : jit_guard'[y] \subseteq Guard
    BY DEF ShieldIInv, ShieldShape
  <2> QED BY <2>1, <2>2 DEF ShieldIInv, ShieldShape
<1>3. TotalsOfShields' /\ NothingBefore'
  BY <1>1 DEF ShieldIInv, TotalsOfShields, NothingBefore
<1> QED BY <1>2, <1>3 DEF ShieldIInv

\* A new guard's lock is within the largest, whoever chooses it.
LEMMA NewGuards ==
  ASSUME ShieldIInv, NEW pool \in Pools, NEW mint \in Mints, NEW lock \in Locks,
         init_jit_guard(pool, mint, lock) \/ amm_init_guard(pool, mint, lock)
  PROVE  ShieldIInv'
<1>1. lock \in Nat /\ slot \in Nat
  BY ShieldInputs DEF ShieldIInv, ShieldShape
<1>2. \A n \in 0 .. MAX_LOCK_SLOTS : new_guard(n) \in Guard
  BY <1>1 DEF new_guard, Guard
<1>3. CASE init_jit_guard(pool, mint, lock)
  <2> DEFINE x == <<"nebula_shield", pool, mint>>
  <2>1. PICK c \in shield_config[pool] :
          /\ jit_guard' = [jit_guard EXCEPT ![x] = {new_guard(effective_lock(c, lock))}]
          /\ UNCHANGED <<global_shield, shield_config, token_vault, treasury_vault, slot, sweeps>>
    BY <1>3 DEF init_jit_guard
  <2>2. effective_lock(c, lock) \in 0 .. MAX_LOCK_SLOTS
    <3>1. c.min_jit_lock_slots \in 0 .. MAX_LOCK_SLOTS
      BY DEF ShieldIInv, ShieldShape, Shielding, ShieldFields, Settings
    <3> QED BY <3>1, <1>1, LockAssumption DEF effective_lock, least
  <2>3. x \in Programs \X Pools \X Mints
    BY DEF Programs
  <2> HIDE DEF x
  <2> QED BY <2>1, <2>2, <2>3, <1>2, GuardStep
<1>4. CASE amm_init_guard(pool, mint, lock)
  <2> DEFINE x == <<"amm", pool, mint>>
  <2>1. /\ jit_guard' = [jit_guard EXCEPT ![x] = {new_guard(or_default(lock))}]
        /\ lock <= MAX_LOCK_SLOTS
        /\ UNCHANGED <<global_shield, shield_config, token_vault, treasury_vault, slot, sweeps>>
    BY <1>4 DEF amm_init_guard
  <2>2. or_default(lock) \in 0 .. MAX_LOCK_SLOTS
    BY <2>1, <1>1, LockAssumption DEF or_default
  <2>3. x \in Programs \X Pools \X Mints
    BY DEF Programs
  <2> HIDE DEF x
  <2> QED BY <2>1, <2>2, <2>3, <1>2, GuardStep
<1> QED BY <1>3, <1>4

\* check_jit and record_jit_add leave the lock of a guard as it is.
LEMMA UsedGuards ==
  ASSUME ShieldIInv, NEW program \in Programs, NEW pool \in Pools, NEW mint \in Mints,
         check_jit(program, pool, mint) \/ record_jit_add(program, pool, mint)
  PROVE  ShieldIInv'
<1> DEFINE x == <<program, pool, mint>>
<1>1. x \in Programs \X Pools \X Mints /\ slot \in Nat
  BY DEF ShieldIInv, ShieldShape
<1>2. PICK g \in jit_guard[x] :
        /\ UNCHANGED <<global_shield, shield_config, token_vault, treasury_vault, slot, sweeps>>
        /\ \/ jit_guard' = [jit_guard EXCEPT ![x] = {[g EXCEPT !.remove_count = @ + 1]}]
           \/ jit_guard' = [jit_guard EXCEPT ![x] =
                              {[g EXCEPT !.last_add_slot = slot, !.add_count = @ + 1]}]
  BY DEF check_jit, record_jit_add
<1> HIDE DEF x
<1>3. g \in Guard
  BY <1>1 DEF ShieldIInv, ShieldShape
<1>4. /\ [g EXCEPT !.remove_count = @ + 1] \in Guard
      /\ [g EXCEPT !.last_add_slot = slot, !.add_count = @ + 1] \in Guard
  <2> DEFINE n == g.remove_count + 1
             a == g.add_count + 1
  <2>1. n \in Nat /\ a \in Nat
    BY <1>3 DEF Guard
  <2>2. /\ [g EXCEPT !.remove_count = @ + 1] = [g EXCEPT !.remove_count = n]
        /\ [g EXCEPT !.last_add_slot = slot, !.add_count = @ + 1]
             = [g EXCEPT !.last_add_slot = slot, !.add_count = a]
    BY <1>3 DEF Guard
  <2> HIDE DEF n, a
  <2>3. /\ [g EXCEPT !.remove_count = n] \in Guard
        /\ [g EXCEPT !.last_add_slot = slot, !.add_count = a] \in Guard
    BY <1>1, <1>3, <2>1 DEF Guard
  <2> QED BY <2>2, <2>3
<1> QED BY <1>1, <1>2, <1>4, GuardStep

\* Every instruction of the program preserves the invariant.
LEMMA NextShield ==
  ASSUME ShieldIInv, [ShieldNext]_shieldVars
  PROVE  ShieldIInv'
<1>1. CASE UNCHANGED shieldVars
  <2>1. captured' = captured /\ protected' = protected
    BY <1>1 DEF captured, protected, shieldVars
  <2> QED BY <1>1, <2>1 DEF ShieldIInv, ShieldShape, NothingBefore, TotalsOfShields, shieldVars
<1>2. ASSUME NEW n \in SlotSteps, advance_slot(n) PROVE ShieldIInv'
  <2>1. /\ slot' = slot + n /\ n \in Nat
        /\ UNCHANGED <<global_shield, shield_config, jit_guard, token_vault, treasury_vault, sweeps>>
    BY <1>2, ShieldInputs DEF advance_slot
  <2>2. captured' = captured /\ protected' = protected
    BY <2>1 DEF captured, protected
  <2>3. slot' \in Nat
    BY <2>1 DEF ShieldIInv, ShieldShape
  <2> QED BY <2>1, <2>2, <2>3 DEF ShieldIInv, ShieldShape, NothingBefore, TotalsOfShields
<1>3. CASE ShieldStep
  BY <1>2, <1>3, GlobalPreserves, ShieldPreserves, UpdatePreserves, SweepPreserves, NewGuards,
     UsedGuards DEF ShieldStep
<1> QED BY <1>1, <1>3 DEF ShieldNext

(***************************************************************************)
(* nebula-nft-position: what is true of each mint, and of the fees.        *)
(***************************************************************************)
Record == [owner : Wallets, transferable : BOOLEAN]

MintSound(m) ==
  /\ nft_record[m] \subseteq Record
  /\ nft_tokens[m] \in [Wallets -> Nat] /\ minted[m] \in Nat /\ burnt[m] \in Nat
  /\ minter[m] = {} => nft_record[m] = {} /\ minted[m] = 0
  /\ \A r \in nft_record[m] : /\ r.transferable => m \in freed
                              /\ m \notin freed => minter[m] = {r.owner}
  /\ minted[m] - SumFunctionOnSet(nft_tokens[m], Wallets)
       = burnt[m] + (IF minter[m] # {} /\ nft_record[m] = {} THEN 1 ELSE 0)

made == {m \in NftMints : minter[m] # {}}

NftShape ==
  /\ DOMAIN nft_record = NftMints /\ DOMAIN nft_tokens = NftMints
  /\ DOMAIN minter = NftMints /\ DOMAIN minted = NftMints /\ DOMAIN burnt = NftMints

NftIInv ==
  /\ NftShape
  /\ \A m \in NftMints : MintSound(m)
  /\ treasury_fees = Cardinality(made)

\* Before any mint there are no records, no tokens and no fees.
LEMMA InitNft == NftInit => NftIInv
<1> SUFFICES ASSUME NftInit PROVE NftIInv
  OBVIOUS
<1>1. NftShape
  BY DEF NftInit, NftShape
<1>2. ASSUME NEW m \in NftMints PROVE MintSound(m)
  <2> DEFINE t == nft_tokens[m]
  <2>1. /\ nft_record[m] = {} /\ minter[m] = {} /\ minted[m] = 0 /\ burnt[m] = 0
        /\ t \in [Wallets -> Nat] /\ \A w \in Wallets : t[w] = 0
    BY DEF NftInit
  <2> HIDE DEF t
  <2>2. SumFunctionOnSet(t, Wallets) = 0
    BY <2>1, NftAssumption, SumZero
  <2> QED BY <2>1, <2>2 DEF MintSound, t
<1>3. made = {} /\ treasury_fees = 0
  BY DEF NftInit, made
<1>4. Cardinality(made) = 0
  BY <1>3, FS_EmptySet
<1> QED BY <1>1, <1>2, <1>3, <1>4 DEF NftIInv

\* An instruction on one mint leaves the others sound.
LEMMA OtherMints ==
  ASSUME NftIInv, NftShape', NEW m \in NftMints, MintSound(m)',
         \A k \in NftMints \ {m} :
           /\ nft_record'[k] = nft_record[k] /\ nft_tokens'[k] = nft_tokens[k]
           /\ minter'[k] = minter[k] /\ minted'[k] = minted[k] /\ burnt'[k] = burnt[k]
           /\ k \in freed <=> k \in freed',
         treasury_fees' = Cardinality(made')
  PROVE  NftIInv'
<1>1. ASSUME NEW k \in NftMints \ {m} PROVE MintSound(k)'
  <2>1. MintSound(k)
    BY DEF NftIInv
  <2> QED BY <2>1 DEF MintSound
<1> QED BY <1>1 DEF NftIInv

\* The sum of a mint's tokens after one wallet's balance changes.
LEMMA BalanceChange ==
  ASSUME NEW t \in [Wallets -> Nat], NEW e \in [Wallets -> Nat], NEW w \in Wallets,
         \A v \in Wallets : v # w => e[v] = t[v]
  PROVE  /\ SumFunctionOnSet(t, Wallets) \in Nat
         /\ SumFunctionOnSet(e, Wallets) = (SumFunctionOnSet(t, Wallets) - t[w]) + e[w]
         /\ t[w] <= SumFunctionOnSet(t, Wallets)
<1>1. /\ \A v \in Wallets : t[v] \in Int /\ e[v] \in Int
      /\ \A v \in Wallets : t[v] \in Nat
  OBVIOUS
<1>2. SumFunctionOnSet(e, Wallets) = (SumFunctionOnSet(t, Wallets) - t[w]) + e[w]
  BY <1>1, NftAssumption, SumUpdate
<1>3. /\ SumFunctionOnSet(t, Wallets) \in Nat
      /\ \A v \in Wallets : t[v] <= SumFunctionOnSet(t, Wallets)
  BY <1>1, NftAssumption, SumNat
<1> QED BY <1>2, <1>3

\* A transfer between two wallets keeps the sum of a mint's tokens.
LEMMA TransferKeepsSum ==
  ASSUME NEW t \in [Wallets -> Nat], NEW w \in Wallets, NEW v \in Wallets \ {w}, t[w] > 0,
         NEW e \in [Wallets -> Nat], e[w] = t[w] - 1, e[v] = t[v] + 1,
         \A u \in Wallets \ {w, v} : e[u] = t[u]
  PROVE  SumFunctionOnSet(e, Wallets) = SumFunctionOnSet(t, Wallets)
<1> DEFINE d == [t EXCEPT ![w] = @ - 1]
<1>1. /\ d \in [Wallets -> Nat] /\ d[w] = t[w] - 1 /\ d[v] = t[v]
      /\ \A u \in Wallets : u # w => d[u] = t[u]
  OBVIOUS
<1>2. \A u \in Wallets : u # v => e[u] = d[u]
  BY <1>1
<1>3. t[w] \in Nat /\ t[v] \in Nat
  OBVIOUS
<1> HIDE DEF d
<1>4. /\ SumFunctionOnSet(t, Wallets) \in Nat
      /\ SumFunctionOnSet(d, Wallets) = (SumFunctionOnSet(t, Wallets) - t[w]) + d[w]
  BY <1>1, BalanceChange
<1>5. SumFunctionOnSet(e, Wallets) = (SumFunctionOnSet(d, Wallets) - d[v]) + e[v]
  BY <1>1, <1>2, BalanceChange
<1> QED BY <1>1, <1>2, <1>3, <1>4, <1>5

\* mint_position_nft: the first token and the record of a mint, for a fee.
LEMMA MintPreserves ==
  ASSUME NftIInv, NEW m \in NftMints, NEW w \in Wallets, mint_position_nft(w, m)
  PROVE  NftIInv'
<1> DEFINE t == nft_tokens[m]
           e == nft_tokens'[m]
<1>1. MintSound(m) /\ NftShape
  BY DEF NftIInv
<1>2. /\ minter[m] = {} /\ minted[m] = 0 /\ nft_record[m] = {}
      /\ t \in [Wallets -> Nat] /\ SumFunctionOnSet(t, Wallets) = 0 /\ burnt[m] = 0
  <2>1. minter[m] = {} /\ nft_record[m] = {} /\ minted[m] = 0 /\ t \in [Wallets -> Nat]
        /\ burnt[m] \in Nat /\ minted[m] - SumFunctionOnSet(t, Wallets) = burnt[m] + 0
    BY <1>1 DEF mint_position_nft, MintSound
  <2> HIDE DEF t
  <2>2. SumFunctionOnSet(t, Wallets) \in Nat
    BY <2>1, BalanceChange
  <2> QED BY <2>1, <2>2
<1>3. /\ e = [t EXCEPT ![w] = 1]
      /\ nft_record'[m] = {[owner |-> w, transferable |-> FALSE]}
      /\ minter'[m] = {w} /\ minted'[m] = 1 /\ burnt' = burnt /\ freed' = freed
  BY <1>1 DEF mint_position_nft, NftShape
<1>4. /\ NftShape'
      /\ \A k \in NftMints \ {m} :
           /\ nft_record'[k] = nft_record[k] /\ nft_tokens'[k] = nft_tokens[k]
           /\ minter'[k] = minter[k] /\ minted'[k] = minted[k] /\ burnt'[k] = burnt[k]
  BY <1>1 DEF mint_position_nft, NftShape
<1>5. e \in [Wallets -> Nat] /\ e[w] = 1 /\ \A v \in Wallets : v # w => e[v] = t[v]
  BY <1>2, <1>3
<1>6. SumFunctionOnSet(e, Wallets) = 1
  <2>1. t[w] \in Nat
    BY <1>2
  <2> HIDE DEF t, e
  <2> QED BY <1>2, <1>5, <2>1, BalanceChange
<1>7. MintSound(m)'
  <2>1. minted'[m] - SumFunctionOnSet(e, Wallets) = 0 /\ minted'[m] \in Nat
    BY <1>3, <1>6
  <2>2. nft_record'[m] \subseteq Record /\ \A r \in nft_record'[m] : r.owner = w /\ ~r.transferable
    BY <1>3 DEF Record
  <2> QED BY <1>2, <1>3, <1>5, <2>1, <2>2 DEF MintSound
<1>8. treasury_fees' = Cardinality(made')
  <2>1. made' = made \cup {m} /\ m \notin made
    BY <1>2, <1>3, <1>4 DEF made
  <2>2. IsFiniteSet(made)
    BY NftAssumption, FS_Subset DEF made
  <2>3. Cardinality(made') = Cardinality(made) + 1
    BY <2>1, <2>2, FS_AddElement
  <2> QED BY <2>3 DEF NftIInv, mint_position_nft
<1> QED BY <1>3, <1>4, <1>7, <1>8, OtherMints

\* burn_position_nft, token_mint_to, token_burn, transfer_position and
\* token_transfer: what becomes of the tokens of one mint is accounted for.
LEMMA TokensPreserve ==
  ASSUME NftIInv, NEW m \in NftMints, NEW w \in Wallets,
         \/ burn_position_nft(w, m) \/ token_mint_to(w, m) \/ token_burn(w, m)
         \/ \E v \in Wallets \ {w} : transfer_position(w, m, v) \/ token_transfer(w, m, v)
  PROVE  NftIInv'
<1> DEFINE t == nft_tokens[m]
           e == nft_tokens'[m]
<1>1. MintSound(m) /\ NftShape
  BY DEF NftIInv
<1>2. /\ t \in [Wallets -> Nat] /\ t[w] \in Nat /\ minted[m] \in Nat /\ burnt[m] \in Nat
      /\ minted[m] - SumFunctionOnSet(t, Wallets)
           = burnt[m] + (IF minter[m] # {} /\ nft_record[m] = {} THEN 1 ELSE 0)
      /\ SumFunctionOnSet(t, Wallets) \in Nat
  <2>1. /\ t \in [Wallets -> Nat] /\ t[w] \in Nat /\ minted[m] \in Nat /\ burnt[m] \in Nat
        /\ minted[m] - SumFunctionOnSet(t, Wallets)
             = burnt[m] + (IF minter[m] # {} /\ nft_record[m] = {} THEN 1 ELSE 0)
    BY <1>1 DEF MintSound
  <2> HIDE DEF t
  <2>2. SumFunctionOnSet(t, Wallets) \in Nat
    BY <2>1, BalanceChange
  <2> QED BY <2>1, <2>2
<1>3. /\ NftShape'
      /\ \A k \in NftMints \ {m} :
           /\ nft_record'[k] = nft_record[k] /\ nft_tokens'[k] = nft_tokens[k]
           /\ minter'[k] = minter[k] /\ minted'[k] = minted[k] /\ burnt'[k] = burnt[k]
      /\ UNCHANGED <<minter, freed, treasury_fees>>
  BY <1>1 DEF burn_position_nft, token_mint_to, token_burn, transfer_position, token_transfer,
              NftShape
<1>4. treasury_fees' = Cardinality(made')
  BY <1>3 DEF NftIInv, made
<1>5. CASE burn_position_nft(w, m)
  <2>1. PICK r \in nft_record[m] :
          /\ nft_record'[m] = {} /\ minted'[m] = minted[m] /\ burnt'[m] = burnt[m]
          /\ t[w] > 0 /\ e = [t EXCEPT ![w] = @ - 1]
    BY <1>1, <1>5 DEF burn_position_nft, NftShape
  <2>2. e \in [Wallets -> Nat] /\ e[w] = t[w] - 1 /\ \A v \in Wallets : v # w => e[v] = t[v]
    BY <1>2, <2>1
  <2>3. SumFunctionOnSet(e, Wallets) = SumFunctionOnSet(t, Wallets) - 1
    <3> HIDE DEF t, e
    <3>1. SumFunctionOnSet(e, Wallets) = (SumFunctionOnSet(t, Wallets) - t[w]) + e[w]
      BY <1>2, <2>2, BalanceChange
    <3> QED BY <3>1, <1>2, <2>2
  <2>4. minter[m] # {}
    BY <1>1, <2>1 DEF MintSound
  <2>5. minted'[m] - SumFunctionOnSet(e, Wallets) = burnt[m] + 1
    <3>1. minted[m] - SumFunctionOnSet(t, Wallets) = burnt[m]
      BY <1>2, <2>1
    <3> HIDE DEF t, e
    <3> QED BY <1>2, <2>1, <2>3, <3>1
  <2>6. MintSound(m)'
    BY <1>2, <1>3, <2>1, <2>2, <2>4, <2>5 DEF MintSound
  <2> QED BY <1>3, <1>4, <2>6, OtherMints
<1>6. CASE token_mint_to(w, m)
  <2>1. /\ w \in minter[m] /\ nft_record'[m] = nft_record[m]
        /\ minted'[m] = minted[m] + 1 /\ burnt' = burnt /\ e = [t EXCEPT ![w] = @ + 1]
    BY <1>1, <1>6 DEF token_mint_to, NftShape
  <2>2. e \in [Wallets -> Nat] /\ e[w] = t[w] + 1 /\ \A v \in Wallets : v # w => e[v] = t[v]
    BY <1>2, <2>1
  <2>3. minted'[m] - SumFunctionOnSet(e, Wallets) = minted[m] - SumFunctionOnSet(t, Wallets)
    <3> HIDE DEF t, e
    <3>1. SumFunctionOnSet(e, Wallets) = (SumFunctionOnSet(t, Wallets) - t[w]) + e[w]
      BY <1>2, <2>2, BalanceChange
    <3> QED BY <3>1, <1>2, <2>1, <2>2
  <2>4. MintSound(m)'
    BY <1>1, <1>2, <1>3, <2>1, <2>2, <2>3 DEF MintSound
  <2> QED BY <1>3, <1>4, <2>4, OtherMints
<1>7. ASSUME NEW v \in Wallets \ {w}, transfer_position(w, m, v) \/ token_transfer(w, m, v)
      PROVE  NftIInv'
  <2>1. t[w] > 0 /\ minted'[m] = minted[m] /\ burnt'[m] = burnt[m]
    BY <1>7 DEF transfer_position, token_transfer
  <2>2. /\ e \in [Wallets -> Nat]
        /\ SumFunctionOnSet(e, Wallets) = SumFunctionOnSet(t, Wallets)
    <3>1. nft_tokens' = [nft_tokens EXCEPT ![m][w] = @ - 1, ![m][v] = @ + 1]
      BY <1>7 DEF transfer_position, token_transfer
    <3>2. e = [t EXCEPT ![w] = @ - 1, ![v] = @ + 1]
      BY <3>1, <1>1 DEF NftShape
    <3> HIDE DEF t, e
    <3>3. e \in [Wallets -> Nat]
      BY <1>2, <2>1, <3>2
    <3>4. e[w] = t[w] - 1 /\ e[v] = t[v] + 1 /\ \A u \in Wallets \ {w, v} : e[u] = t[u]
      BY <1>2, <3>2
    <3> QED BY <1>2, <2>1, <3>3, <3>4, TransferKeepsSum
  <2>3. \/ nft_record'[m] = nft_record[m]
        \/ \E r \in nft_record[m] : r.transferable
                                    /\ nft_record'[m] = {[r EXCEPT !.owner = v]}
    BY <1>1, <1>7 DEF transfer_position, token_transfer, transferable, NftShape
  <2>4. /\ nft_record'[m] \subseteq Record /\ (nft_record'[m] = {} <=> nft_record[m] = {})
        /\ \A q \in nft_record'[m] : /\ q.transferable => m \in freed
                                     /\ m \notin freed => minter[m] = {q.owner}
    <3>1. CASE nft_record'[m] = nft_record[m]
      BY <1>1, <3>1 DEF MintSound
    <3>2. ASSUME NEW r \in nft_record[m], r.transferable,
                 nft_record'[m] = {[r EXCEPT !.owner = v]}
          PROVE  /\ nft_record'[m] \subseteq Record /\ nft_record[m] # {}
                 /\ nft_record'[m] # {} /\ m \in freed
      <4>1. r \in Record /\ m \in freed
        BY <1>1, <3>2 DEF MintSound
      <4>2. [r EXCEPT !.owner = v] \in Record
        BY <4>1 DEF Record
      <4> QED BY <4>1, <4>2, <3>2
    <3> QED BY <2>3, <3>1, <3>2
  <2>5. minter[m] = {} => nft_record'[m] = {} /\ minted'[m] = 0
    BY <1>1, <2>1, <2>4 DEF MintSound
  <2>6. minted'[m] - SumFunctionOnSet(e, Wallets)
          = burnt'[m] + (IF minter[m] # {} /\ nft_record'[m] = {} THEN 1 ELSE 0)
    BY <1>2, <2>1, <2>2, <2>4
  <2>7. minted'[m] \in Nat /\ burnt'[m] \in Nat
    BY <1>2, <2>1
  <2>8. MintSound(m)'
    BY <1>3, <2>2, <2>4, <2>5, <2>6, <2>7 DEF MintSound
  <2> QED BY <1>3, <1>4, <2>8, OtherMints
<1>8. CASE token_burn(w, m)
  <2>1. /\ nft_record' = nft_record /\ minted' = minted /\ burnt'[m] = burnt[m] + 1
        /\ t[w] > 0 /\ e = [t EXCEPT ![w] = @ - 1]
    BY <1>1, <1>8 DEF token_burn, NftShape
  <2>2. e \in [Wallets -> Nat] /\ e[w] = t[w] - 1 /\ \A v \in Wallets : v # w => e[v] = t[v]
    BY <1>2, <2>1
  <2>3. minted[m] - SumFunctionOnSet(e, Wallets)
          = burnt'[m] + (IF minter[m] # {} /\ nft_record[m] = {} THEN 1 ELSE 0)
    <3> HIDE DEF t, e
    <3>1. SumFunctionOnSet(e, Wallets) = (SumFunctionOnSet(t, Wallets) - t[w]) + e[w]
      BY <1>2, <2>2, BalanceChange
    <3> QED BY <3>1, <1>2, <2>1, <2>2
  <2>4. burnt'[m] \in Nat
    BY <1>2, <2>1
  <2>5. MintSound(m)'
    BY <1>1, <1>3, <2>1, <2>2, <2>3, <2>4 DEF MintSound
  <2> QED BY <1>3, <1>4, <2>5, OtherMints
<1> QED BY <1>5, <1>6, <1>7, <1>8

\* Every instruction of the two programs preserves the invariant.
LEMMA NextNft ==
  ASSUME NftIInv, [NftNext]_nftVars
  PROVE  NftIInv'
<1>1. CASE UNCHANGED nftVars
  BY <1>1 DEF NftIInv, NftShape, MintSound, made, nftVars
<1>2. ASSUME NEW m \in NftMints, NEW b \in BOOLEAN, set_transferable(m, b)
      PROVE  NftIInv'
  <2>1. MintSound(m) /\ NftShape
    BY DEF NftIInv
  <2>2. PICK r \in nft_record[m] :
          /\ nft_record' = [nft_record EXCEPT ![m] = {[r EXCEPT !.transferable = b]}]
          /\ freed' = IF b THEN freed \cup {m} ELSE freed
          /\ UNCHANGED <<nft_tokens, treasury_fees, minter, minted, burnt>>
    BY <1>2 DEF set_transferable
  <2>3. treasury_fees' = Cardinality(made')
    BY <2>2 DEF NftIInv, made
  <2>4. [r EXCEPT !.transferable = b] \in Record /\ r \in Record
    BY <2>1, <2>2 DEF MintSound, Record
  <2>5. MintSound(m)'
    BY <2>1, <2>2, <2>4 DEF MintSound, NftShape, Record
  <2> QED BY <2>1, <2>2, <2>3, <2>5, OtherMints DEF NftShape
<1>3. CASE NftStep
  BY <1>2, <1>3, MintPreserves, TokensPreserve DEF NftStep
<1> QED BY <1>1, <1>3 DEF NftNext

(***************************************************************************)
(* The programs together.                                                  *)
(***************************************************************************)
\* Over any sequence of the instructions of nebula-shield and
\* nebula-nft-position every shield keeps acceptable settings, the totals
\* are those of the shields, no guard locks longer than the largest lock, a
\* bound position keeps its owner, and every token is with a wallet, burnt by a
\* holder or gone with a record: a record goes only with a token of its owner's.
THEOREM ProgramsCorrect == Spec => []ProgramsSound
<1> DEFINE IInv == ShieldIInv /\ NftIInv
<1>1. Init => IInv
  BY InitShield, InitNft DEF Init
<1>2. IInv /\ [Next]_vars => IInv'
  <2> SUFFICES ASSUME IInv, [Next]_vars PROVE IInv'
    OBVIOUS
  <2>1. [ShieldNext]_shieldVars /\ [NftNext]_nftVars
    BY DEF Next, vars
  <2> QED BY <2>1, NextShield, NextNft
<1>3. IInv => ProgramsSound
  <2> SUFFICES ASSUME IInv PROVE ProgramsSound
    OBVIOUS
  <2>1. SettingsAccepted
    BY DEF ShieldIInv, ShieldShape, Shielding, SettingsAccepted
  <2>2. LockBounded
    <3> SUFFICES ASSUME NEW x \in Programs \X Pools \X Mints, NEW g \in jit_guard[x],
                        slot >= g.last_add_slot + MAX_LOCK_SLOTS
                 PROVE  can_remove(g, slot)
      BY DEF LockBounded
    <3>1. g \in Guard /\ slot \in Nat
      BY DEF ShieldIInv, ShieldShape
    <3> QED BY <3>1, LockAssumption DEF Guard, can_remove
  <2>3. Soulbound
    BY DEF NftIInv, MintSound, Soulbound
  <2>4. TokenPerRecord
    BY DEF NftIInv, MintSound, TokenPerRecord, made
  <2> QED BY <2>1, <2>2, <2>3, <2>4 DEF ProgramsSound, ShieldIInv
<1> QED BY <1>1, <1>2, <1>3, PTL DEF Spec

(***************************************************************************)
(* The hooks of a swap, arb_sweep and their configuration.                 *)
(***************************************************************************)
(***************************************************************************)
(* Arithmetic.                                                             *)
(***************************************************************************)
\* Division of natural numbers rounds down.
LEMMA DivBounds ==
  ASSUME NEW a \in Nat, NEW d \in Nat, d > 0
  PROVE  /\ a \div d \in Nat
         /\ d * (a \div d) <= a
         /\ a < d * (a \div d) + d
  OBVIOUS

\* Multiplication is monotone.
LEMMA MulMono ==
  ASSUME NEW a \in Nat, NEW b \in Nat, NEW c \in Nat, b <= c
  PROVE  a * b \in Nat /\ a * c \in Nat /\ a * b <= a * c
  OBVIOUS

\* A quotient is at most b when the dividend is at most b * d.
LEMMA DivLe ==
  ASSUME NEW a \in Nat, NEW b \in Nat, NEW d \in Nat, d > 0, a <= b * d
  PROVE  a \div d <= b
  BY DivBounds

\* The smaller and the larger of two numbers.
LEMMA MinMax ==
  ASSUME NEW a \in Int, NEW b \in Int
  PROVE  /\ Min({a, b}) = IF a <= b THEN a ELSE b
         /\ Max({a, b}) = IF a <= b THEN b ELSE a
<1>1. Min({a, b}) = IF a <= b THEN a ELSE b
  <2> DEFINE m == IF a <= b THEN a ELSE b
  <2>1. m \in {a, b} /\ \A y \in {a, b} : m <= y
    OBVIOUS
  <2>2. \A x \in {a, b} : (\A y \in {a, b} : x <= y) => x = m
    OBVIOUS
  <2> HIDE DEF m
  <2>3. (CHOOSE x \in {a, b} : \A y \in {a, b} : x <= y) = m
    BY <2>1, <2>2
  <2> QED BY <2>3 DEF Min, m
<1>2. Max({a, b}) = IF a <= b THEN b ELSE a
  <2> DEFINE m == IF a <= b THEN b ELSE a
  <2>1. m \in {a, b} /\ \A y \in {a, b} : m >= y
    OBVIOUS
  <2>2. \A x \in {a, b} : (\A y \in {a, b} : x >= y) => x = m
    OBVIOUS
  <2> HIDE DEF m
  <2>3. (CHOOSE x \in {a, b} : \A y \in {a, b} : x >= y) = m
    BY <2>1, <2>2
  <2> QED BY <2>3 DEF Max, m
<1> QED BY <1>1, <1>2

(***************************************************************************)
(* The ring of observations.                                               *)
(***************************************************************************)
Observation == [time : Nat, cumulative : Int]

Ring ==
  [initialized : BOOLEAN, index : 0 .. OBSERVATION_NUM - 1,
   observations : [0 .. OBSERVATION_NUM - 1 -> Observation]]

\* update keeps the ring a ring.
LEMMA UpdateRing ==
  ASSUME NEW o \in Ring, NEW now \in Nat, NEW t \in Int
  PROVE  update(o, now, t) \in Ring
<1> DEFINE last == o.observations[o.index]
           next == IF o.initialized THEN next_index(o.index) ELSE o.index
           sum == IF o.initialized THEN last.cumulative + t * (now - last.time) ELSE 0
           obs == [time |-> now, cumulative |-> sum]
<1>1. /\ o.initialized \in BOOLEAN /\ o.index \in 0 .. OBSERVATION_NUM - 1
      /\ o.observations \in [0 .. OBSERVATION_NUM - 1 -> Observation]
  BY DEF Ring
<1>2. last.time \in Nat /\ last.cumulative \in Int
  BY <1>1 DEF Observation
<1>3. next \in 0 .. OBSERVATION_NUM - 1
  BY <1>1, RingAssumption DEF next_index
<1>4. sum \in Int
  <2>1. t * (now - last.time) \in Int
    BY <1>2
  <2> HIDE DEF last
  <2> QED BY <1>2, <2>1
<1> HIDE DEF sum, next, last
<1>5. obs \in Observation
  BY <1>4 DEF Observation
<1> HIDE DEF obs
<1> DEFINE f == [o.observations EXCEPT ![next] = obs]
<1>6. f \in [0 .. OBSERVATION_NUM - 1 -> Observation]
  BY <1>1, <1>3, <1>5
<1>7. \/ update(o, now, t) = o
      \/ update(o, now, t) = [initialized |-> TRUE, index |-> next, observations |-> f]
  BY Zenon DEF update, next, obs, sum, last
<1> HIDE DEF f
<1>8. [initialized |-> TRUE, index |-> next, observations |-> f] \in Ring
  BY <1>3, <1>6 DEF Ring
<1> QED BY <1>7, <1>8

\* The recursion of RingAfter has a solution.
LEMMA RingsExist ==
  ASSUME NEW h \in Seq([time : Nat, tick : Int])
  PROVE  \E g : g = [n \in 0 .. Len(h) |->
                       IF n = 0 THEN NoObservations ELSE update(g[n - 1], h[n].time, h[n].tick)]
<1> DEFINE E(g, n) == IF n = 0 THEN NoObservations ELSE update(g[n - 1], h[n].time, h[n].tick)
           U == {m \in Nat : \E g : g = [n \in 0 .. m |-> E(g, n)]}
<1>1. 0 \in U
  <2> DEFINE g == [n \in 0 .. 0 |-> NoObservations]
  <2>1. g = [n \in 0 .. 0 |-> E(g, n)]
    OBVIOUS
  <2> QED BY <2>1
<1>2. ASSUME NEW m \in Nat, m \in U PROVE m + 1 \in U
  <2>1. PICK g : g = [n \in 0 .. m |-> E(g, n)]
    BY <1>2
  <2> DEFINE f == [n \in 0 .. m + 1 |-> IF n = m + 1 THEN E(g, n) ELSE g[n]]
  <2>2. \A n \in 0 .. m + 1 : f[n] = E(f, n)
    <3> SUFFICES ASSUME NEW n \in 0 .. m + 1 PROVE f[n] = E(f, n)
      OBVIOUS
    <3>1. n # 0 => n - 1 \in 0 .. m /\ f[n - 1] = g[n - 1]
      OBVIOUS
    <3>2. E(f, n) = E(g, n)
      BY <3>1
    <3>3. n \in 0 .. m => g[n] = E(g, n)
      BY <2>1
    <3>4. f[n] = E(g, n)
      BY <3>3
    <3> QED BY <3>2, <3>4
  <2>3. f = [n \in 0 .. m + 1 |-> E(f, n)]
    <3> HIDE DEF E
    <3>1. f = [n \in 0 .. m + 1 |-> f[n]]
      OBVIOUS
    <3> HIDE DEF f
    <3> QED BY <2>2, <3>1
  <2>4. \E e : e = [n \in 0 .. m + 1 |-> E(e, n)]
    <3> HIDE DEF f, E
    <3> QED BY <2>3
  <2> QED BY <2>4
<1>3. Len(h) \in U
  <2>1. Nat \subseteq U
    <3> HIDE DEF U
    <3> QED BY <1>1, <1>2, CountingInduction
  <2> QED BY <2>1
<1> QED BY <1>3

\* Every prefix of the observations leaves a ring.
LEMMA RingAfterRing ==
  ASSUME NEW h \in Seq([time : Nat, tick : Int])
  PROVE  RingAfter(h) \in Ring
<1> DEFINE E(g, n) == IF n = 0 THEN NoObservations ELSE update(g[n - 1], h[n].time, h[n].tick)
           ring == CHOOSE g : g = [n \in 0 .. Len(h) |-> E(g, n)]
           U == {m \in Nat : m <= Len(h) => ring[m] \in Ring}
<1>1. ring = [n \in 0 .. Len(h) |-> E(ring, n)]
  BY RingsExist
<1>2. RingAfter(h) = ring[Len(h)]
  BY DEF RingAfter
<1> HIDE DEF ring
<1>3. \A n \in 0 .. Len(h) : ring[n] = E(ring, n)
  BY <1>1
<1>4. 0 \in U
  <2>1. NoObservations \in Ring
    <3> DEFINE f == [i \in 0 .. OBSERVATION_NUM - 1 |-> [time |-> 0, cumulative |-> 0]]
    <3>1. f \in [0 .. OBSERVATION_NUM - 1 -> Observation]
      BY DEF Observation
    <3>2. NoObservations = [initialized |-> FALSE, index |-> 0, observations |-> f]
      BY DEF NoObservations
    <3> HIDE DEF f
    <3> QED BY <3>1, <3>2, RingAssumption DEF Ring
  <2>2. ring[0] = NoObservations
    BY <1>3
  <2> QED BY <2>1, <2>2
<1>5. ASSUME NEW m \in Nat, m \in U PROVE m + 1 \in U
  <2> SUFFICES ASSUME m + 1 <= Len(h) PROVE ring[m + 1] \in Ring
    OBVIOUS
  <2>1. ring[m] \in Ring
    BY <1>5
  <2>2. ring[m + 1] = update(ring[m], h[m + 1].time, h[m + 1].tick)
    BY <1>3
  <2>3. h[m + 1] \in [time : Nat, tick : Int]
    <3> DEFINE S == [time : Nat, tick : Int]
    <3>1. h \in Seq(S) /\ m + 1 \in 1 .. Len(h)
      OBVIOUS
    <3> HIDE DEF S
    <3>2. h[m + 1] \in S
      BY <3>1
    <3> QED BY <3>2 DEF S
  <2>4. h[m + 1].time \in Nat /\ h[m + 1].tick \in Int
    BY <2>3
  <2> QED BY <2>1, <2>2, <2>4, UpdateRing
<1>6. Nat \subseteq U
  <2> HIDE DEF U
  <2> QED BY <1>4, <1>5, CountingInduction
<1> QED BY <1>2, <1>6

\* A reference lies between the least and the largest tick (clamped).
LEMMA ReferenceTick ==
  ASSUME NEW o \in Ring, NEW now \in Nat
  PROVE  /\ \A w \in Nat : observe_twap(o, w, now) \subseteq MinTick .. MaxTick
         /\ get_twap_tick(o, now) \subseteq MinTick .. MaxTick
<1>1. ASSUME NEW a \in Int, NEW b \in Nat, b > 0
      PROVE  trunc_div(a, b) \in Int
  <2>1. CASE a >= 0
    <3>1. a \in Nat
      BY <2>1
    <3>2. a \div b \in Nat
      BY <1>1, <3>1, DivBounds
    <3> QED BY <2>1, <3>2 DEF trunc_div
  <2>2. CASE ~(a >= 0)
    <3>1. -a \in Nat
      BY <2>2
    <3>2. (-a) \div b \in Nat
      BY <1>1, <3>1, DivBounds
    <3> QED BY <2>2, <3>2 DEF trunc_div
  <2> QED BY <2>1, <2>2
<1>2. ASSUME NEW t \in Int PROVE clamped(t) \in MinTick .. MaxTick
  <2>1. /\ MinTick \in Int /\ MaxTick \in Int /\ MinTick < MaxTick
    BY RingAssumption
  <2> DEFINE m == Min({MaxTick, t})
  <2>2. m = IF MaxTick <= t THEN MaxTick ELSE t
    BY <2>1, MinMax
  <2>3. m \in Int /\ m <= MaxTick
    BY <2>1, <2>2
  <2> HIDE DEF m
  <2>4. Max({MinTick, m}) = IF MinTick <= m THEN m ELSE MinTick
    BY <2>1, <2>3, MinMax
  <2>5. clamped(t) = Max({MinTick, m})
    BY DEF clamped, m
  <2> QED BY <2>1, <2>3, <2>4, <2>5
<1>3. \A i \in 0 .. OBSERVATION_NUM - 1 : o.observations[i].time \in Nat
                                          /\ o.observations[i].cumulative \in Int
  BY DEF Ring, Observation
<1>4. before_latest(o).time \in Nat /\ before_latest(o).cumulative \in Int
  <2>1. o.index \in 0 .. OBSERVATION_NUM - 1 /\ OBSERVATION_NUM \in Nat /\ OBSERVATION_NUM > 0
    BY RingAssumption DEF Ring
  <2>2. saturating_sub(o.index, 1) \in 0 .. OBSERVATION_NUM - 1
    BY <2>1 DEF saturating_sub
  <2>3. saturating_sub(o.index, 1) % OBSERVATION_NUM \in 0 .. OBSERVATION_NUM - 1
    BY <2>1, <2>2
  <2> QED BY <1>3, <2>3 DEF before_latest
<1> DEFINE latest == before_latest(o)
<1>5. ASSUME NEW w \in Nat
      PROVE  observe_twap(o, w, now) \subseteq MinTick .. MaxTick
  <2> DEFINE target == saturating_sub(now, w)
             older == {o.observations[i] : i \in find_observation_at_or_before(o, target)}
  <2>1. find_observation_at_or_before(o, target) \subseteq 0 .. OBSERVATION_NUM - 1
    <3> DEFINE slot_at(i) == (o.index + OBSERVATION_NUM - i) % OBSERVATION_NUM
               found == {i \in 0 .. OBSERVATION_NUM - 1 :
                           o.observations[slot_at(i)].time # 0
                             /\ o.observations[slot_at(i)].time <= target}
    <3>1. find_observation_at_or_before(o, target)
            = IF found = {} THEN {} ELSE {slot_at(Min(found))}
      BY DEF find_observation_at_or_before
    <3>2. o.index \in Nat /\ OBSERVATION_NUM \in Nat /\ OBSERVATION_NUM > 0
      BY RingAssumption DEF Ring
    <3>3. found # {} => Min(found) \in found
      <4> SUFFICES ASSUME found # {} PROVE Min(found) \in found
        OBVIOUS
      <4> HIDE DEF slot_at
      <4>1. found \in SUBSET Nat
        BY <3>2
      <4> HIDE DEF found
      <4>2. \E x \in found : \A y \in found : x <= y
        BY <4>1, SmallestElement
      <4>3. (CHOOSE x \in found : \A y \in found : x <= y) \in found
        BY <4>2
      <4> QED BY <4>3 DEF Min
    <3>4. found # {} => slot_at(Min(found)) \in 0 .. OBSERVATION_NUM - 1
      <4> DEFINE m == Min(found)
      <4>1. found # {} => m \in 0 .. OBSERVATION_NUM - 1
        BY <3>3
      <4> HIDE DEF m, found
      <4>2. found # {} => o.index + OBSERVATION_NUM - m \in Nat
        BY <3>2, <4>1
      <4>3. found # {} => (o.index + OBSERVATION_NUM - m) % OBSERVATION_NUM \in 0 .. OBSERVATION_NUM - 1
        BY <3>2, <4>2
      <4> QED BY <4>3 DEF m
    <3> HIDE DEF found, slot_at
    <3> QED BY <3>1, <3>4
  <2>2. ASSUME NEW x \in older, latest.time > x.time
        PROVE  clamped(trunc_div(latest.cumulative - x.cumulative, latest.time - x.time))
                 \in MinTick .. MaxTick
    <3>1. x.time \in Nat /\ x.cumulative \in Int
      BY <1>3, <2>1
    <3>2. latest.cumulative - x.cumulative \in Int /\ latest.time - x.time \in Nat
          /\ latest.time - x.time > 0
      BY <1>4, <2>2, <3>1
    <3> HIDE DEF latest
    <3> QED BY <1>1, <1>2, <3>2
  <2>3. \/ observe_twap(o, w, now) = {}
        \/ observe_twap(o, w, now)
             = {clamped(trunc_div(latest.cumulative - x.cumulative, latest.time - x.time)) :
                  x \in {y \in older : latest.time > y.time}}
    BY DEF observe_twap
  <2> HIDE DEF older, latest
  <2> QED BY <2>2, <2>3
<1>6. get_twap_tick(o, now) \subseteq MinTick .. MaxTick
  <2> DEFINE elapsed == saturating_sub(now, latest.time)
  <2>1. elapsed \in Nat
    BY <1>4 DEF saturating_sub
  <2>2. \/ get_twap_tick(o, now) = {}
        \/ elapsed # 0 /\ get_twap_tick(o, now) = {clamped(trunc_div(latest.cumulative, elapsed))}
    BY DEF get_twap_tick
  <2> HIDE DEF elapsed, latest
  <2>3. elapsed # 0 => clamped(trunc_div(latest.cumulative, elapsed)) \in MinTick .. MaxTick
    <3>1. elapsed # 0 => elapsed > 0
      BY <2>1
    <3> QED BY <1>1, <1>2, <1>4, <2>1, <3>1 DEF latest
  <2> QED BY <2>2, <2>3
<1> QED BY <1>5, <1>6

(***************************************************************************)
(* The correction.                                                         *)
(***************************************************************************)
\* What CorrectionSound asks of one correction.
Sound(c) ==
  /\ c.from > c.reference => c.to <= c.from /\ (c.raised \/ c.to >= c.reference)
  /\ c.from <= c.reference => c.to >= c.from /\ (c.raised \/ c.to <= c.reference)
  /\ c.since >= c.cooldown

\* The tick of a price is one of the pool's, below the last.
LEMMA TickAt ==
  ASSUME NEW p \in Int
  PROVE  /\ get_tick_at_sqrt_price(p) \subseteq MinTick .. MaxTick - 1
         /\ get_tick_at_sqrt_price(p) # {} =>
              SqrtPrice[MinTick] <= p /\ p < SqrtPrice[MaxTick]
<1> DEFINE S == {t \in MinTick .. MaxTick : SqrtPrice[t] <= p}
<1>1. /\ MinTick \in Int /\ MaxTick \in Int /\ MinTick < MaxTick
      /\ SqrtPrice \in [MinTick .. MaxTick -> Nat \ {0}]
  BY RingAssumption, HookAssumption
<1>2. SqrtPrice[MinTick] \in Nat /\ SqrtPrice[MaxTick] \in Nat
  BY <1>1
<1>3. CASE p < SqrtPrice[MinTick] \/ p >= SqrtPrice[MaxTick]
  BY <1>3 DEF get_tick_at_sqrt_price
<1>4. CASE ~(p < SqrtPrice[MinTick] \/ p >= SqrtPrice[MaxTick])
  <2>1. get_tick_at_sqrt_price(p) = {Max(S)}
    BY <1>4 DEF get_tick_at_sqrt_price
  <2>2. MinTick \in S /\ \A t \in S : t \in Int /\ MinTick <= t /\ t < MaxTick
    BY <1>1, <1>2, <1>4
  <2> HIDE DEF S
  <2> DEFINE D == {MaxTick - t : t \in S}
  <2>3. D \in SUBSET Nat /\ D # {}
    <3>1. \A t \in S : MaxTick - t \in Nat
      BY <1>1, <2>2
    <3> QED BY <2>2, <3>1
  <2>4. PICK d \in D : \A y \in D : d <= y
    <3> HIDE DEF D
    <3> QED BY <2>3, SmallestElement
  <2>5. PICK x \in S : d = MaxTick - x
    BY <2>4
  <2>6. \A y \in S : x >= y
    <3> SUFFICES ASSUME NEW y \in S PROVE x >= y
      OBVIOUS
    <3>1. MaxTick - x <= MaxTick - y
      BY <2>4, <2>5
    <3> QED BY <1>1, <2>2, <3>1
  <2>7. Max(S) \in S
    <3>1. (CHOOSE z \in S : \A y \in S : z >= y) \in S
      BY <2>6
    <3> QED BY <3>1 DEF Max
  <2>8. Max(S) \in MinTick .. MaxTick - 1
    <3> DEFINE m == Max(S)
    <3>1. m \in Int /\ MinTick <= m /\ m < MaxTick
      BY <2>2, <2>7
    <3> HIDE DEF m
    <3>2. m \in MinTick .. MaxTick - 1
      BY <1>1, <3>1
    <3> QED BY <3>2 DEF m
  <2> QED BY <1>2, <1>4, <2>1, <2>8
<1> QED BY <1>3, <1>4

\* Scaling up what was scaled down does not exceed the original.
LEMMA ThereAndBack ==
  ASSUME NEW x \in Nat, NEW a \in Nat, NEW l \in Nat, l > 0, NEW q \in Nat, q > 0,
         a <= (l * x) \div q
  PROVE  (a * q) \div l <= x /\ (a * q) \div l \in Nat
<1> DEFINE r == (l * x) \div q
<1>1. l * x \in Nat /\ r \in Nat /\ q * r <= l * x
  BY DivBounds
<1> HIDE DEF r
<1>2. q * a <= q * r /\ q * a \in Nat /\ q * r \in Nat
  BY <1>1, MulMono DEF r
<1>3. a * q \in Nat /\ a * q <= x * l
  BY <1>1, <1>2
<1> QED BY <1>3, DivLe, DivBounds

\* calculate_sweep_amount and apply_arb close no more than four fifths of the
\* gap, unless the smallest sweep amount is more.
LEMMA SweepSound ==
  ASSUME NEW p \in Nat, NEW r \in Nat, r > 0, NEW c \in ArbConfig
  PROVE  LET a_to_b == calculate_spread(p, r).a_to_b
             amount == calculate_sweep_amount(c, p, r)
             q == apply_arb(p, amount, a_to_b)
             raised == c.min_sweep_amount > raw_amount(p, r)
         IN /\ amount \in Nat /\ a_to_b \in BOOLEAN /\ q \in Nat
            /\ p > r => q <= p /\ (raised \/ q >= r)
            /\ p <= r => q >= p /\ (raised \/ q <= r)
<1> DEFINE a_to_b == calculate_spread(p, r).a_to_b
           amount == calculate_sweep_amount(c, p, r)
           q == apply_arb(p, amount, a_to_b)
           g == gap(p, r)
           x == (g * 4) \div 5
           raw == raw_amount(p, r)
           impact == (amount * Q64) \div Liquidity
<1>1. /\ Liquidity \in Nat /\ Liquidity > 0 /\ Q64 \in Nat /\ Q64 > 0
      /\ c.min_sweep_amount \in Nat /\ c.max_sweep_amount \in Nat
  BY HookAssumption DEF ArbConfig
<1>2. g \in Nat /\ (p > r => g = p - r) /\ (p <= r => g = r - p)
  BY DEF gap
<1> HIDE DEF g
<1>3. x \in Nat /\ x <= g
  BY <1>2
<1> HIDE DEF x
<1>4. raw = (Liquidity * x) \div Q64
  BY DEF raw_amount, x, g
<1>5. raw \in Nat
  <2>1. Liquidity * x \in Nat
    BY <1>1, <1>3
  <2> QED BY <1>1, <1>4, <2>1, DivBounds
<1> HIDE DEF raw
<1>6. amount \in Nat /\ (c.min_sweep_amount <= raw => amount <= raw)
  <2> DEFINE m == Max({raw, c.min_sweep_amount})
  <2>1. m = IF raw <= c.min_sweep_amount THEN c.min_sweep_amount ELSE raw
    <3>1. raw \in Int /\ c.min_sweep_amount \in Int
      BY <1>1, <1>5
    <3> QED BY <3>1, MinMax, Zenon
  <2>2. m \in Nat /\ (c.min_sweep_amount <= raw => m = raw)
    BY <1>1, <1>5, <2>1
  <2>3. amount = Min({m, c.max_sweep_amount})
    BY DEF calculate_sweep_amount, raw
  <2> HIDE DEF m, amount
  <2>4. amount = IF m <= c.max_sweep_amount THEN m ELSE c.max_sweep_amount
    BY <1>1, <2>2, <2>3, MinMax
  <2> QED BY <1>1, <1>5, <2>2, <2>4
<1>7. (a_to_b <=> p > r) /\ a_to_b \in BOOLEAN
  <2>1. a_to_b = (p > r)
    BY Zenon DEF calculate_spread
  <2>2. (p > r) \in BOOLEAN
    OBVIOUS
  <2> QED BY <2>1, <2>2, Zenon
<1>8. q = IF a_to_b THEN saturating_sub(p, impact) ELSE p + impact
  BY DEF apply_arb
<1> HIDE DEF amount, a_to_b
<1>9. impact \in Nat
  <2>1. amount * Q64 \in Nat
    BY <1>1, <1>6
  <2> QED BY <1>1, <2>1, DivBounds
<1>10. c.min_sweep_amount <= raw => impact <= g
  <2> SUFFICES ASSUME c.min_sweep_amount <= raw PROVE impact <= g
    OBVIOUS
  <2>1. amount <= (Liquidity * x) \div Q64
    BY <1>4, <1>6
  <2>2. impact <= x
    BY <1>1, <1>3, <1>6, <2>1, ThereAndBack
  <2> HIDE DEF impact
  <2> QED BY <1>2, <1>3, <1>9, <2>2
<1>11. c.min_sweep_amount > raw \/ c.min_sweep_amount <= raw
  BY <1>1, <1>5
<1> HIDE DEF impact, q
<1>12. /\ q \in Nat
       /\ p > r => q <= p /\ (c.min_sweep_amount > raw \/ q >= r)
       /\ p <= r => q >= p /\ (c.min_sweep_amount > raw \/ q <= r)
  BY <1>2, <1>7, <1>8, <1>9, <1>10, <1>11 DEF saturating_sub
<1> QED BY <1>6, <1>7, <1>12 DEF q, amount, a_to_b, raw

\* The output of a sweep and its profit are amounts.
LEMMA ProfitNat ==
  ASSUME NEW p \in Nat, NEW amount \in Nat, NEW b \in BOOLEAN
  PROVE  profit(p, amount, b) \in Nat
<1> DEFINE virtual == IF b THEN Liquidity \div Max({p \div Q32, 1})
                      ELSE Liquidity * (p \div Q64)
<1>1. /\ Liquidity \in Nat /\ Q64 \in Nat /\ Q64 > 0 /\ Q32 \in Nat /\ Q32 > 0
  BY HookAssumption
<1>2. p \div Q32 \in Nat /\ p \div Q64 \in Nat
  BY <1>1, DivBounds
<1>3. virtual \in Nat
  <2> DEFINE k == p \div Q32
             m == Max({k, 1})
  <2>1. m = IF k <= 1 THEN 1 ELSE k
    BY <1>2, MinMax
  <2>2. m \in Nat /\ m > 0
    <3> HIDE DEF k, m
    <3> QED BY <1>2, <2>1 DEF k
  <2> HIDE DEF m
  <2>3. Liquidity \div m \in Nat
    BY <1>1, <2>2, DivBounds
  <2>4. Liquidity * (p \div Q64) \in Nat
    BY <1>1, <1>2
  <2> QED BY <2>3, <2>4 DEF m
<1>4. compute_arb_swap(p, amount, b)
        = IF virtual + amount = 0 THEN 0 ELSE (Liquidity * amount) \div (virtual + amount)
  BY DEF compute_arb_swap
<1> HIDE DEF virtual
<1>5. compute_arb_swap(p, amount, b) \in Nat
  <2> DEFINE d == virtual + amount
             n == Liquidity * amount
  <2>1. d \in Nat /\ n \in Nat
    BY <1>1, <1>3
  <2> HIDE DEF d, n
  <2>2. d # 0 => n \div d \in Nat
    BY <2>1, DivBounds
  <2> QED BY <1>4, <2>2 DEF d, n
<1> QED BY <1>5 DEF profit, saturating_sub

(***************************************************************************)
(* The invariant.                                                          *)
(***************************************************************************)
HookShape ==
  /\ sqrt_price \in Nat /\ tick \in MinTick .. MaxTick - 1
  /\ protocol_fees \in [Tokens -> Nat]
  /\ oracle \in Ring
  /\ clock.slot \in Nat /\ clock.slot > 0 /\ clock.now \in Nat
  /\ corrected_at \in Nat /\ corrected_at <= clock.slot
  /\ arb_config = {} \/ \E c \in ArbConfig : arb_config = {c}

\* The configuration knows of the last correction and of every tax.
ConfigExact ==
  /\ arb_config = {} => corrected_at = 0 /\ protocol_fees = [i \in Tokens |-> 0]
  /\ \A c \in arb_config : /\ c.last_sweep_slot = corrected_at
                           /\ c.manipulation_tax_collected = protocol_fees

ConfigInv == HookShape /\ ConfigExact /\ CorrectionSound

\* A reference price is one of the pool's.
LEMMA ReferencePrice ==
  ASSUME NEW t \in MinTick .. MaxTick
  PROVE  SqrtPrice[t] \in Nat /\ SqrtPrice[t] > 0
<1>1. SqrtPrice \in [MinTick .. MaxTick -> Nat \ {0}]
  BY HookAssumption
<1>2. SqrtPrice[t] \in Nat \ {0}
  BY <1>1
<1> QED BY <1>2

\* The configuration after a sweep.
LEMMA SweptConfig ==
  ASSUME NEW c \in ArbConfig, NEW b \in BOOLEAN, NEW x \in Nat, NEW s \in Nat
  PROVE  /\ swept(credited(c, b, x), s) \in ArbConfig
         /\ swept(credited(c, b, x), s).last_sweep_slot = s
         /\ swept(credited(c, b, x), s).manipulation_tax_collected
              = c.manipulation_tax_collected
<1>1. PICK e \in ArbConfig : /\ e = credited(c, b, x)
                             /\ e.manipulation_tax_collected = c.manipulation_tax_collected
  <2> DEFINE y == c.total_profit_captured_b + x
             z == c.total_profit_captured_a + x
  <2>1. y \in Nat /\ z \in Nat
    BY DEF ArbConfig
  <2>2. credited(c, b, x) = IF b THEN [c EXCEPT !.total_profit_captured_b = y]
                            ELSE [c EXCEPT !.total_profit_captured_a = z]
    BY DEF credited, ArbConfig
  <2> HIDE DEF y, z
  <2> QED BY <2>1, <2>2 DEF ArbConfig
<1>2. [e EXCEPT !.last_sweep_slot = s] \in ArbConfig
      /\ [e EXCEPT !.last_sweep_slot = s].last_sweep_slot = s
      /\ [e EXCEPT !.last_sweep_slot = s].manipulation_tax_collected
           = e.manipulation_tax_collected
  BY DEF ArbConfig
<1> QED BY <1>1, <1>2 DEF swept

\* What pre_swap_arb_check leaves: everything as it was, or a sound correction.
LEMMA HookOutcome ==
  ASSUME HookShape, ConfigExact, NEW c \in arb_config
  PROVE  LET h == pre_swap_arb_check(sqrt_price, tick, c, oracle, clock)
         IN /\ h.price \in Nat /\ h.tick \in MinTick .. MaxTick - 1 /\ h.config \in ArbConfig
            /\ h.config.manipulation_tax_collected = c.manipulation_tax_collected
            /\ \/ /\ h.correction = NoCorrection
                  /\ h.price = sqrt_price /\ h.tick = tick /\ h.config = c
               \/ /\ h.correction # NoCorrection /\ Sound(h.correction)
                  /\ h.config.last_sweep_slot = clock.slot
<1> DEFINE h == pre_swap_arb_check(sqrt_price, tick, c, oracle, clock)
           p == sqrt_price
           refs == {SqrtPrice[x] : x \in observe_twap(oracle, c.twap_window_seconds, clock.now)}
           left == [price |-> p, tick |-> tick, config |-> c, correction |-> NoCorrection]
<1>1. /\ p \in Nat /\ tick \in MinTick .. MaxTick - 1 /\ oracle \in Ring /\ clock.slot \in Nat
      /\ clock.now \in Nat /\ c \in ArbConfig /\ c.last_sweep_slot = corrected_at
      /\ corrected_at \in Nat
  BY DEF HookShape, ConfigExact
<1>2. c.twap_window_seconds \in Nat /\ c.cooldown_slots \in Nat /\ c.min_sweep_amount \in Nat
  BY <1>1 DEF ArbConfig
<1>3. \A r \in refs : r \in Nat /\ r > 0
  <2>1. observe_twap(oracle, c.twap_window_seconds, clock.now) \subseteq MinTick .. MaxTick
    BY <1>1, <1>2, ReferenceTick
  <2> QED BY <2>1, ReferencePrice
<1>4. CASE h = left
  <2>1. h.price = p /\ h.tick = tick /\ h.config = c /\ h.correction = NoCorrection
    BY <1>4
  <2> QED BY <1>1, <2>1
<1>5. CASE h # left
  <2> DEFINE r == CHOOSE z \in refs : TRUE
             spread == calculate_spread(p, r)
             amount == calculate_sweep_amount(c, p, r)
             gain == profit(p, amount, spread.a_to_b)
             q == apply_arb(p, amount, spread.a_to_b)
             u == IF get_tick_at_sqrt_price(q) = {} THEN tick
                  ELSE CHOOSE v \in get_tick_at_sqrt_price(q) : TRUE
             raised == c.min_sweep_amount > raw_amount(p, r)
             d == swept(credited(c, spread.a_to_b, gain), clock.slot)
             k == [path |-> "hook", from |-> p, to |-> q, reference |-> r, raised |-> raised,
                   since |-> clock.slot - corrected_at, cooldown |-> c.cooldown_slots]
  <2>1. /\ refs # {} /\ cooled(c, clock.slot)
        /\ h = [price |-> q, tick |-> u, config |-> d, correction |-> k]
    BY <1>5, Zenon DEF pre_swap_arb_check
  <2>2. r \in Nat /\ r > 0
    <3> HIDE DEF refs
    <3>1. r \in refs
      BY <2>1
    <3> QED BY <1>3, <3>1
  <2> HIDE DEF r
  <2>3. /\ amount \in Nat /\ spread.a_to_b \in BOOLEAN /\ q \in Nat
        /\ p > r => q <= p /\ (raised \/ q >= r)
        /\ p <= r => q >= p /\ (raised \/ q <= r)
    BY <1>1, <2>2, SweepSound
  <2>4. gain \in Nat
    <3> HIDE DEF amount, spread
    <3> QED BY <1>1, <2>3, ProfitNat
  <2> HIDE DEF q, amount, gain
  <2>5. u \in MinTick .. MaxTick - 1
    <3>1. get_tick_at_sqrt_price(q) \subseteq MinTick .. MaxTick - 1
      BY <2>3, TickAt
    <3> QED BY <1>1, <3>1
  <2>6. d \in ArbConfig /\ d.last_sweep_slot = clock.slot
        /\ d.manipulation_tax_collected = c.manipulation_tax_collected
    <3> DEFINE b == spread.a_to_b
               present == clock.slot
    <3>1. b \in BOOLEAN /\ present \in Nat /\ c \in ArbConfig
      BY <1>1, <2>3
    <3> HIDE DEF b, present
    <3>2. /\ swept(credited(c, b, gain), present) \in ArbConfig
          /\ swept(credited(c, b, gain), present).last_sweep_slot = present
          /\ swept(credited(c, b, gain), present).manipulation_tax_collected
               = c.manipulation_tax_collected
      BY <2>4, <3>1, SweptConfig
    <3> QED BY <3>2 DEF b, present, d
  <2> HIDE DEF u, d, raised
  <2>7. clock.slot - corrected_at >= c.cooldown_slots
    BY <1>1, <1>2, <2>1 DEF cooled
  <2>8. k # NoCorrection
    BY DEF NoCorrection
  <2>9. Sound(k)
    BY <2>3, <2>7 DEF Sound
  <2> HIDE DEF k, h
  <2>10. h.price = q /\ h.tick = u /\ h.config = d /\ h.correction = k
    BY <2>1
  <2> QED BY <2>3, <2>5, <2>6, <2>8, <2>9, <2>10 DEF h
<1> QED BY <1>4, <1>5

(***************************************************************************)
(* The swap.                                                               *)
(***************************************************************************)
\* The price that a step of a swap reaches is a number.
LEMMA SwapPrice ==
  ASSUME NEW p \in Nat, NEW target \in Nat, NEW amount \in Nat,
         NEW base_input \in BOOLEAN, NEW zero_for_one \in BOOLEAN
  PROVE  compute_swap(p, target, Liquidity, amount, 0, base_input, zero_for_one, TRUE).price \in Int
<1> DEFINE L == Liquidity
           q == next_price(p, target, L, amount, 0, base_input, zero_for_one, TRUE)
<1>1. /\ L \in Nat /\ L > 0 /\ Q64 \in Nat /\ Q64 > 0 /\ FeeDenom \in Nat /\ FeeDenom > 0
  BY HookAssumption
<1>2. compute_swap(p, target, L, amount, 0, base_input, zero_for_one, TRUE).price = q
  BY Zenon DEF compute_swap
<1> HIDE DEF L
<1>3. L * Q64 \in Nat /\ L * Q64 > 0
  BY <1>1
<1>4. \A n \in Int : \A d \in Nat : d > 0 => n \div d \in Int
  OBVIOUS
<1>5. ASSUME NEW a \in Nat
      PROVE  get_next_sqrt_price_from_input(p, L, a, zero_for_one) \in Int
  <2> DEFINE m == L * Q64
             d == m + a * p
             n == m * p
  <2>1. a * p \in Nat /\ n \in Nat /\ a * Q64 \in Nat
    BY <1>1, <1>3
  <2>2. d \in Nat /\ d > 0
    <3> HIDE DEF m
    <3> QED BY <1>3, <2>1 DEF m
  <2>3. (n + d - 1) \div d \in Int
    <3> HIDE DEF n, d
    <3>1. n + d - 1 \in Int
      BY <2>1, <2>2
    <3> QED BY <1>4, <2>2, <3>1
  <2>4. p + (a * Q64) \div L \in Int
    BY <1>1, <1>4, <2>1
  <2> QED BY <2>3, <2>4 DEF get_next_sqrt_price_from_input, mul_div_ceil
<1>6. ASSUME NEW a \in Nat
      PROVE  get_next_sqrt_price_from_output(p, L, a, zero_for_one) \in Int
  <2> DEFINE m == L * Q64
             e == a * p
             d == m - e
             n == m * p
             k == a * Q64
  <2>1. e \in Nat /\ n \in Nat /\ k \in Nat /\ m \in Nat
    BY <1>1, <1>3
  <2>2. m > e => (n + d - 1) \div d \in Int
    <3> HIDE DEF n, m, e
    <3>1. m > e => n + d - 1 \in Int /\ d \in Nat /\ d > 0
      BY <2>1
    <3> HIDE DEF d
    <3> QED BY <1>4, <3>1
  <2>3. (k + L - 1) \div L \in Int
    <3> HIDE DEF k
    <3>1. k + L - 1 \in Int
      BY <1>1, <2>1
    <3> QED BY <1>1, <1>4, <3>1
  <2> DEFINE w == (k + L - 1) \div L
  <2>4. p - w \in Int
    <3> HIDE DEF w
    <3> QED BY <2>3 DEF w
  <2>5. get_next_sqrt_price_from_output(p, L, a, zero_for_one)
          = IF zero_for_one THEN (IF p >= w THEN p - w ELSE -1)
            ELSE (IF m > e THEN (n + d - 1) \div d ELSE -1)
    BY Zenon DEF get_next_sqrt_price_from_output, mul_div_ceil, div_rounding_up
  <2> HIDE DEF w, m, e, d, n
  <2> QED BY <2>2, <2>4, <2>5
<1> DEFINE available == IF base_input THEN mul_div_floor(amount, FeeDenom - 0, FeeDenom)
                        ELSE amount
<1>7. available \in Nat
  <2>1. amount * (FeeDenom - 0) \in Nat
    BY <1>1
  <2>2. (amount * (FeeDenom - 0)) \div FeeDenom \in Nat
    BY <1>1, <2>1, DivBounds
  <2> QED BY <2>2 DEF mul_div_floor
<1>8. \/ q = target
      \/ q = get_next_sqrt_price_from_input(p, L, available, zero_for_one)
      \/ q = get_next_sqrt_price_from_output(p, L, available, zero_for_one)
  <2>1. CASE base_input
    BY <2>1, Zenon DEF next_price
  <2>2. CASE ~base_input
    BY <2>2, Zenon DEF next_price
  <2> QED BY <2>1, <2>2
<1> HIDE DEF q, available
<1>9. q \in Int
  BY <1>5, <1>6, <1>7, <1>8
<1> QED BY <1>2, <1>9 DEF L

\* The tax is an amount less than what is swapped.
LEMMA TaxNat ==
  ASSUME NEW c \in ArbConfig, NEW amount \in Nat
  PROVE  tax_of(c, amount) \in Nat /\ tax_of(c, amount) <= amount
<1> DEFINE tax == (amount * c.manipulation_tax_bps) \div Bps
<1>1. c.manipulation_tax_bps \in Nat /\ Bps \in Nat /\ Bps > 0
  BY HookAssumption DEF ArbConfig
<1>2. amount * c.manipulation_tax_bps \in Nat
  BY <1>1
<1>3. tax \in Nat
  BY <1>1, <1>2, DivBounds
<1> HIDE DEF tax
<1> QED BY <1>3 DEF tax_of, tax

\* try_apply_manipulation_tax counts the tax that it credits.
LEMMA TaxedConfig ==
  ASSUME NEW c \in ArbConfig, NEW fees \in [Tokens -> Nat], NEW token \in Tokens,
         NEW tax \in Nat, NEW detected \in BOOLEAN, c.manipulation_tax_collected = fees
  PROVE  /\ taxed(c, fees, token, tax, detected).config \in ArbConfig
         /\ taxed(c, fees, token, tax, detected).config.last_sweep_slot = c.last_sweep_slot
         /\ taxed(c, fees, token, tax, detected).fees \in [Tokens -> Nat]
         /\ taxed(c, fees, token, tax, detected).config.manipulation_tax_collected
              = taxed(c, fees, token, tax, detected).fees
<1> DEFINE n == IF detected THEN c.manipulation_detections + 1 ELSE c.manipulation_detections
           f == [fees EXCEPT ![token] = fees[token] + tax]
           e == [c EXCEPT !.manipulation_detections = n, !.manipulation_tax_collected = f]
<1>1. n \in Nat
  BY DEF ArbConfig
<1>2. f \in [Tokens -> Nat]
  OBVIOUS
<1>3. taxed(c, fees, token, tax, detected) = [config |-> e, fees |-> f]
  <2> DEFINE g == c.manipulation_tax_collected
             a == [c EXCEPT !.manipulation_detections =
                              IF detected THEN c.manipulation_detections + 1
                              ELSE c.manipulation_detections,
                            !.manipulation_tax_collected = [g EXCEPT ![token] = g[token] + tax]]
  <2>1. taxed(c, fees, token, tax, detected)
          = [config |-> a, fees |-> [fees EXCEPT ![token] = fees[token] + tax]]
    BY DEF taxed
  <2>2. [g EXCEPT ![token] = g[token] + tax] = f
    OBVIOUS
  <2>3. a = e
    BY <2>2, Zenon
  <2> HIDE DEF a, e
  <2> QED BY <2>1, <2>3
<1> HIDE DEF n, f
<1>4. e \in ArbConfig /\ e.last_sweep_slot = c.last_sweep_slot /\ e.manipulation_tax_collected = f
  BY <1>1, <1>2 DEF ArbConfig
<1> HIDE DEF e
<1> DEFINE t == taxed(c, fees, token, tax, detected)
<1> HIDE DEF t
<1>5. t.config = e /\ t.fees = f
  BY <1>3 DEF t
<1> QED BY <1>2, <1>4, <1>5 DEF t

\* The invariant, put together again after a step.
LEMMA Reassembled ==
  ASSUME HookShape', ConfigExact', CorrectionSound'
  PROVE  ConfigInv'
BY DEF ConfigInv

\* A correction that is sound, or none, is what CorrectionSound asks for.
LEMMA SoundStep ==
  ASSUME correction' = NoCorrection \/ Sound(correction')
  PROVE  CorrectionSound'
BY DEF CorrectionSound, Sound

\* A swap, with the configuration or without it.
LEMMA SwapStep ==
  ASSUME ConfigInv, NEW s \in Swaps, NEW configs \in {arb_config, {}}, swap_v2(s, configs)
  PROVE  ConfigInv'
<1> USE DEF ConfigInv
<1>1. PICK c \in IF configs = {} THEN {[enabled |-> FALSE]} ELSE configs :
        \E h \in {pre_swap_arb_check(sqrt_price, tick, c, oracle, clock)} :
          exact_internal_v2(s, configs, h,
            configs # {} /\ s.base_input /\ detect_same_slot_manipulation(h.price, oracle, clock.now))
  BY DEF swap_v2
<1>2. PICK hook : /\ hook = pre_swap_arb_check(sqrt_price, tick, c, oracle, clock)
                  /\ exact_internal_v2(s, configs, hook,
                       configs # {} /\ s.base_input
                         /\ detect_same_slot_manipulation(hook.price, oracle, clock.now))
  BY <1>1
<1>3. /\ sqrt_price \in Nat /\ tick \in MinTick .. MaxTick - 1
      /\ protocol_fees \in [Tokens -> Nat] /\ oracle \in Ring
      /\ clock.slot \in Nat /\ clock.slot > 0 /\ clock.now \in Nat
      /\ corrected_at \in Nat /\ corrected_at <= clock.slot
  BY DEF HookShape
<1>4. /\ s.zero_for_one \in BOOLEAN /\ s.base_input \in BOOLEAN /\ s.amount \in Nat
      /\ s.limit \in Nat
  BY InputAssumption
<1>5. configs = {} => /\ hook.price = sqrt_price /\ hook.tick = tick
                      /\ hook.correction = NoCorrection
  <2> SUFFICES ASSUME configs = {} PROVE hook.price = sqrt_price /\ hook.tick = tick
                                         /\ hook.correction = NoCorrection
    OBVIOUS
  <2>1. c = [enabled |-> FALSE]
    BY <1>1
  <2>2. ~c.enabled
    BY <2>1
  <2>3. hook = [price |-> sqrt_price, tick |-> tick, config |-> c, correction |-> NoCorrection]
    BY <1>2, <2>2, Zenon DEF pre_swap_arb_check
  <2> QED BY <2>3
<1>6. configs # {} => /\ c \in arb_config /\ configs = arb_config /\ hook.price \in Nat
                      /\ hook.tick \in MinTick .. MaxTick - 1 /\ hook.config \in ArbConfig
                      /\ hook.config.manipulation_tax_collected = c.manipulation_tax_collected
                      /\ \/ hook.correction = NoCorrection /\ hook.config = c
                         \/ /\ hook.correction # NoCorrection /\ Sound(hook.correction)
                            /\ hook.config.last_sweep_slot = clock.slot
  BY <1>1, <1>2, HookOutcome
<1>7. hook.price \in Nat /\ hook.tick \in MinTick .. MaxTick - 1
  BY <1>3, <1>5, <1>6
<1> DEFINE detected == configs # {} /\ s.base_input
                         /\ detect_same_slot_manipulation(hook.price, oracle, clock.now)
           in == IF s.zero_for_one THEN 0 ELSE 1
           tax == IF detected THEN tax_of(hook.config, s.amount) ELSE 0
           after == taxed(hook.config, protocol_fees, in, tax, detected)
           target == limit_or_default(s)
           step == compute_swap(hook.price, target, Liquidity, s.amount - tax, 0,
                                s.base_input, s.zero_for_one, TRUE)
<1>8. detected \in BOOLEAN
  BY <1>4, Zenon
<1>9. /\ sqrt_price' = step.price
      /\ \E t \in get_tick_at_sqrt_price(step.price) :
           /\ tick' = t
           /\ IF t # hook.tick THEN observation_recorded(hook.tick)
              ELSE UNCHANGED <<oracle, observed>>
      /\ IF configs = {} THEN UNCHANGED <<arb_config, protocol_fees>>
         ELSE arb_config' = {after.config} /\ protocol_fees' = after.fees
      /\ correction' = hook.correction
      /\ corrected_at' = IF hook.correction = NoCorrection THEN corrected_at ELSE clock.slot
      /\ UNCHANGED clock
  BY <1>2, Zenon DEF exact_internal_v2
<1> HIDE DEF detected
<1>10. tax \in Nat /\ tax <= s.amount
  <2>1. detected => configs # {}
    BY DEF detected
  <2>2. detected => tax_of(hook.config, s.amount) \in Nat /\ tax_of(hook.config, s.amount) <= s.amount
    BY <1>4, <1>6, <2>1, TaxNat
  <2> QED BY <1>4, <2>2
<1> HIDE DEF tax
<1>11. target \in Nat
  <2>1. MinTick \in MinTick .. MaxTick /\ MaxTick \in MinTick .. MaxTick
    BY RingAssumption
  <2>2. /\ SqrtPrice[MinTick] \in Nat /\ SqrtPrice[MaxTick] \in Nat /\ SqrtPrice[MaxTick] > 0
    BY <2>1, ReferencePrice
  <2> QED BY <1>4, <2>2 DEF limit_or_default
<1> HIDE DEF target
<1>12. step.price \in Int
  <2>1. s.amount - tax \in Nat
    BY <1>4, <1>10
  <2> QED BY <1>4, <1>7, <1>11, <2>1, SwapPrice
<1> HIDE DEF step
<1>13. /\ sqrt_price' \in Nat /\ tick' \in MinTick .. MaxTick - 1
  <2>1. get_tick_at_sqrt_price(step.price) # {}
    BY <1>9
  <2>2. MinTick \in MinTick .. MaxTick
    BY RingAssumption
  <2>3. SqrtPrice[MinTick] <= step.price /\ SqrtPrice[MinTick] \in Nat
    BY <1>12, <2>1, <2>2, TickAt, ReferencePrice
  <2>4. get_tick_at_sqrt_price(step.price) \subseteq MinTick .. MaxTick - 1
    BY <1>12, TickAt
  <2> QED BY <1>9, <1>12, <2>3, <2>4
<1>14. oracle' \in Ring
  <2>1. oracle' = oracle \/ oracle' = update(oracle, clock.now, hook.tick)
    BY <1>9 DEF observation_recorded
  <2>2. hook.tick \in Int
    BY <1>7, RingAssumption
  <2> QED BY <1>3, <2>1, <2>2, UpdateRing
<1>15. /\ clock'.slot \in Nat /\ clock'.slot > 0 /\ clock'.now \in Nat
       /\ corrected_at' \in Nat /\ corrected_at' <= clock'.slot
  BY <1>3, <1>9
<1>16. configs # {} =>
         /\ after.config \in ArbConfig
         /\ after.config.last_sweep_slot = hook.config.last_sweep_slot
         /\ after.fees \in [Tokens -> Nat]
         /\ after.config.manipulation_tax_collected = after.fees
  <2> SUFFICES ASSUME configs # {} PROVE
         /\ after.config \in ArbConfig
         /\ after.config.last_sweep_slot = hook.config.last_sweep_slot
         /\ after.fees \in [Tokens -> Nat]
         /\ after.config.manipulation_tax_collected = after.fees
    OBVIOUS
  <2> DEFINE d == hook.config
             fees == protocol_fees
  <2>1. d \in ArbConfig /\ d.manipulation_tax_collected = fees
    BY <1>6 DEF ConfigExact
  <2>2. in \in Tokens
    BY DEF Tokens
  <2>3. fees \in [Tokens -> Nat]
    BY <1>3
  <2> HIDE DEF d, in, fees
  <2>4. /\ taxed(d, fees, in, tax, detected).config \in ArbConfig
        /\ taxed(d, fees, in, tax, detected).config.last_sweep_slot = d.last_sweep_slot
        /\ taxed(d, fees, in, tax, detected).fees \in [Tokens -> Nat]
        /\ taxed(d, fees, in, tax, detected).config.manipulation_tax_collected
             = taxed(d, fees, in, tax, detected).fees
    BY <1>8, <1>10, <2>1, <2>2, <2>3, TaxedConfig
  <2> QED BY <2>4 DEF d, fees
<1> HIDE DEF after, in
<1>17. HookShape'
  <2>1. protocol_fees' \in [Tokens -> Nat]
    BY <1>3, <1>9, <1>16
  <2>2. (arb_config = {} \/ \E d \in ArbConfig : arb_config = {d})'
    BY <1>9, <1>16 DEF HookShape
  <2> QED BY <1>13, <1>14, <1>15, <2>1, <2>2 DEF HookShape
<1>18. ConfigExact'
  <2>1. CASE configs = {}
    <3>1. arb_config' = arb_config /\ protocol_fees' = protocol_fees /\ corrected_at' = corrected_at
      BY <1>5, <1>9, <2>1
    <3> QED BY <3>1 DEF ConfigExact
  <2>2. CASE configs # {}
    <3>1. hook.config.last_sweep_slot = corrected_at'
      BY <1>6, <1>9, <2>2 DEF ConfigExact
    <3>2. arb_config' = {after.config} /\ protocol_fees' = after.fees
      BY <1>9, <2>2
    <3>3. after.config.last_sweep_slot = corrected_at'
          /\ after.config.manipulation_tax_collected = protocol_fees'
      BY <1>16, <2>2, <3>1, <3>2
    <3> QED BY <3>2, <3>3 DEF ConfigExact
  <2> QED BY <2>1, <2>2
<1>19. CorrectionSound'
  BY <1>5, <1>6, <1>9, SoundStep
<1> QED BY <1>17, <1>18, <1>19, Reassembled

(***************************************************************************)
(* The other instructions.                                                 *)
(***************************************************************************)
\* arb_sweep, whichever observations the authority passes.
LEMMA SweepStep ==
  ASSUME ConfigInv, arb_sweep
  PROVE  ConfigInv'
<1> USE DEF ConfigInv
<1>1. PICK c \in arb_config : \E o \in {oracle} \cup {RingAfter(h.observations) : h \in Histories} :
        \E x \in get_twap_tick(o, clock.now) : sweep(c, o, x)
  BY DEF arb_sweep
<1>2. PICK o \in {oracle} \cup {RingAfter(h.observations) : h \in Histories} :
        \E x \in get_twap_tick(o, clock.now) : sweep(c, o, x)
  BY <1>1
<1>3. PICK x \in get_twap_tick(o, clock.now) : sweep(c, o, x)
  BY <1>2
<1> DEFINE p == sqrt_price
           r == SqrtPrice[x]
           b == calculate_spread(p, r).a_to_b
           amount == calculate_sweep_amount(c, p, r)
           gain == profit(p, amount, b)
           share == (gain * c.treasury_share_bps) \div Bps
           q == apply_arb(p, amount, b)
           raised == c.min_sweep_amount > raw_amount(p, r)
           present == clock.slot
           d == swept(credited(c, b, share), present)
           k == [path |-> "instruction", from |-> p, to |-> q, reference |-> r, raised |-> raised,
                 since |-> present - corrected_at, cooldown |-> c.cooldown_slots]
<1>4. /\ cooled(c, present) /\ sqrt_price' = q
      /\ \E t \in get_tick_at_sqrt_price(q) : tick' = t
      /\ arb_config' = {d} /\ correction' = k /\ corrected_at' = present
      /\ UNCHANGED <<protocol_fees, oracle, clock>>
  BY <1>3, Zenon DEF sweep
<1>5. /\ p \in Nat /\ oracle \in Ring /\ present \in Nat /\ present > 0 /\ clock.now \in Nat
      /\ c \in ArbConfig /\ c.last_sweep_slot = corrected_at /\ corrected_at \in Nat
      /\ protocol_fees \in [Tokens -> Nat] /\ c.manipulation_tax_collected = protocol_fees
  BY DEF HookShape, ConfigExact
<1>6. o \in Ring
  <2>1. CASE o = oracle
    BY <1>5, <2>1
  <2>2. CASE \E h \in Histories : o = RingAfter(h.observations)
    <3>1. PICK h \in Histories : o = RingAfter(h.observations)
      BY <2>2
    <3>2. h.observations \in Seq([time : Nat, tick : Int])
      BY InputAssumption
    <3> QED BY <3>1, <3>2, RingAfterRing
  <2> QED BY <2>1, <2>2
<1>7. r \in Nat /\ r > 0
  <2>1. x \in MinTick .. MaxTick
    BY <1>5, <1>6, ReferenceTick
  <2> QED BY <2>1, ReferencePrice
<1> HIDE DEF p, r, present
<1>8. /\ amount \in Nat /\ b \in BOOLEAN /\ q \in Nat
      /\ p > r => q <= p /\ (raised \/ q >= r)
      /\ p <= r => q >= p /\ (raised \/ q <= r)
  BY <1>5, <1>7, SweepSound
<1> HIDE DEF amount, b, q, raised
<1>9. share \in Nat
  <2>1. gain \in Nat
    BY <1>5, <1>8, ProfitNat
  <2> HIDE DEF gain
  <2>2. c.treasury_share_bps \in Nat /\ Bps \in Nat /\ Bps > 0
    BY <1>5, HookAssumption DEF ArbConfig
  <2>3. gain * c.treasury_share_bps \in Nat
    BY <2>1, <2>2
  <2> QED BY <2>2, <2>3, DivBounds
<1> HIDE DEF share
<1>10. d \in ArbConfig /\ d.last_sweep_slot = present /\ d.manipulation_tax_collected = protocol_fees
  <2>1. /\ swept(credited(c, b, share), present) \in ArbConfig
        /\ swept(credited(c, b, share), present).last_sweep_slot = present
        /\ swept(credited(c, b, share), present).manipulation_tax_collected
             = c.manipulation_tax_collected
    <3>1. c \in ArbConfig /\ b \in BOOLEAN /\ present \in Nat
      BY <1>5, <1>8
    <3> QED BY <1>9, <3>1, SweptConfig
  <2> QED BY <1>5, <2>1
<1>11. Sound(k)
  <2>1. present - corrected_at >= c.cooldown_slots
    <3>1. c.cooldown_slots \in Nat
      BY <1>5 DEF ArbConfig
    <3> QED BY <1>4, <1>5, <3>1 DEF cooled
  <2> QED BY <1>8, <2>1 DEF Sound
<1> HIDE DEF k, d
<1>12. tick' \in MinTick .. MaxTick - 1
  <2>1. get_tick_at_sqrt_price(q) \subseteq MinTick .. MaxTick - 1
    BY <1>8, TickAt
  <2> QED BY <1>4, <2>1
<1>13. HookShape'
  <2>1. clock'.slot = present /\ clock'.now = clock.now
    BY <1>4 DEF present
  <2>2. (arb_config = {} \/ \E e \in ArbConfig : arb_config = {e})'
    BY <1>4, <1>10
  <2>3. present <= present
    BY <1>5
  <2> QED BY <1>4, <1>5, <1>8, <1>12, <2>1, <2>2, <2>3 DEF HookShape
<1>14. ConfigExact'
  BY <1>4, <1>10 DEF ConfigExact
<1>15. CorrectionSound'
  BY <1>4, <1>11, SoundStep
<1> QED BY <1>13, <1>14, <1>15, Reassembled

\* init_arb_config, once for a pool: nothing was corrected or taxed before.
LEMMA InitConfigStep ==
  ASSUME ConfigInv, NEW a \in ArbConfigs, init_arb_config(a)
  PROVE  ConfigInv'
<1> USE DEF ConfigInv
<1> DEFINE t == IF a.manipulation_tax_bps = 0 THEN DefaultTax ELSE a.manipulation_tax_bps
           f == [i \in Tokens |-> 0]
           c == [min_spread_bps |-> a.min_spread_bps, treasury_share_bps |-> a.treasury_share_bps,
                 twap_window_seconds |-> a.twap_window_seconds,
                 min_sweep_amount |-> a.min_sweep_amount, max_sweep_amount |-> a.max_sweep_amount,
                 cooldown_slots |-> a.cooldown_slots, manipulation_tax_bps |-> t,
                 last_sweep_slot |-> 0, total_profit_captured_a |-> 0,
                 total_profit_captured_b |-> 0, enabled |-> TRUE,
                 manipulation_tax_collected |-> f, manipulation_detections |-> 0]
<1>1. /\ arb_config = {} /\ arb_config' = {c} /\ correction' = NoCorrection
      /\ UNCHANGED <<poolVars, oracle, clock, corrected_at>>
  BY Zenon DEF init_arb_config
<1>2. a \in ArbParameters /\ DefaultTax \in Nat
  BY InputAssumption
<1>3. t \in Nat
  BY <1>2 DEF ArbParameters
<1>4. f \in [Tokens -> Nat]
  OBVIOUS
<1>5. corrected_at = 0 /\ protocol_fees = f
  BY <1>1 DEF ConfigExact
<1> HIDE DEF t, f
<1>6. c \in ArbConfig
  BY <1>2, <1>3, <1>4 DEF ArbConfig, ArbParameters
<1>7. c.last_sweep_slot = 0 /\ c.manipulation_tax_collected = f
  OBVIOUS
<1> HIDE DEF c
<1>8. HookShape'
  BY <1>1, <1>6 DEF HookShape, poolVars
<1>9. ConfigExact'
  BY <1>1, <1>5, <1>7 DEF ConfigExact, poolVars
<1> QED BY <1>1, <1>8, <1>9, SoundStep, Reassembled

\* update_manipulation_tax and toggle_arb.
LEMMA SettingStep ==
  ASSUME ConfigInv,
         \/ \E x \in Taxes : update_manipulation_tax(x)
         \/ \E b \in BOOLEAN : toggle_arb(b)
  PROVE  ConfigInv'
<1> USE DEF ConfigInv
<1>1. PICK c \in ArbConfig : arb_config = {c}
  <2>1. arb_config # {}
    BY DEF update_manipulation_tax, toggle_arb
  <2> QED BY <2>1 DEF HookShape
<1>2. PICK d \in ArbConfig : /\ arb_config' = {d} /\ d.last_sweep_slot = c.last_sweep_slot
                             /\ d.manipulation_tax_collected = c.manipulation_tax_collected
  <2>1. CASE \E x \in Taxes : update_manipulation_tax(x)
    <3>1. PICK x \in Taxes : arb_config' = {[e EXCEPT !.manipulation_tax_bps = x] : e \in arb_config}
      BY <2>1 DEF update_manipulation_tax
    <3> DEFINE d == [c EXCEPT !.manipulation_tax_bps = x]
    <3>2. arb_config' = {d}
      BY <1>1, <3>1
    <3>3. x \in Nat
      BY InputAssumption
    <3>4. d \in ArbConfig /\ d.last_sweep_slot = c.last_sweep_slot
          /\ d.manipulation_tax_collected = c.manipulation_tax_collected
      BY <3>3 DEF ArbConfig
    <3> HIDE DEF d
    <3> QED BY <3>2, <3>4
  <2>2. CASE \E b \in BOOLEAN : toggle_arb(b)
    <3>1. PICK b \in BOOLEAN : arb_config' = {[e EXCEPT !.enabled = b] : e \in arb_config}
      BY <2>2 DEF toggle_arb
    <3> DEFINE d == [c EXCEPT !.enabled = b]
    <3>2. arb_config' = {d}
      BY <1>1, <3>1
    <3>4. d \in ArbConfig /\ d.last_sweep_slot = c.last_sweep_slot
          /\ d.manipulation_tax_collected = c.manipulation_tax_collected
      BY DEF ArbConfig
    <3> HIDE DEF d
    <3> QED BY <3>2, <3>4
  <2> QED BY <2>1, <2>2
<1>3. correction' = NoCorrection /\ UNCHANGED <<poolVars, oracle, clock, corrected_at>>
  BY DEF update_manipulation_tax, toggle_arb
<1>4. HookShape'
  BY <1>2, <1>3 DEF HookShape, poolVars
<1>5. ConfigExact'
  BY <1>1, <1>2, <1>3 DEF ConfigExact, poolVars
<1> QED BY <1>3, <1>4, <1>5, SoundStep, Reassembled

\* Time passes, or anyone pays the pool authority.
LEMMA OutsideStep ==
  ASSUME ConfigInv, fund_authority \/ \E step \in Steps : advance_clock(step)
  PROVE  ConfigInv'
<1> USE DEF ConfigInv
<1>1. /\ correction' = NoCorrection
      /\ UNCHANGED <<poolVars, oracle, arb_config, corrected_at>>
  BY DEF fund_authority, advance_clock
<1>2. clock'.slot \in Nat /\ clock'.now \in Nat /\ clock'.slot >= clock.slot
  <2>1. clock.slot \in Nat /\ clock.now \in Nat
    BY DEF HookShape
  <2>2. CASE fund_authority
    BY <2>1, <2>2 DEF fund_authority
  <2>3. CASE \E step \in Steps : advance_clock(step)
    <3>1. PICK step \in Steps : clock' = [slot |-> clock.slot + step[1], now |-> clock.now + step[2]]
      BY <2>3 DEF advance_clock
    <3>2. step[1] \in Nat /\ step[2] \in Nat
      BY InputAssumption
    <3> QED BY <2>1, <3>1, <3>2
  <2> QED BY <2>2, <2>3
<1>3. HookShape'
  BY <1>1, <1>2 DEF HookShape, poolVars
<1>4. ConfigExact'
  BY <1>1 DEF ConfigExact, poolVars
<1> QED BY <1>1, <1>3, <1>4, SoundStep, Reassembled

\* The invariant holds at the start.
LEMMA HooksStart ==
  ASSUME HooksInit
  PROVE  ConfigInv
<1>1. PICK h \in Histories, t \in MinTick + 1 .. MaxTick - 1 :
        /\ oracle = RingAfter(h.observations) /\ tick = t /\ sqrt_price = SqrtPrice[t]
        /\ clock = [slot |-> 1, now |-> h.now]
  BY DEF HooksInit
<1>2. /\ protocol_fees = [i \in Tokens |-> 0] /\ arb_config = {} /\ corrected_at = 0
      /\ correction = NoCorrection
  BY DEF HooksInit
<1>3. h.observations \in Seq([time : Nat, tick : Int]) /\ h.now \in Nat
  BY InputAssumption
<1>4. oracle \in Ring
  BY <1>1, <1>3, RingAfterRing
<1>5. t \in MinTick .. MaxTick - 1 /\ t \in MinTick .. MaxTick
  BY RingAssumption
<1>6. SqrtPrice[t] \in Nat
  BY <1>5, ReferencePrice
<1>7. clock.slot = 1 /\ clock.now = h.now
  BY <1>1
<1>8. HookShape
  BY <1>1, <1>2, <1>3, <1>4, <1>5, <1>6, <1>7 DEF HookShape
<1>9. ConfigExact
  BY <1>2 DEF ConfigExact
<1>10. CorrectionSound
  BY <1>2 DEF CorrectionSound
<1> QED BY <1>8, <1>9, <1>10 DEF ConfigInv

\* Every correction of the price, by the hook before a swap or by arb_sweep with
\* whichever observations, moves it towards its reference, past it only where the
\* smallest sweep amount is more than the gap asks for, and comes no sooner after
\* the last than the cooldown: for every pool, price table, history of
\* observations and configuration.
THEOREM CorrectionsCorrect == Spec => []CorrectionSound
<1>1. Init => ConfigInv
  BY HooksStart DEF Init
<1>2. ConfigInv /\ [Next]_vars => ConfigInv'
  <2> SUFFICES ASSUME ConfigInv, [Next]_vars PROVE ConfigInv'
    OBVIOUS
  <2>1. CASE UNCHANGED hookVars
    BY <2>1 DEF hookVars, poolVars, ConfigInv, HookShape, ConfigExact, CorrectionSound
  <2>2. CASE HooksNext
    <3>1. HooksStep
      BY <2>2 DEF HooksNext
    <3> QED BY <3>1, SwapStep, SweepStep, InitConfigStep, SettingStep, OutsideStep DEF HooksStep
  <2>3. UNCHANGED hookVars \/ HooksNext
    BY DEF Next, vars
  <2> QED BY <2>1, <2>2, <2>3
<1>3. ConfigInv => CorrectionSound
  BY DEF ConfigInv
<1> QED BY <1>1, <1>2, <1>3, PTL DEF Spec

(***************************************************************************)
(* The amounts of a position, rounded.                                     *)
(***************************************************************************)
\* Division that rounds up.
LEMMA CeilBounds ==
  ASSUME NEW a \in Nat, NEW d \in Nat, d > 0
  PROVE  (a + d - 1) \div d \in Nat /\ a <= d * ((a + d - 1) \div d)
<1> DEFINE n == a + d - 1
<1>1. n \in Nat /\ n + 1 = a + d
  OBVIOUS
<1> HIDE DEF n
<1>2. n \div d \in Nat /\ n < d * (n \div d) + d
  BY <1>1, DivBounds
<1> DEFINE x == n \div d
           y == d * x
<1>3. y \in Nat
  BY <1>2
<1> HIDE DEF x, y
<1>4. a <= y
  BY <1>1, <1>2, <1>3 DEF x, y
<1> QED BY <1>2, <1>4 DEF x, y, n

\* A product is smaller only when its factor is.
LEMMA Cancel ==
  ASSUME NEW k \in Nat, k > 0, NEW a \in Int, NEW b \in Int, k * a <= k * b
  PROVE  a <= b
<1> SUFFICES ASSUME a > b PROVE FALSE
  OBVIOUS
<1>1. PICK d \in Nat : a = b + d /\ d > 0
  <2>1. a - b \in Nat /\ a - b > 0 /\ a = b + (a - b)
    OBVIOUS
  <2> QED BY <2>1
<1>2. k * a = k * b + k * d
  BY <1>1
<1>3. k * d > 0
  BY <1>1
<1> DEFINE u == k * a
           v == k * b
           w == k * d
<1>4. u \in Int /\ v \in Int /\ w \in Int
  BY <1>1
<1> HIDE DEF u, v, w
<1> QED BY <1>2, <1>3, <1>4 DEF u, v, w

\* Token 0 between two prices, rounded down: the largest amount worth no more.
LEMMA Amount0Floor ==
  ASSUME NEW a \in Nat, NEW b \in Nat, a > 0, a <= b
  PROVE  LET x == amount_0_between(a, b, Liquidity, FALSE)
             n == Liquidity * Q64
         IN /\ x \in Nat
            /\ b * (a * x) <= n * (b - a)
            /\ n * (b - a) < b * (a * x + a)
<1> DEFINE n == Liquidity * Q64
           g == b - a
           w == n * g
           m == w \div b
           x == m \div a
<1>1. n \in Nat /\ g \in Nat /\ b > 0
  BY HookAssumption
<1> HIDE DEF n, g
<1>2. w \in Nat
  BY <1>1
<1> HIDE DEF w
<1>3. m \in Nat /\ b * m <= w /\ w < b * m + b
  BY <1>1, <1>2, DivBounds
<1> HIDE DEF m
<1>4. x \in Nat /\ a * x <= m /\ m < a * x + a
  BY <1>3, DivBounds
<1> DEFINE y == a * x
<1>5. y \in Nat
  BY <1>4
<1> HIDE DEF x, y
<1>6. y <= m /\ m + 1 <= y + a
  BY <1>3, <1>4, <1>5 DEF y
<1>7. b * y <= b * m
  BY <1>3, <1>5, <1>6, MulMono
<1>8. b * (m + 1) <= b * (y + a)
  BY <1>3, <1>5, <1>6, MulMono
<1>9. b * (m + 1) = b * m + b
  BY <1>3
<1> DEFINE s == b * y
           t == b * m
           u == b * (y + a)
<1>10. s \in Nat /\ t \in Nat /\ u \in Nat
  BY <1>3, <1>5
<1> HIDE DEF s, t, u
<1>11. s <= w /\ w < u
  BY <1>2, <1>3, <1>7, <1>8, <1>9, <1>10 DEF s, t, u
<1>12. amount_0_between(a, b, Liquidity, FALSE) = x
  BY DEF amount_0_between, mul_div_floor, x, m, w, n, g
<1> QED BY <1>4, <1>11, <1>12 DEF s, u, y, w, n, g

\* Token 0 between two prices, rounded up, is worth at least as much.
LEMMA Amount0Ceil ==
  ASSUME NEW a \in Nat, NEW b \in Nat, a > 0, a <= b
  PROVE  LET x == amount_0_between(a, b, Liquidity, TRUE)
         IN x \in Nat /\ (Liquidity * Q64) * (b - a) <= b * (a * x)
<1> DEFINE n == Liquidity * Q64
           g == b - a
           w == n * g
           m == (w + b - 1) \div b
           x == (m + a - 1) \div a
<1>1. n \in Nat /\ g \in Nat /\ b > 0
  BY HookAssumption
<1> HIDE DEF n, g
<1>2. w \in Nat
  BY <1>1
<1> HIDE DEF w
<1>3. m \in Nat /\ w <= b * m
  BY <1>1, <1>2, CeilBounds
<1> HIDE DEF m
<1>4. x \in Nat /\ m <= a * x
  BY <1>3, CeilBounds
<1> DEFINE y == a * x
<1>5. y \in Nat
  BY <1>4
<1> HIDE DEF x, y
<1>6. b * m <= b * y
  BY <1>3, <1>4, <1>5, MulMono DEF y
<1> DEFINE s == b * y
           t == b * m
<1>10. s \in Nat /\ t \in Nat
  BY <1>3, <1>5
<1> HIDE DEF s, t
<1>11. w <= s
  BY <1>2, <1>3, <1>6, <1>10 DEF s, t
<1>12. amount_0_between(a, b, Liquidity, TRUE) = x
  BY DEF amount_0_between, mul_div_ceil, div_rounding_up, x, m, w, n, g
<1> QED BY <1>4, <1>11, <1>12 DEF s, y, w, n, g

\* What is worth no more between two stretches is worth no more over both.
LEMMA Split0 ==
  ASSUME NEW n \in Nat, NEW p \in Nat, NEW q \in Nat, NEW u \in Nat, p > 0, p <= q, q <= u,
         NEW a \in Nat, NEW b \in Nat, u * (q * a) <= n * (u - q), q * (p * b) <= n * (q - p)
  PROVE  u * (p * (a + b)) <= n * (u - p)
<1> DEFINE s == u * (q * a)
           t == n * (u - q)
           v == q * (p * b)
           w == n * (q - p)
           x == u * (p * (a + b))
           y == n * (u - p)
<1>1. s \in Nat /\ t \in Nat /\ v \in Nat /\ w \in Nat /\ x \in Nat /\ y \in Nat
  <2>1. u - q \in Nat /\ q - p \in Nat /\ u - p \in Nat /\ a + b \in Nat
    OBVIOUS
  <2>2. q * a \in Nat /\ p * b \in Nat /\ p * (a + b) \in Nat
    BY <2>1
  <2> QED BY <2>1, <2>2
<1>2. q * x = p * s + u * v
  OBVIOUS
<1>3. q * y = p * t + u * w
  OBVIOUS
<1>4. s <= t /\ v <= w
  OBVIOUS
<1> HIDE DEF s, t, v, w, x, y
<1>5. p * s <= p * t /\ u * v <= u * w
  BY <1>1, <1>4, MulMono
<1> DEFINE c1 == p * s
           c2 == u * v
           c3 == p * t
           c4 == u * w
           qx == q * x
           qy == q * y
<1>6. c1 \in Nat /\ c2 \in Nat /\ c3 \in Nat /\ c4 \in Nat /\ qx \in Nat /\ qy \in Nat
  BY <1>1
<1> HIDE DEF c1, c2, c3, c4, qx, qy
<1>7. qx <= qy
  BY <1>2, <1>3, <1>5, <1>6 DEF c1, c2, c3, c4, qx, qy
<1>8. q > 0 /\ x \in Int /\ y \in Int
  BY <1>1
<1>9. q * x <= q * y
  BY <1>7 DEF qx, qy
<1>10. x <= y
  BY <1>8, <1>9, Cancel
<1> QED BY <1>10 DEF x, y

\* What covers the upper stretch, with what covers the lower one, covers both.
LEMMA Join0 ==
  ASSUME NEW n \in Nat, NEW p \in Nat, NEW q \in Nat, NEW u \in Nat, q > 0, q <= p, p <= u,
         NEW f \in Nat, NEW y \in Nat, NEW a \in Nat,
         n * (u - p) < u * (p * f + p), n * (p - q) <= p * (q * y), u * (q * a) <= n * (u - q)
  PROVE  a <= f + y
<1> SUFFICES ASSUME a >= f + y + 1 PROVE FALSE
  OBVIOUS
<1> DEFINE k == u * (p * q)
           s == u * (q * a)
           t == n * (u - q)
           v == n * (u - p)
           w == n * (p - q)
           x == u * (p * f + p)
           z == p * (q * y)
<1>1. /\ k \in Nat /\ s \in Nat /\ t \in Nat /\ v \in Nat /\ w \in Nat /\ x \in Nat /\ z \in Nat
  <2>1. u - q \in Nat /\ p - q \in Nat /\ u - p \in Nat
    OBVIOUS
  <2>2. q * a \in Nat /\ q * y \in Nat /\ p * f + p \in Nat /\ p * q \in Nat
    OBVIOUS
  <2> QED BY <2>1, <2>2
<1>2. p * s = k * a
  OBVIOUS
<1>3. p * t = q * v + u * w
  OBVIOUS
<1>4. q * x + u * z = k * (f + y + 1)
  OBVIOUS
<1>5. s <= t /\ v + 1 <= x /\ w <= z
  <2>1. v < x /\ s <= t /\ w <= z
    OBVIOUS
  <2> HIDE DEF s, t, v, w, x, z
  <2> QED BY <1>1, <2>1
<1> HIDE DEF k, s, t, v, w, x, z
<1>6. p * s <= p * t /\ q * (v + 1) <= q * x /\ u * w <= u * z
  BY <1>1, <1>5, MulMono
<1>7. k * (f + y + 1) <= k * a
  BY <1>1, MulMono
<1>8. q * (v + 1) = q * v + q
  BY <1>1
<1> DEFINE ps == p * s
           pt == p * t
           qv == q * v
           qx == q * x
           uw == u * w
           uz == u * z
           ka == k * a
           kb == k * (f + y + 1)
<1>9. /\ ps \in Nat /\ pt \in Nat /\ qv \in Nat /\ qx \in Nat /\ uw \in Nat /\ uz \in Nat
      /\ ka \in Nat /\ kb \in Nat
  BY <1>1
<1>10. /\ ps = ka /\ pt = qv + uw /\ qx + uz = kb /\ ps <= pt /\ qv + q <= qx /\ uw <= uz
       /\ kb <= ka
  BY <1>2, <1>3, <1>4, <1>6, <1>7, <1>8
<1> HIDE DEF ps, pt, qv, qx, uw, uz, ka, kb
<1> QED BY <1>9, <1>10

\* Token 1 between two prices: the parts rounded down are no more than the whole,
\* and the whole is no more than a part rounded down and one rounded up.
LEMMA Amount1 ==
  ASSUME NEW l \in Nat, NEW a \in Nat, NEW b \in Nat, NEW d \in Nat, d > 0
  PROVE  LET whole == (l * (a + b)) \div d
         IN /\ whole \in Nat
            /\ (l * a) \div d \in Nat /\ (l * b) \div d \in Nat
            /\ (l * b + d - 1) \div d \in Nat
            /\ (l * a) \div d + (l * b) \div d <= whole
            /\ whole <= (l * a) \div d + (l * b + d - 1) \div d
<1> DEFINE x == l * a
           y == l * b
           f == x \div d
           g == y \div d
           h == (y + d - 1) \div d
           w == (l * (a + b)) \div d
<1>1. x \in Nat /\ y \in Nat /\ l * (a + b) = x + y
  OBVIOUS
<1> HIDE DEF x, y
<1>2. /\ f \in Nat /\ d * f <= x /\ x < d * f + d
      /\ g \in Nat /\ d * g <= y
      /\ h \in Nat /\ y <= d * h
  BY <1>1, DivBounds, CeilBounds
<1>3. w \in Nat /\ d * w <= x + y /\ x + y < d * w + d
  BY <1>1, DivBounds
<1> HIDE DEF f, g, h, w
<1> DEFINE df == d * f
           dg == d * g
           dh == d * h
           dw == d * w
<1>4. df \in Nat /\ dg \in Nat /\ dh \in Nat /\ dw \in Nat
  BY <1>2, <1>3
<1>5. f + g <= w
  <2> SUFFICES ASSUME w + 1 <= f + g PROVE FALSE
    BY <1>2, <1>3
  <2>1. d * (w + 1) <= d * (f + g)
    BY <1>2, <1>3, MulMono
  <2>2. dw + d <= df + dg
    BY <1>2, <1>3, <2>1
  <2> HIDE DEF df, dg, dh, dw
  <2> QED BY <1>1, <1>2, <1>3, <1>4, <2>2 DEF df, dg, dw
<1>6. w <= f + h
  <2> SUFFICES ASSUME f + h + 1 <= w PROVE FALSE
    BY <1>2, <1>3
  <2>1. d * (f + h + 1) <= d * w
    BY <1>2, <1>3, MulMono
  <2>2. df + dh + d <= dw
    BY <1>2, <1>3, <2>1
  <2> HIDE DEF df, dg, dh, dw
  <2> QED BY <1>1, <1>2, <1>3, <1>4, <2>2 DEF df, dh, dw
<1> QED BY <1>2, <1>3, <1>5, <1>6 DEF x, y, f, g, h, w

\* A quotient rounded up is at most b when the dividend is at most b * d.
LEMMA CeilLe ==
  ASSUME NEW a \in Nat, NEW b \in Nat, NEW d \in Nat, d > 0, a <= b * d
  PROVE  (a + d - 1) \div d <= b
<1> DEFINE n == a + d - 1
           e == b * d
           x == n \div d
<1>1. n \in Nat /\ e \in Nat /\ n < e + d
  OBVIOUS
<1>2. e + d = d * (b + 1)
  OBVIOUS
<1> HIDE DEF n, e
<1>3. x \in Nat /\ d * x <= n
  BY <1>1, DivBounds
<1> HIDE DEF x
<1> SUFFICES ASSUME b + 1 <= x PROVE FALSE
  BY <1>3 DEF x, n
<1>4. d * (b + 1) <= d * x
  BY <1>3, MulMono
<1> DEFINE dx == d * x
           db == d * (b + 1)
<1>5. dx \in Nat /\ db \in Nat
  BY <1>3
<1> HIDE DEF dx, db
<1> QED BY <1>1, <1>2, <1>3, <1>4, <1>5 DEF dx, db

\* An input moves the price in the direction of the swap.
LEMMA InputDirection ==
  ASSUME NEW p \in Nat, NEW a \in Nat, NEW zero_for_one \in BOOLEAN
  PROVE  LET q == get_next_sqrt_price_from_input(p, Liquidity, a, zero_for_one)
         IN IF zero_for_one THEN q <= p ELSE q >= p
<1> DEFINE L == Liquidity
           m == L * Q64
<1>1. L \in Nat /\ L > 0 /\ Q64 \in Nat
  BY HookAssumption
<1>2. m \in Nat /\ m > 0
  BY HookAssumption
<1>3. (a * Q64) \div L \in Nat
  <2>1. a * Q64 \in Nat
    BY <1>1
  <2> QED BY <1>1, <2>1, DivBounds
<1> DEFINE e == a * p
           d == m + e
           n == m * p
<1> HIDE DEF L, m
<1>4. e \in Nat /\ n \in Nat
  BY <1>2
<1>5. d \in Nat /\ d > 0 /\ n <= p * d
  <2>1. d \in Nat /\ d > 0
    <3> HIDE DEF e
    <3> QED BY <1>2, <1>4
  <2>2. p * d = n + p * e /\ p * e \in Nat
    <3> HIDE DEF e
    <3> QED BY <1>2, <1>4
  <2> DEFINE pd == p * d
             pe == p * e
  <2> HIDE DEF n, d, pd, pe
  <2>3. n <= pd
    BY <1>4, <2>2 DEF pd, pe
  <2> QED BY <2>1, <2>3 DEF pd
<1> HIDE DEF n, d
<1>6. (n + d - 1) \div d <= p
  BY <1>4, <1>5, CeilLe
<1>7. get_next_sqrt_price_from_input(p, L, a, zero_for_one)
        = IF zero_for_one THEN (n + d - 1) \div d ELSE p + (a * Q64) \div L
  BY Zenon DEF get_next_sqrt_price_from_input, mul_div_ceil, n, d, e, m
<1> DEFINE k == (a * Q64) \div L
<1>8. p + k >= p
  <2> HIDE DEF k
  <2> QED BY <1>3 DEF k
<1> QED BY <1>6, <1>7, <1>8 DEF L

\* So does an output, where there is a price.
LEMMA OutputDirection ==
  ASSUME NEW p \in Nat, NEW a \in Nat, NEW zero_for_one \in BOOLEAN,
         get_next_sqrt_price_from_output(p, Liquidity, a, zero_for_one) >= 0
  PROVE  LET q == get_next_sqrt_price_from_output(p, Liquidity, a, zero_for_one)
         IN IF zero_for_one THEN q <= p ELSE q >= p
<1> DEFINE L == Liquidity
           m == L * Q64
           e == a * p
           d == m - e
           n == m * p
           k == a * Q64
           w == (k + L - 1) \div L
           c == (n + d - 1) \div d
<1>1. L \in Nat /\ L > 0 /\ Q64 \in Nat
  BY HookAssumption
<1>2. m \in Nat /\ m > 0 /\ k \in Nat
  BY HookAssumption
<1>3. get_next_sqrt_price_from_output(p, L, a, zero_for_one)
        = IF zero_for_one THEN (IF p >= w THEN p - w ELSE -1) ELSE (IF m > e THEN c ELSE -1)
  BY Zenon DEF get_next_sqrt_price_from_output, mul_div_ceil, div_rounding_up
<1> HIDE DEF L, m, k
<1>4. w \in Nat
  BY <1>1, <1>2, CeilBounds
<1> HIDE DEF w
<1>5. e \in Nat /\ n \in Nat
  BY <1>2
<1>6. m > e => c >= p
  <2> SUFFICES ASSUME m > e PROVE c >= p
    OBVIOUS
  <2>1. d \in Nat /\ d > 0 /\ d <= m
    <3> HIDE DEF e
    <3> QED BY <1>2, <1>5
  <2>2. n = p * m
    BY <1>2
  <2> HIDE DEF n, d
  <2>3. c \in Nat /\ n <= d * c
    BY <1>5, <2>1, CeilBounds
  <2> HIDE DEF c
  <2>4. p * d <= p * m
    BY <1>2, <2>1, MulMono
  <2>5. d * p <= d * c
    <3> DEFINE pd == p * d
               dp == d * p
               pm == p * m
               dc == d * c
    <3>1. pd \in Nat /\ pm \in Nat /\ dc \in Nat /\ dp = pd
      BY <1>2, <2>1, <2>3
    <3> HIDE DEF pd, dp, pm, dc
    <3> QED BY <2>2, <2>3, <2>4, <3>1, <1>5 DEF pd, dp, pm, dc
  <2>6. d \in Nat /\ d > 0 /\ p \in Int /\ c \in Int
    BY <2>1, <2>3
  <2>7. p <= c
    BY <2>5, <2>6, Cancel
  <2> QED BY <2>3, <2>7
<1> HIDE DEF c, e
<1> QED BY <1>3, <1>4, <1>6 DEF L

(***************************************************************************)
(* The position covered: what it is worth at the price of the pool, in     *)
(* either token, is in the vaults.                                         *)
(***************************************************************************)
lower == SqrtPrice[MinTick]
upper == SqrtPrice[MaxTick]
worth_0(p) == amount_0_between(p, upper, Liquidity, FALSE)
worth_1(p) == (Liquidity * (p - lower)) \div Q64

\* The ends of the price table.
LEMMA Ends ==
  /\ lower \in Nat /\ lower > 0 /\ upper \in Nat /\ lower < upper
  /\ \A t \in MinTick .. MaxTick : lower <= SqrtPrice[t] /\ SqrtPrice[t] <= upper
<1>1. /\ MinTick \in MinTick .. MaxTick /\ MaxTick \in MinTick .. MaxTick /\ MinTick < MaxTick
      /\ MinTick \in Int /\ MaxTick \in Int
  BY RingAssumption
<1>2. \A t, u \in MinTick .. MaxTick : t < u => SqrtPrice[t] < SqrtPrice[u]
  BY HookAssumption
<1>3. \A t \in MinTick .. MaxTick : SqrtPrice[t] \in Nat /\ SqrtPrice[t] > 0
  BY ReferencePrice
<1>4. lower \in Nat /\ lower > 0 /\ upper \in Nat /\ lower < upper
  BY <1>1, <1>2, <1>3 DEF lower, upper
<1>5. ASSUME NEW t \in MinTick .. MaxTick
      PROVE  lower <= SqrtPrice[t] /\ SqrtPrice[t] <= upper
  <2>1. t = MinTick \/ MinTick < t
    BY <1>1
  <2>2. t = MaxTick \/ t < MaxTick
    BY <1>1
  <2>3. lower <= SqrtPrice[t]
    BY <1>1, <1>2, <1>3, <2>1 DEF lower
  <2>4. SqrtPrice[t] <= upper
    BY <1>1, <1>2, <1>3, <2>2 DEF upper
  <2> QED BY <2>3, <2>4
<1> QED BY <1>4, <1>5

\* What the position is worth, and no more than what it is opened with.
LEMMA PositionWorth ==
  ASSUME NEW p \in Nat, lower <= p, p <= upper, NEW t \in MinTick .. MaxTick - 1
  PROVE  /\ worth_0(p) \in Nat /\ worth_1(p) \in Nat
         /\ liquidity_amounts(p, t, FALSE)[1] = worth_0(p)
         /\ liquidity_amounts(p, t, FALSE)[2] = worth_1(p)
         /\ liquidity_amounts(p, t, TRUE)[1] \in Nat /\ liquidity_amounts(p, t, TRUE)[2] \in Nat
         /\ worth_0(p) <= liquidity_amounts(p, t, TRUE)[1]
         /\ worth_1(p) <= liquidity_amounts(p, t, TRUE)[2]
<1> DEFINE L == Liquidity
           n == L * Q64
           g == p - lower
           w == L * g
           up == (w + Q64 - 1) \div Q64
           x == amount_0_between(p, upper, L, FALSE)
           y == amount_0_between(p, upper, L, TRUE)
<1>1. L \in Nat /\ Q64 \in Nat /\ Q64 > 0 /\ n \in Nat /\ g \in Nat /\ p > 0
      /\ upper - p \in Nat /\ upper \in Nat /\ upper > 0 /\ lower \in Nat
  BY HookAssumption, Ends
<1>2. w \in Nat
  <2> HIDE DEF g
  <2> QED BY <1>1
<1>3. ~(t < MinTick) /\ t < MaxTick
  BY RingAssumption
<1>4. \A b \in BOOLEAN :
        liquidity_amounts(p, t, b) = <<get_delta_amount_0_unsigned(p, upper, L, b),
                                       get_delta_amount_1_unsigned(lower, p, L, b)>>
  BY <1>3, Zenon DEF liquidity_amounts, get_delta_amounts_signed, lower, upper
<1>5. /\ get_delta_amount_0_unsigned(p, upper, L, FALSE) = x
      /\ get_delta_amount_0_unsigned(p, upper, L, TRUE) = y
  BY Zenon DEF get_delta_amount_0_unsigned
<1>6. /\ get_delta_amount_1_unsigned(lower, p, L, FALSE) = worth_1(p)
      /\ get_delta_amount_1_unsigned(lower, p, L, TRUE) = up
  BY Zenon DEF get_delta_amount_1_unsigned, mul_div_floor, mul_div_ceil, worth_1
<1>7. worth_0(p) = x
  BY DEF worth_0
<1>8. worth_1(p) \in Nat /\ up \in Nat /\ worth_1(p) <= up
  <2> DEFINE f == w \div Q64
  <2>1. f \in Nat /\ Q64 * f <= w
    BY <1>1, <1>2, DivBounds
  <2>2. up \in Nat /\ w <= Q64 * up
    BY <1>1, <1>2, CeilBounds
  <2>3. worth_1(p) = f
    BY DEF worth_1
  <2> HIDE DEF w, up, f
  <2> DEFINE a == Q64 * f
             b == Q64 * up
  <2>4. a \in Nat /\ b \in Nat
    BY <1>1, <2>1, <2>2
  <2> HIDE DEF a, b
  <2>5. a <= b
    BY <1>2, <2>1, <2>2, <2>4 DEF a, b
  <2>6. Q64 * f <= Q64 * up /\ f \in Int /\ up \in Int
    BY <2>1, <2>2, <2>5 DEF a, b
  <2>7. f <= up
    BY <1>1, <2>6, Cancel
  <2> QED BY <2>1, <2>2, <2>3, <2>7
<1>9. x \in Nat /\ y \in Nat /\ x <= y
  <2>1. x \in Nat /\ upper * (p * x) <= n * (upper - p)
    BY <1>1, Amount0Floor
  <2>2. y \in Nat /\ n * (upper - p) <= upper * (p * y)
    BY <1>1, Amount0Ceil
  <2> HIDE DEF x, y, n
  <2> DEFINE a == p * x
             b == p * y
             c == n * (upper - p)
             ua == upper * a
             ub == upper * b
  <2>3. a \in Int /\ b \in Int /\ c \in Nat
    BY <1>1, <2>1, <2>2
  <2> HIDE DEF c, a, b
  <2>4. ua \in Int /\ ub \in Int
    BY <1>1, <2>3
  <2>5. ua <= ub
    <3> HIDE DEF ua, ub
    <3> QED BY <2>1, <2>2, <2>3, <2>4 DEF ua, ub, a, b, c
  <2>6. a <= b
    BY <1>1, <2>3, <2>5, Cancel
  <2>7. p * x <= p * y /\ x \in Int /\ y \in Int
    BY <2>1, <2>2, <2>6 DEF a, b
  <2>8. x <= y
    BY <1>1, <2>7, Cancel
  <2> QED BY <2>1, <2>2, <2>8
<1>10. \A b \in BOOLEAN :
         /\ liquidity_amounts(p, t, b)[1] = get_delta_amount_0_unsigned(p, upper, L, b)
         /\ liquidity_amounts(p, t, b)[2] = get_delta_amount_1_unsigned(lower, p, L, b)
  BY <1>4
<1> HIDE DEF x, y, up, L
<1> QED BY <1>5, <1>6, <1>7, <1>8, <1>9, <1>10

\* A swap moves the price as its direction says.
LEMMA StepDirection ==
  ASSUME NEW p \in Nat, NEW target \in Nat, NEW amount \in Nat,
         NEW base_input \in BOOLEAN, NEW zero_for_one \in BOOLEAN,
         limit_allowed(p, target, zero_for_one),
         compute_swap(p, target, Liquidity, amount, 0, base_input, zero_for_one, TRUE).ok
  PROVE  LET q == compute_swap(p, target, Liquidity, amount, 0, base_input, zero_for_one, TRUE).price
         IN IF zero_for_one THEN q <= p ELSE q >= p
<1> DEFINE L == Liquidity
           q == next_price(p, target, L, amount, 0, base_input, zero_for_one, TRUE)
<1>1. FeeDenom \in Nat /\ FeeDenom > 0
  BY HookAssumption
<1>2. compute_swap(p, target, L, amount, 0, base_input, zero_for_one, TRUE).price = q
  BY Zenon DEF compute_swap
<1>3. q >= 0
  BY Zenon DEF compute_swap
<1> DEFINE available == IF base_input THEN mul_div_floor(amount, FeeDenom - 0, FeeDenom)
                        ELSE amount
<1>4. available \in Nat
  <2>1. amount * (FeeDenom - 0) \in Nat
    BY <1>1
  <2>2. (amount * (FeeDenom - 0)) \div FeeDenom \in Nat
    BY <1>1, <2>1, DivBounds
  <2> QED BY <2>2 DEF mul_div_floor
<1>5. \/ q = target
      \/ q = get_next_sqrt_price_from_input(p, L, available, zero_for_one)
      \/ q = get_next_sqrt_price_from_output(p, L, available, zero_for_one)
  <2>1. CASE base_input
    BY <2>1, Zenon DEF next_price
  <2>2. CASE ~base_input
    BY <2>2, Zenon DEF next_price
  <2> QED BY <2>1, <2>2
<1> HIDE DEF q, available
<1>6. CASE q = target
  <2>1. IF zero_for_one THEN target < p ELSE target > p
    BY Zenon DEF limit_allowed
  <2>2. IF zero_for_one THEN target <= p ELSE target >= p
    BY <2>1
  <2> QED BY <1>2, <1>6, <2>2, Zenon
<1>7. CASE q = get_next_sqrt_price_from_input(p, L, available, zero_for_one)
  BY <1>2, <1>4, <1>7, InputDirection
<1>8. CASE q = get_next_sqrt_price_from_output(p, L, available, zero_for_one)
  BY <1>2, <1>3, <1>4, <1>8, OutputDirection
<1> QED BY <1>5, <1>6, <1>7, <1>8

\* Between two prices, what is asked for of one token covers what the position
\* gains of it, and what is given of the other is no more than what it loses.
LEMMA AmountsCover ==
  ASSUME NEW p \in Nat, lower <= p, p <= upper, NEW q \in Nat, lower <= q, q <= upper,
         NEW zero_for_one \in BOOLEAN, IF zero_for_one THEN q <= p ELSE q >= p
  PROVE  LET in == amount_in_between(p, q, Liquidity, zero_for_one)
             gross == amount_out_between(p, q, Liquidity, zero_for_one)
         IN /\ in \in Nat /\ gross \in Nat
            /\ worth_0(p) \in Nat /\ worth_1(p) \in Nat
            /\ worth_0(q) \in Nat /\ worth_1(q) \in Nat
            /\ zero_for_one => worth_0(q) <= worth_0(p) + in /\ worth_1(q) + gross <= worth_1(p)
            /\ ~zero_for_one => worth_1(q) <= worth_1(p) + in /\ worth_0(q) + gross <= worth_0(p)
<1> DEFINE L == Liquidity
           n == L * Q64
           in == amount_in_between(p, q, L, zero_for_one)
           gross == amount_out_between(p, q, L, zero_for_one)
<1>1. L \in Nat /\ L > 0 /\ Q64 \in Nat /\ Q64 > 0 /\ n \in Nat
  BY HookAssumption
<1>2. lower \in Nat /\ lower > 0 /\ upper \in Nat /\ p > 0 /\ q > 0
  BY Ends
<1>3. IF zero_for_one THEN q <= p ELSE q >= p
  OBVIOUS
<1> DEFINE x0 == amount_0_between(q, p, L, TRUE)
           y0 == amount_0_between(p, q, L, FALSE)
           x1 == (L * (q - p) + Q64 - 1) \div Q64
           y1 == (L * (p - q)) \div Q64
<1>5. /\ zero_for_one => in = x0 /\ gross = y1
      /\ ~zero_for_one => in = x1 /\ gross = y0
  <2>1. CASE zero_for_one
    <3>1. q <= p
      BY <1>3, <2>1
    <3> QED BY <2>1, <3>1, Zenon DEF amount_in_between, amount_out_between, mul_div_floor,
                 get_delta_amount_0_unsigned, get_delta_amount_1_unsigned
  <2>2. CASE ~zero_for_one
    <3>1. p <= q
      BY <1>2, <1>3, <2>2
    <3> QED BY <2>2, <3>1, Zenon DEF amount_in_between, amount_out_between, mul_div_ceil,
                 get_delta_amount_0_unsigned, get_delta_amount_1_unsigned
  <2> QED BY <2>1, <2>2
<1>6. worth_0(p) \in Nat /\ worth_0(q) \in Nat /\ worth_1(p) \in Nat /\ worth_1(q) \in Nat
  <2>1. PICK t \in MinTick .. MaxTick - 1 : TRUE
    BY RingAssumption
  <2> QED BY <1>2, PositionWorth
<1>7. zero_for_one => /\ x0 \in Nat /\ y1 \in Nat
                      /\ worth_0(q) <= worth_0(p) + x0
                      /\ worth_1(q) + y1 <= worth_1(p)
  <2> SUFFICES ASSUME zero_for_one
               PROVE  /\ x0 \in Nat /\ y1 \in Nat
                      /\ worth_0(q) <= worth_0(p) + x0
                      /\ worth_1(q) + y1 <= worth_1(p)
    OBVIOUS
  <2>1. q <= p
    BY <1>3
  <2>2. x0 \in Nat /\ n * (p - q) <= p * (q * x0)
    BY <1>2, <2>1, Amount0Ceil
  <2>3. n * (upper - p) < upper * (p * worth_0(p) + p)
    BY <1>2, Amount0Floor DEF worth_0
  <2>4. upper * (q * worth_0(q)) <= n * (upper - q)
    BY <1>2, Amount0Floor DEF worth_0
  <2> HIDE DEF x0, n
  <2> DEFINE f == worth_0(p)
             a == worth_0(q)
  <2>5. f \in Nat /\ a \in Nat /\ n * (upper - p) < upper * (p * f + p)
        /\ upper * (q * a) <= n * (upper - q)
    BY <1>6, <2>3, <2>4
  <2> HIDE DEF f, a
  <2>6. a <= f + x0
    BY <1>1, <1>2, <2>1, <2>2, <2>5, Join0
  <2> DEFINE g == q - lower
             h == p - q
  <2>7. g \in Nat /\ h \in Nat /\ g + h = p - lower
    BY <1>2, <2>1
  <2> HIDE DEF g, h
  <2>8. /\ (L * h) \div Q64 \in Nat
        /\ (L * g) \div Q64 + (L * h) \div Q64 <= (L * (g + h)) \div Q64
    BY <1>1, <2>7, Amount1
  <2>9. worth_1(q) = (L * g) \div Q64 /\ y1 = (L * h) \div Q64
        /\ worth_1(p) = (L * (g + h)) \div Q64
    BY <2>7 DEF worth_1, g, h
  <2> QED BY <2>2, <2>6, <2>8, <2>9 DEF f, a
<1>8. ~zero_for_one => /\ x1 \in Nat /\ y0 \in Nat
                       /\ worth_1(q) <= worth_1(p) + x1
                       /\ worth_0(q) + y0 <= worth_0(p)
  <2> SUFFICES ASSUME ~zero_for_one
               PROVE  /\ x1 \in Nat /\ y0 \in Nat
                      /\ worth_1(q) <= worth_1(p) + x1
                      /\ worth_0(q) + y0 <= worth_0(p)
    OBVIOUS
  <2>1. p <= q
    BY <1>2, <1>3
  <2>2. y0 \in Nat /\ q * (p * y0) <= n * (q - p)
    BY <1>2, <2>1, Amount0Floor
  <2>3. n * (upper - p) < upper * (p * worth_0(p) + p)
    BY <1>2, Amount0Floor DEF worth_0
  <2>4. upper * (q * worth_0(q)) <= n * (upper - q)
    BY <1>2, Amount0Floor DEF worth_0
  <2> HIDE DEF y0, n
  <2> DEFINE f == worth_0(p)
             a == worth_0(q)
  <2>5. f \in Nat /\ a \in Nat /\ n * (upper - p) < upper * (p * f + p)
        /\ upper * (q * a) <= n * (upper - q)
    BY <1>6, <2>3, <2>4
  <2> HIDE DEF f, a
  <2>6. upper * (p * (a + y0)) <= n * (upper - p)
    BY <1>1, <1>2, <2>1, <2>2, <2>5, Split0
  <2>7. a + y0 <= f
    <3> DEFINE k == p * (a + y0)
               m == p * f + p
               b == n * (upper - p)
               uk == upper * k
               um == upper * m
    <3>1. k \in Nat /\ m \in Nat /\ b \in Nat
      BY <1>1, <1>2, <2>2, <2>5
    <3>2. uk < um /\ uk \in Nat /\ um \in Nat
      <4>1. uk \in Nat /\ um \in Nat
        <5> HIDE DEF k, m
        <5> QED BY <1>2, <3>1
      <4>2. uk <= b /\ b < um
        BY <2>5, <2>6
      <4> HIDE DEF uk, um, b
      <4> QED BY <3>1, <4>1, <4>2
    <3>3. k < m
      <4> SUFFICES ASSUME m <= k PROVE FALSE
        <5> HIDE DEF k, m
        <5> QED BY <3>1
      <4> HIDE DEF k, m
      <4>1. upper * m <= upper * k
        BY <1>2, <3>1, MulMono
      <4> HIDE DEF uk, um
      <4> QED BY <3>2, <4>1 DEF uk, um
    <3> SUFFICES ASSUME f + 1 <= a + y0 PROVE FALSE
      BY <2>2, <2>5
    <3>4. p * (f + 1) <= p * (a + y0)
      BY <2>2, <2>5, MulMono
    <3>5. p * (f + 1) = m
      BY <2>5
    <3> HIDE DEF m, k
    <3> QED BY <3>1, <3>3, <3>4, <3>5 DEF k
  <2> DEFINE g == p - lower
             h == q - p
  <2>8. g \in Nat /\ h \in Nat /\ g + h = q - lower
    BY <1>2, <2>1
  <2> HIDE DEF g, h
  <2>9. /\ (L * h + Q64 - 1) \div Q64 \in Nat
        /\ (L * (g + h)) \div Q64 <= (L * g) \div Q64 + (L * h + Q64 - 1) \div Q64
    BY <1>1, <2>8, Amount1
  <2>10. worth_1(p) = (L * g) \div Q64 /\ x1 = (L * h + Q64 - 1) \div Q64
         /\ worth_1(q) = (L * (g + h)) \div Q64
    BY <2>8 DEF worth_1, g, h
  <2> QED BY <2>2, <2>7, <2>9, <2>10 DEF f, a
<1> HIDE DEF x0, x1, y0, y1
<1>9. in \in Nat /\ gross \in Nat
  BY <1>5, <1>7, <1>8
<1> HIDE DEF in, gross
<1>10. /\ zero_for_one => worth_0(q) <= worth_0(p) + in /\ worth_1(q) + gross <= worth_1(p)
       /\ ~zero_for_one => worth_1(q) <= worth_1(p) + in /\ worth_0(q) + gross <= worth_0(p)
  BY <1>5, <1>7, <1>8, Zenon
<1> QED BY <1>6, <1>9, <1>10 DEF in, gross

\* A step of a swap, as swap_internal takes it: it succeeds and reaches q.
IsStep(p, target, amount, base_input, zero_for_one, q, step) ==
  /\ p \in Nat /\ lower <= p /\ p <= upper /\ target \in Nat /\ amount \in Nat
  /\ base_input \in BOOLEAN /\ zero_for_one \in BOOLEAN
  /\ q \in Nat /\ lower <= q /\ q <= upper
  /\ step = compute_swap(p, target, Liquidity, amount, 0, base_input, zero_for_one, TRUE)
  /\ limit_allowed(p, target, zero_for_one) /\ step.ok /\ q = step.price

\* The amounts of a step of a swap.
LEMMA StepAmounts ==
  ASSUME NEW p, NEW target, NEW amount, NEW base_input, NEW zero_for_one, NEW step, NEW q,
         IsStep(p, target, amount, base_input, zero_for_one, q, step)
  PROVE  /\ step.amount_in = amount_in_between(p, q, Liquidity, zero_for_one)
         /\ \/ step.amount_out = amount_out_between(p, q, Liquidity, zero_for_one)
            \/ step.amount_out = least(amount_out_between(p, q, Liquidity, zero_for_one), amount)
         /\ \/ step.fee = amount - amount_in_between(p, q, Liquidity, zero_for_one)
            \/ step.fee = fee_on_top(amount_in_between(p, q, Liquidity, zero_for_one), 0)
         /\ step.fee >= 0
         /\ IF zero_for_one THEN q <= p ELSE q >= p
<1> DEFINE L == Liquidity
           w == next_price(p, target, L, amount, 0, base_input, zero_for_one, TRUE)
           in_ == amount_in_between(p, w, L, zero_for_one)
           out_ == amount_out_between(p, w, L, zero_for_one)
           s == compute_swap(p, target, L, amount, 0, base_input, zero_for_one, TRUE)
<1>1. s.price = w
  BY Zenon DEF compute_swap
<1>2. s.amount_in = in_ /\ (s.ok => s.fee >= 0)
  BY Zenon DEF compute_swap
<1>3. s.fee = amount - in_ \/ s.fee = fee_on_top(in_, 0)
  BY Zenon DEF compute_swap, input_fee
<1>4. s.amount_out = out_ \/ s.amount_out = least(out_, amount)
  <2>1. CASE base_input
    BY <2>1, Zenon DEF compute_swap
  <2>2. CASE ~base_input
    BY <2>2, Zenon DEF compute_swap
  <2> QED BY <2>1, <2>2
<1>5. /\ step = s /\ s.ok /\ q = s.price /\ limit_allowed(p, target, zero_for_one)
      /\ p \in Nat /\ target \in Nat /\ amount \in Nat
      /\ base_input \in BOOLEAN /\ zero_for_one \in BOOLEAN
  BY Zenon DEF IsStep
<1>6. IF zero_for_one THEN s.price <= p ELSE s.price >= p
  BY <1>5, StepDirection, Zenon
<1> HIDE DEF w, s
<1> QED BY <1>1, <1>2, <1>3, <1>4, <1>5, <1>6, Zenon

\* Without a rate the fee is a number, and the output no more than the output
\* between the prices.
LEMMA StepTypes ==
  ASSUME NEW in \in Nat, NEW gross \in Nat, NEW amount \in Nat
  PROVE  /\ amount - in \in Int /\ fee_on_top(in, 0) \in Int
         /\ least(gross, amount) \in Nat /\ least(gross, amount) <= gross
<1> DEFINE d == FeeDenom - 0
           b == in * 0 + d - 1
           z == b \div d
<1>1. FeeDenom \in Nat /\ FeeDenom > 0
  BY HookAssumption
<1>2. fee_on_top(in, 0) = z
  BY DEF fee_on_top, mul_div_ceil
<1>3. z \in Int
  <2>1. d \in Nat /\ d > 0 /\ b \in Nat
    BY <1>1
  <2> HIDE DEF d, b
  <2> QED BY <2>1, DivBounds
<1> HIDE DEF z
<1> QED BY <1>2, <1>3 DEF least

\* What a swap pays in covers what the position gains of one token, and what it
\* takes out is no more than the position loses of the other.
LEMMA StepCovers ==
  ASSUME NEW p, NEW target, NEW amount, NEW base_input, NEW zero_for_one, NEW q, NEW step,
         IsStep(p, target, amount, base_input, zero_for_one, q, step)
  PROVE  /\ step.amount_in \in Nat /\ step.amount_out \in Int /\ step.fee \in Nat
         /\ worth_0(p) \in Nat /\ worth_1(p) \in Nat
         /\ worth_0(q) \in Nat /\ worth_1(q) \in Nat
         /\ zero_for_one => /\ worth_0(q) <= worth_0(p) + step.amount_in
                            /\ worth_1(q) + step.amount_out <= worth_1(p)
         /\ ~zero_for_one => /\ worth_1(q) <= worth_1(p) + step.amount_in
                             /\ worth_0(q) + step.amount_out <= worth_0(p)
<1> DEFINE in == amount_in_between(p, q, Liquidity, zero_for_one)
           gross == amount_out_between(p, q, Liquidity, zero_for_one)
           fee == step.fee
           out == step.amount_out
           v0 == worth_0(q)
           v1 == worth_1(q)
           u0 == worth_0(p)
           u1 == worth_1(p)
<1>0. /\ p \in Nat /\ lower <= p /\ p <= upper /\ amount \in Nat /\ zero_for_one \in BOOLEAN
      /\ q \in Nat /\ lower <= q /\ q <= upper
  BY Zenon DEF IsStep
<1>1. IF zero_for_one THEN q <= p ELSE q >= p
  BY StepAmounts, Zenon
<1>2. /\ step.amount_in = in
      /\ out = gross \/ out = least(gross, amount)
      /\ fee = amount - in \/ fee = fee_on_top(in, 0)
      /\ fee >= 0
  <2>1. step.amount_in = in
    BY StepAmounts
  <2>2. out = gross \/ out = least(gross, amount)
    BY StepAmounts
  <2>3. fee = amount - in \/ fee = fee_on_top(in, 0)
    BY StepAmounts
  <2>4. fee >= 0
    BY StepAmounts
  <2> QED BY <2>1, <2>2, <2>3, <2>4
<1>3. ASSUME IF zero_for_one THEN q <= p ELSE q >= p
      PROVE  /\ in \in Nat /\ gross \in Nat
             /\ u0 \in Nat /\ u1 \in Nat /\ v0 \in Nat /\ v1 \in Nat
             /\ zero_for_one => v0 <= u0 + in /\ v1 + gross <= u1
             /\ ~zero_for_one => v1 <= u1 + in /\ v0 + gross <= u0
  BY <1>0, <1>3, AmountsCover, Zenon
<1> HIDE DEF in, gross, fee, out, v0, v1, u0, u1
<1>4. /\ amount - in \in Int /\ fee_on_top(in, 0) \in Int
      /\ least(gross, amount) \in Nat /\ least(gross, amount) <= gross
  BY <1>0, <1>1, <1>3, StepTypes, Zenon
<1>5. /\ in \in Nat /\ gross \in Nat
      /\ u0 \in Nat /\ u1 \in Nat /\ v0 \in Nat /\ v1 \in Nat
      /\ zero_for_one => v0 <= u0 + in /\ v1 + gross <= u1
      /\ ~zero_for_one => v1 <= u1 + in /\ v0 + gross <= u0
  BY <1>1, <1>3, Zenon
<1>6. fee \in Int /\ fee >= 0
  BY <1>2, <1>4, Zenon
<1>7. fee \in Nat
  BY ONLY <1>6
<1>8. out \in Int /\ out <= gross
  <2>1. gross \in Int /\ gross <= gross
    BY ONLY <1>5
  <2>2. least(gross, amount) \in Int
    BY ONLY <1>4
  <2> QED BY <1>2, <1>4, <2>1, <2>2, Zenon
<1>9. /\ zero_for_one => v0 <= u0 + in /\ v1 + out <= u1
      /\ ~zero_for_one => v1 <= u1 + in /\ v0 + out <= u0
  BY ONLY <1>5, <1>8
<1> QED BY <1>2, <1>5, <1>7, <1>8, <1>9, Zenon DEF fee, out, v0, v1, u0, u1

\* Until a correction moves the price without tokens, the vaults cover the
\* position and the protocol's fees.
Covered ==
  corrected_at = 0 =>
    /\ lower <= sqrt_price /\ sqrt_price <= upper
    /\ vault \in [Tokens -> Nat]
    /\ worth_0(sqrt_price) + protocol_fees[0] <= vault[0]
    /\ worth_1(sqrt_price) + protocol_fees[1] <= vault[1]

\* The sum of one side of the vaults after a swap.
LEMMA SideIn ==
  ASSUME NEW v \in Nat, NEW w \in Nat, NEW x \in Nat, NEW f \in Nat, NEW g \in Nat,
         NEW in \in Nat, NEW fee \in Nat, NEW tax \in Nat,
         w + f <= v, x <= w + in, g <= f + tax
  PROVE  x + g <= v + (in + fee + tax)
OBVIOUS

LEMMA SideOut ==
  ASSUME NEW v \in Nat, NEW w \in Nat, NEW x \in Nat, NEW f \in Nat, NEW out \in Int,
         w + f <= v, x + out <= w, v >= out
  PROVE  x + f <= v - out /\ v - out \in Nat
OBVIOUS

\* A swap keeps them covered.
LEMMA SwapCovered ==
  ASSUME ConfigInv, Covered, NEW s \in Swaps, NEW configs \in {arb_config, {}},
         swap_v2(s, configs)
  PROVE  Covered'
<1> SUFFICES ASSUME corrected_at' = 0
             PROVE  /\ lower <= sqrt_price' /\ sqrt_price' <= upper
                    /\ vault' \in [Tokens -> Nat]
                    /\ worth_0(sqrt_price') + protocol_fees'[0] <= vault'[0]
                    /\ worth_1(sqrt_price') + protocol_fees'[1] <= vault'[1]
  BY DEF Covered
<1> USE DEF ConfigInv
<1>1. PICK c \in IF configs = {} THEN {[enabled |-> FALSE]} ELSE configs :
        \E h \in {pre_swap_arb_check(sqrt_price, tick, c, oracle, clock)} :
          exact_internal_v2(s, configs, h,
            configs # {} /\ s.base_input /\ detect_same_slot_manipulation(h.price, oracle, clock.now))
  BY DEF swap_v2
<1>2. PICK hook : /\ hook = pre_swap_arb_check(sqrt_price, tick, c, oracle, clock)
                  /\ exact_internal_v2(s, configs, hook,
                       configs # {} /\ s.base_input
                         /\ detect_same_slot_manipulation(hook.price, oracle, clock.now))
  BY <1>1
<1>3. /\ sqrt_price \in Nat /\ protocol_fees \in [Tokens -> Nat]
      /\ clock.slot \in Nat /\ clock.slot > 0 /\ ConfigInv'
  BY SwapStep DEF HookShape
<1>4. /\ s.zero_for_one \in BOOLEAN /\ s.base_input \in BOOLEAN /\ s.amount \in Nat
      /\ s.limit \in Nat
  BY InputAssumption
<1> DEFINE detected == configs # {} /\ s.base_input
                         /\ detect_same_slot_manipulation(hook.price, oracle, clock.now)
           in == IF s.zero_for_one THEN 0 ELSE 1
           tax == IF detected THEN tax_of(hook.config, s.amount) ELSE 0
           after == taxed(hook.config, protocol_fees, in, tax, detected)
           target == limit_or_default(s)
           step == compute_swap(hook.price, target, Liquidity, s.amount - tax, 0,
                                s.base_input, s.zero_for_one, TRUE)
           paid == step.amount_in + step.fee + tax
<1>5. /\ limit_allowed(hook.price, target, s.zero_for_one) /\ step.ok
      /\ vault[1 - in] >= step.amount_out
      /\ sqrt_price' = step.price
      /\ \E t \in get_tick_at_sqrt_price(step.price) : tick' = t
      /\ vault' = [vault EXCEPT ![in] = @ + paid, ![1 - in] = @ - step.amount_out]
      /\ IF configs = {} THEN UNCHANGED <<arb_config, protocol_fees>>
         ELSE arb_config' = {after.config} /\ protocol_fees' = after.fees
      /\ corrected_at' = IF hook.correction = NoCorrection THEN corrected_at ELSE clock.slot
  BY <1>2, Zenon DEF exact_internal_v2, paid_in
<1>6. hook.correction = NoCorrection /\ corrected_at = 0
  BY <1>3, <1>5
<1>7. configs = {} => hook.price = sqrt_price
  <2> SUFFICES ASSUME configs = {} PROVE hook.price = sqrt_price
    OBVIOUS
  <2>1. c = [enabled |-> FALSE]
    BY <1>1
  <2>2. ~c.enabled
    BY <2>1
  <2>3. hook = [price |-> sqrt_price, tick |-> tick, config |-> c, correction |-> NoCorrection]
    BY <1>2, <2>2, Zenon DEF pre_swap_arb_check
  <2> QED BY <2>3
<1>8. configs # {} => hook.price = sqrt_price /\ hook.config \in ArbConfig
  BY <1>1, <1>2, <1>6, HookOutcome
<1>9. hook.price = sqrt_price
  BY <1>7, <1>8
<1>10. /\ lower <= sqrt_price /\ sqrt_price <= upper /\ vault \in [Tokens -> Nat]
       /\ worth_0(sqrt_price) + protocol_fees[0] <= vault[0]
       /\ worth_1(sqrt_price) + protocol_fees[1] <= vault[1]
  BY <1>6 DEF Covered
<1>11. tax \in Nat /\ tax <= s.amount
  <2>1. detected => configs # {}
    BY Zenon
  <2> HIDE DEF detected
  <2>2. detected => tax_of(hook.config, s.amount) \in Nat /\ tax_of(hook.config, s.amount) <= s.amount
    BY <1>4, <1>8, <2>1, TaxNat
  <2> QED BY <1>4, <2>2
<1>12. target \in Nat
  <2>1. MinTick \in MinTick .. MaxTick /\ MaxTick \in MinTick .. MaxTick
    BY RingAssumption
  <2>2. /\ SqrtPrice[MinTick] \in Nat /\ SqrtPrice[MaxTick] \in Nat /\ SqrtPrice[MaxTick] > 0
    BY <2>1, ReferencePrice
  <2> QED BY <1>4, <2>2 DEF limit_or_default
<1>13. in \in Tokens /\ 1 - in \in Tokens
  BY DEF Tokens
<1>14. protocol_fees'[in] <= protocol_fees[in] + tax
       /\ protocol_fees'[1 - in] = protocol_fees[1 - in]
  <2> DEFINE f == [protocol_fees EXCEPT ![in] = @ + tax]
  <2>1. after.fees = f
    BY DEF taxed
  <2>2. protocol_fees' = protocol_fees \/ protocol_fees' = f
    BY <1>5, <2>1, Zenon
  <2>3. f[in] = protocol_fees[in] + tax /\ f[1 - in] = protocol_fees[1 - in]
    <3> HIDE DEF tax
    <3>1. in # 1 - in
      OBVIOUS
    <3> HIDE DEF in
    <3> QED BY <1>3, <1>13, <3>1
  <2>4. protocol_fees[in] \in Nat
    BY <1>3, <1>13
  <2> HIDE DEF f, tax, in
  <2> QED BY <1>11, <2>2, <2>3, <2>4
<1> DEFINE amount == s.amount - tax
<1>15. amount \in Nat
  <2> HIDE DEF tax
  <2> QED BY <1>4, <1>11
<1> HIDE DEF tax, target, amount, after, detected
<1> DEFINE p == sqrt_price
           q == step.price
           z == s.zero_for_one
           i == step.amount_in
           o == step.amount_out
           e == step.fee
<1>16. q \in Nat /\ lower <= q /\ q <= upper
  <2>1. sqrt_price' = q /\ q \in Nat
    BY <1>3, <1>5 DEF HookShape
  <2>2. get_tick_at_sqrt_price(q) # {}
    BY <1>5
  <2> HIDE DEF q
  <2>3. SqrtPrice[MinTick] <= q /\ q < SqrtPrice[MaxTick]
    BY <2>1, <2>2, TickAt
  <2>4. lower <= q /\ q < upper
    BY <2>3 DEF lower, upper
  <2>5. upper \in Nat
    BY Ends
  <2> QED BY <2>1, <2>4, <2>5
<1>17. step = compute_swap(p, target, Liquidity, amount, 0, s.base_input, z, TRUE)
  BY <1>9 DEF amount
<1>18. limit_allowed(p, target, z) /\ step.ok
  BY <1>5, <1>9
<1> HIDE DEF step
<1>19. p \in Nat /\ lower <= p /\ p <= upper /\ s.base_input \in BOOLEAN /\ z \in BOOLEAN
  BY <1>3, <1>4, <1>10
<1> DEFINE v == vault
           f == protocol_fees
           g == protocol_fees'
<1>20. /\ v \in [Tokens -> Nat] /\ worth_0(p) + f[0] <= v[0] /\ worth_1(p) + f[1] <= v[1]
       /\ f \in [Tokens -> Nat] /\ g \in [Tokens -> Nat] /\ v[1 - in] >= o
       /\ vault' = [v EXCEPT ![in] = v[in] + (i + e + tax), ![1 - in] = v[1 - in] - o]
  <2>1. v \in [Tokens -> Nat] /\ worth_0(p) + f[0] <= v[0] /\ worth_1(p) + f[1] <= v[1]
    BY <1>10
  <2>2. f \in [Tokens -> Nat] /\ g \in [Tokens -> Nat] /\ v[1 - in] >= o
    BY <1>3, <1>5 DEF HookShape
  <2>3. vault' = [v EXCEPT ![in] = v[in] + (i + e + tax), ![1 - in] = v[1 - in] - o]
    BY <1>5
  <2> QED BY <2>1, <2>2, <2>3
<1> DEFINE b == s.base_input
<1> HIDE DEF p, q, z, i, o, e, v, f, g, b
<1>21. /\ i \in Nat /\ o \in Int /\ e \in Nat
       /\ worth_0(p) \in Nat /\ worth_1(p) \in Nat /\ worth_0(q) \in Nat /\ worth_1(q) \in Nat
       /\ z => worth_0(q) <= worth_0(p) + i /\ worth_1(q) + o <= worth_1(p)
       /\ ~z => worth_1(q) <= worth_1(p) + i /\ worth_0(q) + o <= worth_0(p)
  <2>1. /\ p \in Nat /\ lower <= p /\ p <= upper /\ b \in BOOLEAN /\ z \in BOOLEAN
        /\ q \in Nat /\ lower <= q /\ q <= upper
    BY <1>16, <1>19 DEF b
  <2>2. target \in Nat /\ amount \in Nat
    BY <1>12, <1>15
  <2>3. IsStep(p, target, amount, b, z, q, step)
    BY <1>17, <1>18, <2>1, <2>2, Zenon DEF IsStep, q, b
  <2>4. /\ step.amount_in \in Nat /\ step.amount_out \in Int /\ step.fee \in Nat
        /\ worth_0(p) \in Nat /\ worth_1(p) \in Nat /\ worth_0(q) \in Nat /\ worth_1(q) \in Nat
        /\ z => /\ worth_0(q) <= worth_0(p) + step.amount_in
                /\ worth_1(q) + step.amount_out <= worth_1(p)
        /\ ~z => /\ worth_1(q) <= worth_1(p) + step.amount_in
                 /\ worth_0(q) + step.amount_out <= worth_0(p)
    BY <2>3, StepCovers
  <2> QED BY <2>4, Zenon DEF i, o, e
<1>22. sqrt_price' = q
  BY <1>5 DEF q
<1>23. CASE z
  <2>1. in = 0 /\ 1 - in = 1
    BY <1>23 DEF z
  <2>2. /\ v[0] \in Nat /\ v[1] \in Nat /\ f[0] \in Nat /\ f[1] \in Nat
        /\ g[0] \in Nat /\ g[1] \in Nat /\ v[1] >= o
        /\ g[0] <= f[0] + tax /\ g[1] = f[1]
    BY <1>14, <1>20, <2>1 DEF Tokens, f, g
  <2> HIDE DEF in
  <2>3. /\ vault'[0] = v[0] + (i + e + tax) /\ vault'[1] = v[1] - o
        /\ vault' = [v EXCEPT ![0] = v[0] + (i + e + tax), ![1] = v[1] - o]
    <3> DEFINE x == v[0] + (i + e + tax)
               y == v[1] - o
    <3>1. vault' = [v EXCEPT ![0] = x, ![1] = y]
      BY <1>20, <2>1, Zenon
    <3> HIDE DEF x, y
    <3>2. vault'[0] = x /\ vault'[1] = y
      <4>1. v \in [Tokens -> Nat] /\ 0 \in Tokens /\ 1 \in Tokens
        BY <1>20 DEF Tokens
      <4> QED BY <3>1, <4>1
    <3> QED BY <3>1, <3>2, Zenon DEF x, y
  <2>4. worth_0(q) <= worth_0(p) + i /\ worth_1(q) + o <= worth_1(p)
    BY <1>21, <1>23
  <2>5. worth_0(q) + g[0] <= v[0] + (i + e + tax)
    BY <1>11, <1>20, <1>21, <2>2, <2>4, SideIn, ZenonT(30)
  <2>6. worth_1(q) + f[1] <= v[1] - o /\ v[1] - o \in Nat
    BY <1>20, <1>21, <2>2, <2>4, SideOut, ZenonT(30)
  <2>7. v[0] + (i + e + tax) \in Nat
    BY <1>11, <1>21, <2>2
  <2>8. vault' \in [Tokens -> Nat]
    BY <1>20, <2>3, <2>6, <2>7 DEF Tokens
  <2> QED BY <1>16, <1>22, <2>2, <2>3, <2>5, <2>6, <2>8 DEF g
<1>24. CASE ~z
  <2>1. in = 1 /\ 1 - in = 0
    BY <1>24 DEF z
  <2>2. /\ v[0] \in Nat /\ v[1] \in Nat /\ f[0] \in Nat /\ f[1] \in Nat
        /\ g[0] \in Nat /\ g[1] \in Nat /\ v[0] >= o
        /\ g[1] <= f[1] + tax /\ g[0] = f[0]
    BY <1>14, <1>20, <2>1 DEF Tokens, f, g
  <2> HIDE DEF in
  <2>3. /\ vault'[1] = v[1] + (i + e + tax) /\ vault'[0] = v[0] - o
        /\ vault' = [v EXCEPT ![1] = v[1] + (i + e + tax), ![0] = v[0] - o]
    <3> DEFINE x == v[1] + (i + e + tax)
               y == v[0] - o
    <3>1. vault' = [v EXCEPT ![1] = x, ![0] = y]
      BY <1>20, <2>1, Zenon
    <3> HIDE DEF x, y
    <3>2. vault'[1] = x /\ vault'[0] = y
      <4>1. v \in [Tokens -> Nat] /\ 0 \in Tokens /\ 1 \in Tokens
        BY <1>20 DEF Tokens
      <4> QED BY <3>1, <4>1
    <3> QED BY <3>1, <3>2, Zenon DEF x, y
  <2>4. worth_1(q) <= worth_1(p) + i /\ worth_0(q) + o <= worth_0(p)
    BY <1>21, <1>24
  <2>5. worth_1(q) + g[1] <= v[1] + (i + e + tax)
    BY <1>11, <1>20, <1>21, <2>2, <2>4, SideIn, ZenonT(30)
  <2>6. worth_0(q) + f[0] <= v[0] - o /\ v[0] - o \in Nat
    BY <1>20, <1>21, <2>2, <2>4, SideOut, ZenonT(30)
  <2>7. v[1] + (i + e + tax) \in Nat
    BY <1>11, <1>21, <2>2
  <2>8. vault' \in [Tokens -> Nat]
    BY <1>20, <2>3, <2>6, <2>7 DEF Tokens
  <2> QED BY <1>16, <1>22, <2>2, <2>3, <2>5, <2>6, <2>8 DEF g
<1> QED BY <1>23, <1>24

\* So does every other instruction: the authority's sweep is a correction.
LEMMA CoveredStep ==
  ASSUME ConfigInv, Covered, HooksStep
  PROVE  Covered'
<1>1. CASE \E s \in Swaps : \E configs \in {arb_config, {}} : swap_v2(s, configs)
  BY <1>1, SwapCovered
<1>2. CASE arb_sweep
  <2>1. corrected_at' = clock.slot
    BY <1>2, Zenon DEF arb_sweep, sweep
  <2>2. clock.slot \in Nat /\ clock.slot > 0
    BY DEF ConfigInv, HookShape
  <2> QED BY <2>1, <2>2 DEF Covered
<1>3. CASE UNCHANGED <<poolVars, corrected_at>>
  BY <1>3 DEF poolVars, Covered
<1>4. CASE \E a \in ArbConfigs : init_arb_config(a)
  BY <1>3, <1>4 DEF init_arb_config
<1>5. CASE \E x \in Taxes : update_manipulation_tax(x)
  BY <1>3, <1>5 DEF update_manipulation_tax
<1>6. CASE \E b \in BOOLEAN : toggle_arb(b)
  BY <1>3, <1>6 DEF toggle_arb
<1>7. CASE fund_authority
  BY <1>3, <1>7 DEF fund_authority
<1>8. CASE \E step \in Steps : advance_clock(step)
  BY <1>3, <1>8 DEF advance_clock
<1> QED BY <1>1, <1>2, <1>4, <1>5, <1>6, <1>7, <1>8 DEF HooksStep

\* The position is paid for when it is opened.
LEMMA CoveredStart ==
  ASSUME HooksInit
  PROVE  Covered
<1>1. PICK h \in Histories, t \in MinTick + 1 .. MaxTick - 1 :
        /\ sqrt_price = SqrtPrice[t]
        /\ vault = [i \in Tokens |-> liquidity_amounts(SqrtPrice[t], t, TRUE)[i + 1]]
  BY DEF HooksInit
<1>2. protocol_fees = [i \in Tokens |-> 0]
  BY DEF HooksInit
<1>3. t \in MinTick .. MaxTick - 1 /\ t \in MinTick .. MaxTick
  BY RingAssumption
<1> DEFINE p == SqrtPrice[t]
           a == liquidity_amounts(p, t, TRUE)[1]
           b == liquidity_amounts(p, t, TRUE)[2]
<1>4. p \in Nat /\ lower <= p /\ p <= upper
  BY <1>3, ReferencePrice, Ends
<1>5. /\ worth_0(p) \in Nat /\ worth_1(p) \in Nat /\ a \in Nat /\ b \in Nat
      /\ worth_0(p) <= a /\ worth_1(p) <= b
  <2> HIDE DEF p
  <2> QED BY <1>3, <1>4, PositionWorth
<1>6. vault[0] = a /\ vault[1] = b /\ protocol_fees[0] = 0 /\ protocol_fees[1] = 0
  BY <1>1, <1>2 DEF Tokens
<1> HIDE DEF a, b, p
<1>7. \A i \in Tokens : vault[i] \in Nat
  <2>1. vault[0] \in Nat /\ vault[1] \in Nat
    BY <1>5, <1>6
  <2>2. \A i \in Tokens : i = 0 \/ i = 1
    BY DEF Tokens
  <2> QED BY <2>1, <2>2
<1>8. vault \in [Tokens -> Nat]
  <2>1. vault = [i \in Tokens |-> vault[i]]
    BY <1>1
  <2> QED BY <1>7, <2>1
<1>9. worth_0(p) + protocol_fees[0] <= vault[0] /\ worth_1(p) + protocol_fees[1] <= vault[1]
  BY <1>5, <1>6
<1>10. sqrt_price = p
  BY <1>1 DEF p
<1> QED BY <1>4, <1>8, <1>9, <1>10 DEF Covered

\* The manipulation tax comes out of what the user pays in: the vaults cover the
\* position and the protocol's fees until a correction moves the price, and the
\* fees are the taxes that the configuration has counted.  It rests on how the
\* token amounts of a swap are rounded: against the user, on both sides.
THEOREM TaxCorrect == Spec => []TaxBacked
<1> DEFINE Inv == ConfigInv /\ Covered
<1>1. Init => Inv
  BY HooksStart, CoveredStart DEF Init
<1>2. Inv /\ [Next]_vars => Inv'
  <2> SUFFICES ASSUME Inv, [Next]_vars PROVE Inv'
    OBVIOUS
  <2>1. CASE UNCHANGED hookVars
    BY <2>1 DEF hookVars, poolVars, ConfigInv, HookShape, ConfigExact, CorrectionSound, Covered
  <2>2. CASE HooksNext
    <3>1. HooksStep
      BY <2>2 DEF HooksNext
    <3>2. ConfigInv'
      BY <3>1, SwapStep, SweepStep, InitConfigStep, SettingStep, OutsideStep DEF HooksStep
    <3> QED BY <3>1, <3>2, CoveredStep
  <2>3. UNCHANGED hookVars \/ HooksNext
    BY DEF Next, vars
  <2> QED BY <2>1, <2>2, <2>3
<1>3. Inv => TaxBacked
  <2> SUFFICES ASSUME Inv PROVE TaxBacked
    OBVIOUS
  <2>1. ASSUME corrected_at = 0, NEW i \in Tokens
        PROVE  vault[i] >= liquidity_amounts(sqrt_price, tick, FALSE)[i + 1] + protocol_fees[i]
    <3>1. /\ sqrt_price \in Nat /\ tick \in MinTick .. MaxTick - 1
          /\ lower <= sqrt_price /\ sqrt_price <= upper /\ vault \in [Tokens -> Nat]
          /\ protocol_fees \in [Tokens -> Nat]
          /\ worth_0(sqrt_price) + protocol_fees[0] <= vault[0]
          /\ worth_1(sqrt_price) + protocol_fees[1] <= vault[1]
      BY <2>1 DEF ConfigInv, HookShape, Covered
    <3>2. /\ liquidity_amounts(sqrt_price, tick, FALSE)[1] = worth_0(sqrt_price)
          /\ liquidity_amounts(sqrt_price, tick, FALSE)[2] = worth_1(sqrt_price)
          /\ worth_0(sqrt_price) \in Nat /\ worth_1(sqrt_price) \in Nat
      BY <3>1, PositionWorth
    <3>3. vault[0] \in Nat /\ vault[1] \in Nat /\ protocol_fees[0] \in Nat /\ protocol_fees[1] \in Nat
      BY <3>1 DEF Tokens
    <3>4. i = 0 \/ i = 1
      BY DEF Tokens
    <3> DEFINE worth == liquidity_amounts(sqrt_price, tick, FALSE)
    <3> HIDE DEF worth
    <3>5. worth[1] = worth_0(sqrt_price) /\ worth[2] = worth_1(sqrt_price)
      BY <3>2 DEF worth
    <3>6. CASE i = 0
      <4>1. worth[i + 1] = worth[1]
        BY <3>6
      <4> QED BY <3>1, <3>2, <3>3, <3>5, <3>6, <4>1 DEF worth
    <3>7. CASE i = 1
      <4>1. worth[i + 1] = worth[2]
        BY <3>7
      <4> QED BY <3>1, <3>2, <3>3, <3>5, <3>7, <4>1 DEF worth
    <3> QED BY <3>4, <3>6, <3>7
  <2>2. \A c \in arb_config : c.manipulation_tax_collected = protocol_fees
    BY DEF ConfigInv, ConfigExact
  <2> QED BY <2>1, <2>2 DEF TaxBacked
<1> QED BY <1>1, <1>2, <1>3, PTL DEF Spec

(***************************************************************************)
(* The ring is the end of the log.                                         *)
(*                                                                         *)
(* Read backwards from its index, the ring holds the last observations of  *)
(* the log s, of which n have been accepted: Back(o, k) is the one k       *)
(* before the latest.  What follows about references needs the log only.   *)
(***************************************************************************)
Back(o, k) == o.observations[(o.index + OBSERVATION_NUM - k) % OBSERVATION_NUM]

Logged(s, n) ==
  /\ \A k \in 1 .. n : s[k].time \in Nat /\ s[k].tick \in MinTick .. MaxTick
  /\ \A k \in 1 .. n - 1 : s[k + 1].time >= s[k].time + UPDATE_DURATION

LogOf(o, s, n) ==
  /\ o.initialized <=> n > 0
  /\ n = 0 => o = NoObservations
  /\ \A k \in 0 .. OBSERVATION_NUM - 1 :
       Back(o, k).time = IF k < n THEN s[n - k].time ELSE 0
  /\ \A k \in 0 .. OBSERVATION_NUM - 2 : k + 1 < n =>
       Back(o, k).cumulative - Back(o, k + 1).cumulative
         = s[n - k].tick * (s[n - k].time - s[n - k - 1].time)

\* A slot of the ring, without the division.
LEMMA SlotOf ==
  ASSUME NEW i \in 0 .. OBSERVATION_NUM - 1, NEW k \in 0 .. OBSERVATION_NUM - 1
  PROVE  /\ (i + OBSERVATION_NUM - k) % OBSERVATION_NUM
              = IF k <= i THEN i - k ELSE i + OBSERVATION_NUM - k
         /\ i % OBSERVATION_NUM = i
<1> DEFINE N == OBSERVATION_NUM
<1>0. N \in Nat /\ N > 0
  BY RingAssumption
<1> HIDE DEF N
<1>1. ASSUME NEW a \in Nat, a < N PROVE a % N = a /\ (a + N) % N = a
  <2>1. a + N \in Nat
    BY <1>0
  <2>2. a % N = a - N * (a \div N) /\ a % N \in 0 .. (N - 1) /\ a \div N \in Nat
    BY <1>0, <1>1
  <2>3. (a + N) % N = (a + N) - N * ((a + N) \div N) /\ (a + N) % N \in 0 .. (N - 1)
        /\ (a + N) \div N \in Nat
    BY <1>0, <1>1, <2>1
  <2> DEFINE q == a \div N
             r == (a + N) \div N
             x == a % N
             y == (a + N) % N
  <2> HIDE DEF q, r, x, y
  <2>4. q \in Nat /\ x = a - N * q /\ x >= 0
    BY <2>2 DEF q, x
  <2>5. r \in Nat /\ y = (a + N) - N * r /\ y >= 0 /\ y < N
    BY <2>3, <1>0 DEF r, y
  <2>6. q = 0
    <3>1. ASSUME q >= 1 PROVE FALSE
      <4>1. N * 1 <= N * q /\ N * q \in Nat
        BY <1>0, <2>4, <3>1, MulMono
      <4> QED BY <1>0, <1>1, <2>4, <4>1
    <3> QED BY <2>4, <3>1
  <2>7. r = 1
    <3>1. ASSUME r >= 2 PROVE FALSE
      <4>1. N * 2 <= N * r /\ N * r \in Nat /\ N * 2 = N + N
        BY <1>0, <2>5, <3>1, MulMono
      <4> QED BY <1>0, <1>1, <2>5, <4>1
    <3>2. ASSUME r = 0 PROVE FALSE
      <4>1. N * r = 0
        BY <1>0, <3>2
      <4> QED BY <1>0, <1>1, <2>5, <4>1
    <3> QED BY <2>5, <3>1, <3>2
  <2>8. N * 0 = 0 /\ N * 1 = N
    BY <1>0
  <2> QED BY <1>0, <2>4, <2>5, <2>6, <2>7, <2>8 DEF x, y
<1>2. CASE k <= i
  <2>1. i - k \in Nat /\ i - k < N /\ i + N - k = (i - k) + N
    BY <1>0, <1>2 DEF N
  <2>2. ((i - k) + N) % N = i - k
    BY <1>1, <2>1
  <2>3. i % N = i
    BY <1>0, <1>1 DEF N
  <2> QED BY <1>2, <2>1, <2>2, <2>3 DEF N
<1>3. CASE ~(k <= i)
  <2>1. i + N - k \in Nat /\ i + N - k < N
    BY <1>0, <1>3 DEF N
  <2>2. (i + N - k) % N = i + N - k
    BY <1>1, <2>1
  <2>3. i % N = i
    BY <1>0, <1>1 DEF N
  <2> QED BY <1>3, <2>2, <2>3 DEF N
<1> QED BY <1>2, <1>3

\* The latest observation, and the types of the others.
LEMMA BackType ==
  ASSUME NEW o \in Ring
  PROVE  /\ Back(o, 0) = o.observations[o.index]
         /\ \A k \in 0 .. OBSERVATION_NUM - 1 :
              Back(o, k).time \in Nat /\ Back(o, k).cumulative \in Int
<1>1. /\ OBSERVATION_NUM \in Nat /\ OBSERVATION_NUM > 0 /\ o.index \in 0 .. OBSERVATION_NUM - 1
      /\ \A i \in 0 .. OBSERVATION_NUM - 1 : o.observations[i].time \in Nat
                                             /\ o.observations[i].cumulative \in Int
  BY RingAssumption DEF Ring, Observation
<1>2. ASSUME NEW k \in 0 .. OBSERVATION_NUM - 1
      PROVE  /\ (o.index + OBSERVATION_NUM - k) % OBSERVATION_NUM \in 0 .. OBSERVATION_NUM - 1
             /\ k = 0 => (o.index + OBSERVATION_NUM - k) % OBSERVATION_NUM = o.index
  <2>1. (o.index + OBSERVATION_NUM - k) % OBSERVATION_NUM
          = IF k <= o.index THEN o.index - k ELSE o.index + OBSERVATION_NUM - k
    BY <1>1, SlotOf
  <2> QED BY <1>1, <2>1
<1>3. 0 \in 0 .. OBSERVATION_NUM - 1
  BY <1>1
<1> QED BY <1>1, <1>2, <1>3 DEF Back

\* An observation is accepted just when it keeps its distance from the last.
LEMMA Accepted ==
  ASSUME NEW o \in Ring, NEW s, NEW n \in Nat, NEW now \in Nat, LogOf(o, s, n), Logged(s, n)
  PROVE  accepts(o, now) <=> (n > 0 => now >= s[n].time + UPDATE_DURATION)
<1>1. OBSERVATION_NUM \in Nat /\ OBSERVATION_NUM > 0 /\ UPDATE_DURATION \in Nat /\ UPDATE_DURATION > 0
  BY RingAssumption
<1>2. o.initialized <=> n > 0
  BY DEF LogOf
<1>3. n > 0 => o.observations[o.index].time = s[n].time /\ s[n].time \in Nat
  <2>1. 0 \in 0 .. OBSERVATION_NUM - 1
    BY <1>1
  <2>2. n > 0 => Back(o, 0).time = s[n - 0].time
    BY <2>1 DEF LogOf
  <2>3. n > 0 => s[n].time \in Nat
    BY DEF Logged
  <2> QED BY <2>2, <2>3, BackType
<1> QED BY <1>1, <1>2, <1>3 DEF accepts, saturating_sub

\* update appends to the log: the ring turns by one slot.
LEMMA LogGrows ==
  ASSUME NEW o \in Ring, NEW s, NEW n \in Nat, NEW now \in Nat, NEW t \in Int,
         LogOf(o, s, n), Logged(s, n + 1), s[n + 1].time = now, s[n + 1].tick = t
  PROVE  LogOf(update(o, now, t), s, n + 1)
<1> DEFINE N == OBSERVATION_NUM
           last == o.observations[o.index]
           next == IF o.initialized THEN next_index(o.index) ELSE o.index
           sum == IF o.initialized THEN last.cumulative + t * (now - last.time) ELSE 0
           obs == [time |-> now, cumulative |-> sum]
           u == update(o, now, t)
<1>0. /\ N \in Nat /\ N > 0 /\ UPDATE_DURATION \in Nat /\ UPDATE_DURATION > 0
      /\ o.index \in 0 .. N - 1 /\ o.observations \in [0 .. N - 1 -> Observation]
      /\ next \in 0 .. N - 1
  BY RingAssumption DEF Ring, next_index
<1>1. Logged(s, n) /\ (n > 0 => now >= s[n].time + UPDATE_DURATION)
  BY DEF Logged
<1>2. accepts(o, now)
  BY <1>1, Accepted
<1>3. u = [initialized |-> TRUE, index |-> next, observations |-> [o.observations EXCEPT ![next] = obs]]
  BY <1>2, Zenon DEF update
<1> HIDE DEF obs, sum
<1>4. /\ u.initialized /\ u.index = next
      /\ \A i \in 0 .. N - 1 : u.observations[i] = IF i = next THEN obs ELSE o.observations[i]
  BY <1>0, <1>3
<1>5. /\ o.initialized <=> n > 0
      /\ n = 0 => o = NoObservations
      /\ \A k \in 0 .. N - 1 : Back(o, k).time = IF k < n THEN s[n - k].time ELSE 0
      /\ \A k \in 0 .. N - 2 : k + 1 < n =>
           Back(o, k).cumulative - Back(o, k + 1).cumulative
             = s[n - k].tick * (s[n - k].time - s[n - k - 1].time)
  BY DEF LogOf
<1> HIDE DEF u
<1>6. \A k \in 0 .. N - 1 :
         Back(u, k) = IF k = 0 THEN obs
                      ELSE IF n = 0 THEN [time |-> 0, cumulative |-> 0] ELSE Back(o, k - 1)
  <2> SUFFICES ASSUME NEW k \in 0 .. N - 1
               PROVE  Back(u, k) = IF k = 0 THEN obs
                                   ELSE IF n = 0 THEN [time |-> 0, cumulative |-> 0] ELSE Back(o, k - 1)
    OBVIOUS
  <2>1. (next + N - k) % N = IF k <= next THEN next - k ELSE next + N - k
    BY <1>0, SlotOf
  <2> DEFINE i == (next + N - k) % N
  <2>2. Back(u, k) = u.observations[i]
    BY <1>4 DEF Back
  <2>a. /\ N \in Nat /\ N > 0 /\ o.index \in 0 .. N - 1 /\ next \in 0 .. N - 1 /\ k \in 0 .. N - 1
        /\ i = IF k <= next THEN next - k ELSE next + N - k
    BY <1>0, <2>1
  <2>b. o.initialized => next = next_index(o.index)
    OBVIOUS
  <2> HIDE DEF i, next
  <2>3. i \in 0 .. N - 1 /\ (i = next <=> k = 0)
    BY <2>a
  <2>4. CASE k = 0
    BY <1>4, <2>2, <2>3, <2>4
  <2>5. CASE k # 0 /\ n = 0
    <3>1. o.observations[i] = [time |-> 0, cumulative |-> 0]
      <4>1. o = NoObservations /\ i \in 0 .. OBSERVATION_NUM - 1
        BY <1>5, <2>3, <2>5
      <4> HIDE DEF N
      <4>2. \A j \in 0 .. OBSERVATION_NUM - 1 :
              NoObservations.observations[j] = [time |-> 0, cumulative |-> 0]
        BY DEF NoObservations
      <4> QED BY <4>1, <4>2
    <3> QED BY <1>4, <2>2, <2>3, <2>5, <3>1
  <2>6. CASE k # 0 /\ n # 0
    <3>1. k - 1 \in 0 .. N - 1
      BY <1>0, <2>6
    <3>2. (o.index + N - (k - 1)) % N = IF k - 1 <= o.index THEN o.index - (k - 1) ELSE o.index + N - (k - 1)
      BY <1>0, <3>1, SlotOf
    <3>3. next = IF o.index = N - 1 THEN 0 ELSE o.index + 1
      BY <1>5, <2>6, <2>b DEF next_index
    <3>4. (o.index + N - (k - 1)) % N = i
      <4> DEFINE j == (o.index + N - (k - 1)) % N
      <4>1. j = IF k - 1 <= o.index THEN o.index - (k - 1) ELSE o.index + N - (k - 1)
        BY <3>2
      <4> HIDE DEF N, j
      <4>2. j = i
        BY <2>a, <2>6, <3>3, <4>1
      <4> QED BY <4>2 DEF j
    <3>5. Back(o, k - 1) = o.observations[i]
      BY <3>4 DEF Back
    <3> QED BY <1>4, <2>2, <2>3, <2>6, <3>5
  <2> QED BY <2>4, <2>5, <2>6
<1>7. obs.time = now /\ obs.cumulative = sum
  BY DEF obs
<1> HIDE DEF next, N, last
<1>8. \A k \in 0 .. N - 1 : Back(u, k).time = IF k < n + 1 THEN s[(n + 1) - k].time ELSE 0
  <2> TAKE k \in 0 .. N - 1
  <2>1. CASE k = 0
    BY <1>6, <1>7, <2>1
  <2>2. CASE k # 0 /\ n = 0
    BY <1>6, <2>2
  <2>3. CASE k # 0 /\ n # 0
    <3>1. k - 1 \in 0 .. N - 1 /\ n - (k - 1) = (n + 1) - k /\ (k - 1 < n <=> k < n + 1)
      BY <1>0, <2>3
    <3> QED BY <1>5, <1>6, <2>3, <3>1
  <2> QED BY <2>1, <2>2, <2>3
<1>9. \A k \in 0 .. N - 2 : k + 1 < n + 1 =>
           Back(u, k).cumulative - Back(u, k + 1).cumulative
             = s[(n + 1) - k].tick * (s[(n + 1) - k].time - s[(n + 1) - k - 1].time)
  <2> SUFFICES ASSUME NEW k \in 0 .. N - 2, k + 1 < n + 1
               PROVE  Back(u, k).cumulative - Back(u, k + 1).cumulative
                        = s[(n + 1) - k].tick * (s[(n + 1) - k].time - s[(n + 1) - k - 1].time)
    OBVIOUS
  <2>0. n # 0 /\ k \in 0 .. N - 1 /\ k + 1 \in 0 .. N - 1
    BY <1>0
  <2>1. CASE k = 0
    <3>1. Back(u, 0) = obs /\ Back(u, 0 + 1) = Back(o, 0)
      BY <1>6, <2>0, <2>1
    <3>2. Back(o, 0) = last /\ last.time = s[n].time /\ last.cumulative \in Int /\ last.time \in Nat
      <4>1. Back(o, 0).time = s[n - 0].time
        BY <1>5, <2>0, <2>1
      <4>2. 0 \in 0 .. OBSERVATION_NUM - 1
        BY <2>0, <2>1 DEF N
      <4>3. Back(o, 0) = o.observations[o.index] /\ Back(o, 0).time \in Nat /\ Back(o, 0).cumulative \in Int
        BY <4>2, BackType
      <4> QED BY <4>1, <4>3 DEF last
    <3>3. sum = last.cumulative + t * (now - last.time)
      BY <1>5, <2>0 DEF sum
    <3> DEFINE d == t * (now - last.time)
    <3>4. d \in Int
      BY <3>2
    <3>5. d = s[(n + 1) - k].tick * (s[(n + 1) - k].time - s[(n + 1) - k - 1].time)
      BY <2>1, <3>2
    <3> HIDE DEF d
    <3>6. sum - last.cumulative = d
      BY <3>2, <3>3, <3>4 DEF d
    <3> QED BY <1>7, <2>1, <3>1, <3>2, <3>5, <3>6
  <2>2. CASE k # 0
    <3>1. /\ Back(u, k) = Back(o, k - 1) /\ Back(u, k + 1) = Back(o, (k - 1) + 1)
      BY <1>6, <2>0, <2>2
    <3>2. k - 1 \in 0 .. N - 2 /\ (k - 1) + 1 < n /\ n - (k - 1) = (n + 1) - k
          /\ n - (k - 1) - 1 = (n + 1) - k - 1
      <4>1. N \in Nat /\ k \in Nat /\ k > 0 /\ k <= N - 2
        BY <1>0, <2>2
      <4> QED BY <4>1
    <3> QED BY <1>5, <3>1, <3>2
  <2> QED BY <2>1, <2>2
<1>10. n + 1 > 0 /\ n + 1 # 0
  OBVIOUS
<1> QED BY <1>4, <1>8, <1>9, <1>10 DEF LogOf, u, N

\* An empty ring is the end of an empty log.
LEMMA LogEmpty ==
  ASSUME NEW s
  PROVE  NoObservations \in Ring /\ LogOf(NoObservations, s, 0)
<1> DEFINE f == [i \in 0 .. OBSERVATION_NUM - 1 |-> [time |-> 0, cumulative |-> 0]]
<1>0. OBSERVATION_NUM \in Nat /\ OBSERVATION_NUM > 0
  BY RingAssumption
<1>1. f \in [0 .. OBSERVATION_NUM - 1 -> Observation]
  BY DEF Observation
<1>2. NoObservations = [initialized |-> FALSE, index |-> 0, observations |-> f]
  BY DEF NoObservations
<1>3. \A i \in 0 .. OBSERVATION_NUM - 1 : f[i].time = 0
  OBVIOUS
<1> HIDE DEF f
<1>4. NoObservations \in Ring
  BY <1>0, <1>1, <1>2 DEF Ring
<1>5. ASSUME NEW k \in 0 .. OBSERVATION_NUM - 1 PROVE Back(NoObservations, k).time = 0
  <2>1. 0 \in 0 .. OBSERVATION_NUM - 1
    BY <1>0
  <2>2. (0 + OBSERVATION_NUM - k) % OBSERVATION_NUM
          = IF k <= 0 THEN 0 - k ELSE 0 + OBSERVATION_NUM - k
    BY <2>1, SlotOf
  <2> DEFINE j == (0 + OBSERVATION_NUM - k) % OBSERVATION_NUM
  <2>3. Back(NoObservations, k) = f[j]
    BY <1>2 DEF Back
  <2>4. j = IF k <= 0 THEN 0 - k ELSE 0 + OBSERVATION_NUM - k
    BY <2>2
  <2> HIDE DEF j
  <2>5. j \in 0 .. OBSERVATION_NUM - 1
    BY <1>0, <2>4
  <2> QED BY <1>3, <2>3, <2>5
<1>6. NoObservations.initialized <=> 0 > 0
  BY <1>2
<1>7. \A k \in 0 .. OBSERVATION_NUM - 1 : Back(NoObservations, k).time = IF k < 0 THEN s[0 - k].time ELSE 0
  BY <1>5
<1>8. \A k \in 0 .. OBSERVATION_NUM - 2 : ~(k + 1 < 0)
  OBVIOUS
<1> QED BY <1>4, <1>6, <1>7, <1>8 DEF LogOf

\* The ring of a pool after a history is the end of that history.
LEMMA RingAfterLog ==
  ASSUME NEW h \in Seq([time : Nat, tick : Int]), observations_possible(h)
  PROVE  LogOf(RingAfter(h), h, Len(h)) /\ Logged(h, Len(h))
<1> DEFINE E(g, n) == IF n = 0 THEN NoObservations ELSE update(g[n - 1], h[n].time, h[n].tick)
           ring == CHOOSE g : g = [n \in 0 .. Len(h) |-> E(g, n)]
           U == {m \in Nat : m <= Len(h) => ring[m] \in Ring /\ LogOf(ring[m], h, m)}
<1>1. ring = [n \in 0 .. Len(h) |-> E(ring, n)]
  BY RingsExist
<1>2. RingAfter(h) = ring[Len(h)]
  BY DEF RingAfter
<1> HIDE DEF ring
<1>3. \A n \in 0 .. Len(h) : ring[n] = E(ring, n)
  BY <1>1
<1>4. \A k \in 1 .. Len(h) : h[k].time \in Nat /\ h[k].tick \in Int
  <2> DEFINE S == [time : Nat, tick : Int]
  <2>1. \A e \in S : e.time \in Nat /\ e.tick \in Int
    OBVIOUS
  <2>2. h \in Seq(S)
    OBVIOUS
  <2> HIDE DEF S
  <2>3. \A k \in 1 .. Len(h) : h[k] \in S
    BY <2>2
  <2> QED BY <2>1, <2>3
<1>5. \A m \in 0 .. Len(h) : Logged(h, m)
  BY <1>4 DEF Logged, observations_possible
<1>6. 0 \in U
  <2>1. ring[0] = NoObservations
    BY <1>3
  <2> QED BY <2>1, LogEmpty
<1>7. ASSUME NEW m \in Nat, m \in U PROVE m + 1 \in U
  <2> SUFFICES ASSUME m + 1 <= Len(h) PROVE ring[m + 1] \in Ring /\ LogOf(ring[m + 1], h, m + 1)
    OBVIOUS
  <2>1. ring[m] \in Ring /\ LogOf(ring[m], h, m)
    BY <1>7
  <2>2. ring[m + 1] = update(ring[m], h[m + 1].time, h[m + 1].tick)
    BY <1>3
  <2>3. h[m + 1].time \in Nat /\ h[m + 1].tick \in Int /\ Logged(h, m + 1)
    BY <1>4, <1>5
  <2> HIDE DEF U
  <2> QED BY <2>1, <2>2, <2>3, UpdateRing, LogGrows
<1>8. Nat \subseteq U
  <2> HIDE DEF U
  <2> QED BY <1>6, <1>7, CountingInduction
<1>9. Len(h) \in Nat
  OBVIOUS
<1> QED BY <1>2, <1>5, <1>8, <1>9

(***************************************************************************)
(* A reference is a mean.                                                  *)
(***************************************************************************)
\* What time passes between numbers of an interval adds up to a number of the
\* interval times the time.
LEMMA MeanGrows ==
  ASSUME NEW lo \in Int, NEW hi \in Int, NEW c \in Int, NEW d \in Nat, NEW t \in Int, NEW e \in Nat,
         lo <= t, t <= hi, lo * d <= c, c <= hi * d
  PROVE  lo * (d + e) <= c + t * e /\ c + t * e <= hi * (d + e)
<1>1. /\ lo * (d + e) = lo * d + lo * e /\ hi * (d + e) = hi * d + hi * e
      /\ lo * d \in Int /\ lo * e \in Int /\ hi * d \in Int /\ hi * e \in Int /\ t * e \in Int
  OBVIOUS
<1>2. ASSUME NEW a \in Int, NEW b \in Int, a <= b PROVE a * e <= b * e
  <2> DEFINE x == b - a
  <2>1. x \in Nat /\ b = a + x
    BY <1>2
  <2> HIDE DEF x
  <2>2. x * e \in Nat /\ (a + x) * e = a * e + x * e /\ a * e \in Int
    BY <2>1
  <2> QED BY <2>1, <2>2
<1>3. lo * e <= t * e /\ t * e <= hi * e
  BY <1>2
<1> QED BY <1>1, <1>3

\* The integer part, towards zero, of a quotient between two integers lies there.
LEMMA TruncBetween ==
  ASSUME NEW lo \in Int, NEW hi \in Int, NEW c \in Int, NEW d \in Nat, d > 0, lo * d <= c, c <= hi * d
  PROVE  trunc_div(c, d) \in Int /\ lo <= trunc_div(c, d) /\ trunc_div(c, d) <= hi
<1>1. ASSUME NEW a \in Int, NEW b \in Int, a * d < b * d PROVE a < b
  <2>1. ASSUME a >= b PROVE FALSE
    <3> DEFINE x == a - b
    <3>1. x \in Nat /\ a = b + x
      BY <2>1
    <3> HIDE DEF x
    <3>2. x * d \in Nat /\ (b + x) * d = b * d + x * d /\ b * d \in Int
      BY <3>1
    <3> QED BY <1>1, <3>1, <3>2
  <2> QED BY <2>1
<1>2. ASSUME NEW a \in Int, NEW b \in Int, NEW e \in Nat, a * d <= e, e <= b * d
      PROVE  e \div d \in Nat /\ a <= e \div d /\ e \div d <= b
  <2> DEFINE q == e \div d
  <2>1. q \in Nat /\ d * q <= e /\ e < d * q + d
    BY DivBounds
  <2> HIDE DEF q
  <2>2. (q + 1) * d = d * q + d /\ d * q = q * d /\ (b + 1) * d = b * d + d /\ a * d \in Int /\ b * d \in Int
        /\ q * d \in Int
    BY <2>1
  <2>3. a * d < (q + 1) * d /\ q * d < (b + 1) * d
    BY <1>2, <2>1, <2>2
  <2>4. a < q + 1 /\ q < b + 1
    BY <1>1, <2>1, <2>3
  <2> QED BY <2>1, <2>4 DEF q
<1>3. CASE c >= 0
  <2>1. c \in Nat
    BY <1>3
  <2> QED BY <1>2, <1>3, <2>1 DEF trunc_div
<1>4. CASE ~(c >= 0)
  <2>1. -c \in Nat /\ (-hi) * d = -(hi * d) /\ (-lo) * d = -(lo * d) /\ hi * d \in Int /\ lo * d \in Int
    BY <1>4
  <2>2. (-hi) * d <= -c /\ -c <= (-lo) * d
    BY <2>1
  <2> DEFINE q == (-c) \div d
  <2>3. q \in Nat /\ -hi <= q /\ q <= -lo
    BY <1>2, <2>1, <2>2
  <2>4. trunc_div(c, d) = -q
    BY <1>4 DEF trunc_div
  <2> HIDE DEF q
  <2> QED BY <2>3, <2>4
<1> QED BY <1>3, <1>4

\* Between the observation m before the latest and the one just before the latest,
\* the sum grows by at least the lowest and at most the highest tick for each second.
LEMMA MeanOfStretch ==
  ASSUME NEW o \in Ring, NEW s, NEW n \in Nat, LogOf(o, s, n), Logged(s, n),
         NEW m \in 2 .. OBSERVATION_NUM - 1, m < n, NEW lo \in Int, NEW hi \in Int,
         \A j \in n - m + 1 .. n - 1 : lo <= s[j].tick /\ s[j].tick <= hi
  PROVE  LET c == Back(o, 1).cumulative - Back(o, m).cumulative
             d == Back(o, 1).time - Back(o, m).time
         IN d \in Nat /\ c \in Int /\ lo * d <= c /\ c <= hi * d
<1> DEFINE T(a) == Back(o, a + 1).time
           C(a) == Back(o, a + 1).cumulative
           P(a) == /\ T(0) - T(a) \in Nat
                   /\ lo * (T(0) - T(a)) <= C(0) - C(a) /\ C(0) - C(a) <= hi * (T(0) - T(a))
           U == {a \in Nat : a + 1 <= m => P(a)}
<1>0. OBSERVATION_NUM \in Nat /\ m <= OBSERVATION_NUM - 1 /\ m >= 2
  BY RingAssumption
<1>1. ASSUME NEW a \in Nat, a + 1 <= m
      PROVE  T(a) \in Nat /\ C(a) \in Int /\ T(a) = s[n - a - 1].time
  <2>1. a + 1 \in 0 .. OBSERVATION_NUM - 1 /\ a + 1 < n /\ n - (a + 1) = n - a - 1
    BY <1>0, <1>1
  <2> QED BY <2>1, BackType DEF LogOf
<1>2. ASSUME NEW a \in Nat, a + 2 <= m
      PROVE  /\ C(a) - C(a + 1) = s[n - a - 1].tick * (T(a) - T(a + 1))
             /\ T(a) - T(a + 1) \in Nat
             /\ s[n - a - 1].tick \in Int /\ lo <= s[n - a - 1].tick /\ s[n - a - 1].tick <= hi
  <2>1. /\ a + 1 \in 0 .. OBSERVATION_NUM - 2 /\ (a + 1) + 1 < n /\ n - (a + 1) = n - a - 1
        /\ n - (a + 1) - 1 = n - (a + 1) - 1 /\ (a + 1) + 1 <= m /\ a + 1 <= m /\ a + 1 \in Nat
    BY <1>0, <1>2
  <2>2. C(a) - C(a + 1) = s[n - (a + 1)].tick * (s[n - (a + 1)].time - s[n - (a + 1) - 1].time)
    BY <2>1 DEF LogOf
  <2>3. T(a) = s[n - a - 1].time /\ T(a + 1) = s[n - (a + 1) - 1].time /\ T(a) \in Nat /\ T(a + 1) \in Nat
    BY <1>1, <2>1
  <2> HIDE DEF T, C
  <2>4. /\ n - a - 1 \in n - m + 1 .. n - 1 /\ n - a - 1 \in 1 .. n
        /\ n - (a + 1) - 1 \in 1 .. n - 1 /\ n - (a + 1) - 1 + 1 = n - a - 1
    BY <1>2, <2>1
  <2>5. s[n - a - 1].time >= s[n - (a + 1) - 1].time + UPDATE_DURATION /\ s[n - a - 1].tick \in MinTick .. MaxTick
    BY <2>4 DEF Logged
  <2>6. UPDATE_DURATION \in Nat
    BY RingAssumption
  <2>7. T(a) - T(a + 1) \in Nat
    BY <2>3, <2>5, <2>6
  <2>8. s[n - a - 1].tick \in Int
    BY <2>5, RingAssumption
  <2> QED BY <2>1, <2>2, <2>3, <2>4, <2>7, <2>8
<1>3. 0 \in U
  <2>1. T(0) \in Nat /\ C(0) \in Int
    BY <1>0, <1>1
  <2> HIDE DEF T, C
  <2>2. T(0) - T(0) = 0 /\ C(0) - C(0) = 0 /\ lo * 0 = 0 /\ hi * 0 = 0
    BY <2>1
  <2> QED BY <2>2
<1>4. ASSUME NEW a \in Nat, a \in U PROVE a + 1 \in U
  <2> SUFFICES ASSUME (a + 1) + 1 <= m PROVE P(a + 1)
    OBVIOUS
  <2>1. a + 2 <= m /\ a + 1 <= m
    OBVIOUS
  <2>2. P(a)
    BY <1>4, <2>1
  <2>3. /\ T(0) \in Nat /\ C(0) \in Int /\ T(a) \in Nat /\ C(a) \in Int /\ T(a + 1) \in Nat /\ C(a + 1) \in Int
    BY <1>0, <1>1, <2>1
  <2> DEFINE t == s[n - a - 1].tick
             d == T(0) - T(a)
             c == C(0) - C(a)
             e == T(a) - T(a + 1)
  <2>4. C(a) - C(a + 1) = t * e /\ e \in Nat /\ t \in Int /\ lo <= t /\ t <= hi
    BY <1>2, <2>1
  <2>5. d \in Nat /\ c \in Int /\ lo * d <= c /\ c <= hi * d
    BY <2>2, <2>3
  <2> HIDE DEF T, C, t
  <2>6. d + e = T(0) - T(a + 1) /\ c + t * e = C(0) - C(a + 1)
    <3>1. c + (C(a) - C(a + 1)) = C(0) - C(a + 1)
      BY <2>3
    <3> QED BY <2>3, <2>4, <3>1
  <2> HIDE DEF d, c, e
  <2>7. lo * (d + e) <= c + t * e /\ c + t * e <= hi * (d + e) /\ d + e \in Nat
    BY <2>4, <2>5, MeanGrows
  <2> QED BY <2>6, <2>7
<1>5. Nat \subseteq U
  <2> HIDE DEF U
  <2> QED BY <1>3, <1>4, CountingInduction
<1>6. m - 1 \in U /\ (m - 1) + 1 = m
  BY <1>0, <1>5
<1>7. P(m - 1) /\ C(0) \in Int /\ C(m - 1) \in Int
  BY <1>0, <1>1, <1>6
<1> QED BY <1>6, <1>7

\* The smallest and the largest of some ticks.
LEMMA TickExtremes ==
  ASSUME NEW S \in SUBSET (MinTick .. MaxTick), S # {}
  PROVE  /\ Min(S) \in S /\ Max(S) \in S
         /\ \A x \in S : Min(S) <= x /\ x <= Max(S)
<1>0. MinTick \in Int /\ MaxTick \in Int
  BY RingAssumption
<1>1. \A x \in S : x \in Int /\ MinTick <= x /\ x <= MaxTick
  BY <1>0
<1>2. \E x \in S : \A y \in S : x <= y
  <2> DEFINE T == {x - MinTick : x \in S}
  <2>1. T \in SUBSET Nat /\ T # {}
    BY <1>0, <1>1
  <2> HIDE DEF T
  <2>2. PICK z \in T : \A y \in T : z <= y
    BY <2>1, SmallestElement
  <2>3. PICK x \in S : z = x - MinTick
    BY DEF T
  <2>4. \A y \in S : y - MinTick \in T
    BY DEF T
  <2> QED BY <1>0, <1>1, <2>2, <2>3, <2>4
<1>3. \E x \in S : \A y \in S : x >= y
  <2> DEFINE T == {MaxTick - x : x \in S}
  <2>1. T \in SUBSET Nat /\ T # {}
    BY <1>0, <1>1
  <2> HIDE DEF T
  <2>2. PICK z \in T : \A y \in T : z <= y
    BY <2>1, SmallestElement
  <2>3. PICK x \in S : z = MaxTick - x
    BY DEF T
  <2>4. \A y \in S : MaxTick - y \in T
    BY DEF T
  <2> QED BY <1>0, <1>1, <2>2, <2>3, <2>4
<1>4. Min(S) \in S /\ (\A y \in S : Min(S) <= y)
  BY <1>2 DEF Min
<1>5. Max(S) \in S /\ (\A y \in S : Max(S) >= y)
  BY <1>3 DEF Max
<1> QED BY <1>1, <1>4, <1>5

\* The end of a log, in the words of RingIsLog.
LEMMA LogOfObserved ==
  ASSUME LogOf(oracle, observed, Len(observed)), Len(observed) \in Nat
  PROVE  RingIsLog
<1> DEFINE n == Len(observed)
           m == Min({n, OBSERVATION_NUM})
<1>1. OBSERVATION_NUM \in Nat /\ OBSERVATION_NUM > 0 /\ n \in Nat
  BY RingAssumption
<1>2. m = IF n <= OBSERVATION_NUM THEN n ELSE OBSERVATION_NUM
  BY <1>1, MinMax
<1>3. oracle.initialized <=> n > 0
  BY DEF LogOf
<1> HIDE DEF m
<1>4. ASSUME NEW k \in 0 .. m - 1 PROVE Back(oracle, k).time = observed[n - k].time
  <2>1. k \in 0 .. OBSERVATION_NUM - 1 /\ k < n
    BY <1>1, <1>2
  <2> QED BY <2>1 DEF LogOf
<1>5. ASSUME NEW k \in 0 .. m - 2
      PROVE  Back(oracle, k).cumulative - Back(oracle, k + 1).cumulative
               = observed[n - k].tick * (observed[n - k].time - observed[n - k - 1].time)
  <2>1. k \in 0 .. OBSERVATION_NUM - 2 /\ k + 1 < n
    BY <1>1, <1>2
  <2> QED BY <2>1 DEF LogOf
<1> QED BY <1>3, <1>4, <1>5 DEF RingIsLog, Back, m

\* A number between two ticks is not clamped.
LEMMA NotClamped ==
  ASSUME NEW x \in Int, MinTick <= x, x <= MaxTick
  PROVE  clamped(x) = x
<1>1. MinTick \in Int /\ MaxTick \in Int
  BY RingAssumption
<1>2. Min({MaxTick, x}) = IF MaxTick <= x THEN MaxTick ELSE x
  BY <1>1, MinMax
<1>3. Min({MaxTick, x}) = x
  BY <1>1, <1>2
<1>4. Max({MinTick, x}) = IF MinTick <= x THEN x ELSE MinTick
  BY <1>1, MinMax
<1> QED BY <1>3, <1>4 DEF clamped

\* The observation that observe_twap starts from, and the one that it reads back to.
LEMMA TwapReads ==
  ASSUME NEW o \in Ring, NEW w \in Nat, NEW now \in Nat, NEW x \in observe_twap(o, w, now)
  PROVE  /\ OBSERVATION_NUM > 2 /\ before_latest(o) = Back(o, 1) /\ Back(o, 1).time # 0
         /\ \E m \in 0 .. OBSERVATION_NUM - 1 :
              /\ Back(o, m).time <= saturating_sub(now, w) /\ Back(o, m).time # 0
              /\ m > 0 => Back(o, m - 1).time = 0 \/ ~(Back(o, m - 1).time <= saturating_sub(now, w))
              /\ Back(o, 1).time > Back(o, m).time
              /\ x = clamped(trunc_div(Back(o, 1).cumulative - Back(o, m).cumulative,
                                       Back(o, 1).time - Back(o, m).time))
<1> DEFINE N == OBSERVATION_NUM
           target == saturating_sub(now, w)
           slot_at(i) == (o.index + OBSERVATION_NUM - i) % OBSERVATION_NUM
           found == {i \in 0 .. OBSERVATION_NUM - 1 :
                       o.observations[slot_at(i)].time # 0
                         /\ o.observations[slot_at(i)].time <= target}
           latest == before_latest(o)
           older == {o.observations[i] : i \in find_observation_at_or_before(o, target)}
<1>1. OBSERVATION_NUM \in Nat /\ OBSERVATION_NUM > 0 /\ o.index \in 0 .. OBSERVATION_NUM - 1
  BY RingAssumption DEF Ring
<1>2. /\ ~(o.index < 2) /\ latest.time # 0
      /\ \E y \in older : latest.time > y.time
           /\ x = clamped(trunc_div(latest.cumulative - y.cumulative, latest.time - y.time))
  BY DEF observe_twap
<1>3. OBSERVATION_NUM > 2
  BY <1>1, <1>2
<1>4. latest = Back(o, 1)
  <2>1. 1 \in 0 .. OBSERVATION_NUM - 1 /\ o.index - 1 \in 0 .. OBSERVATION_NUM - 1 /\ 0 \in 0 .. OBSERVATION_NUM - 1
    BY <1>1, <1>2
  <2>2. saturating_sub(o.index, 1) = o.index - 1
    BY <1>1, <1>2 DEF saturating_sub
  <2>3. (o.index - 1) % OBSERVATION_NUM = o.index - 1
    BY <2>1, SlotOf
  <2>4. (o.index + OBSERVATION_NUM - 1) % OBSERVATION_NUM
          = IF 1 <= o.index THEN o.index - 1 ELSE o.index + OBSERVATION_NUM - 1
    BY <1>1, <2>1, SlotOf
  <2>5. (o.index + OBSERVATION_NUM - 1) % OBSERVATION_NUM = o.index - 1
    BY <1>1, <1>2, <2>4
  <2> QED BY <2>2, <2>3, <2>5 DEF before_latest, Back
<1>5. find_observation_at_or_before(o, target) = IF found = {} THEN {} ELSE {slot_at(Min(found))}
  BY DEF find_observation_at_or_before
<1>6. \A i : o.observations[slot_at(i)] = Back(o, i)
  BY DEF Back
<1> HIDE DEF slot_at
<1>7. found # {}
  BY <1>2, <1>5
<1>8. Min(found) \in found /\ \A y \in found : Min(found) <= y
  <2>1. found \in SUBSET Nat
    BY <1>1
  <2> HIDE DEF found
  <2>2. \E z \in found : \A y \in found : z <= y
    BY <1>7, <2>1, SmallestElement
  <2>3. /\ (CHOOSE z \in found : \A y \in found : z <= y) \in found
        /\ \A u \in found : (CHOOSE z \in found : \A y \in found : z <= y) <= u
    BY <2>2
  <2> QED BY <2>3 DEF Min
<1> DEFINE m == Min(found)
<1>9. older = {Back(o, m)}
  <2> HIDE DEF found
  <2> QED BY <1>5, <1>6, <1>7
<1>10. m \in 0 .. OBSERVATION_NUM - 1 /\ Back(o, m).time # 0 /\ Back(o, m).time <= target
  BY <1>6, <1>8
<1>11. m > 0 => Back(o, m - 1).time = 0 \/ ~(Back(o, m - 1).time <= target)
  <2> SUFFICES ASSUME m > 0, Back(o, m - 1).time # 0, Back(o, m - 1).time <= target
               PROVE  FALSE
    OBVIOUS
  <2> HIDE DEF m
  <2>1. m - 1 \in 0 .. OBSERVATION_NUM - 1
    BY <1>1, <1>10
  <2>2. m - 1 \in found
    BY <1>6, <2>1
  <2> HIDE DEF found
  <2>3. m <= m - 1
    BY <1>8, <2>2 DEF m
  <2>4. m \in Int
    BY <1>1, <1>10
  <2> HIDE DEF slot_at, target
  <2> QED BY <2>3, <2>4
<1> HIDE DEF m, older, latest, found
<1>12. latest.time > Back(o, m).time
       /\ x = clamped(trunc_div(latest.cumulative - Back(o, m).cumulative, latest.time - Back(o, m).time))
  BY <1>2, <1>9
<1> QED BY <1>2, <1>3, <1>4, <1>10, <1>11, <1>12 DEF latest

\* What observe_twap reads is a mean of the log.
LEMMA TwapOfLog ==
  ASSUME NEW o \in Ring, NEW s, NEW n \in Nat, LogOf(o, s, n), Logged(s, n),
         NEW w \in Nat, NEW now \in Nat, NEW x \in observe_twap(o, w, now)
  PROVE  \E i \in 1 .. n - 2 :
           LET stretch == {s[k].tick : k \in i + 1 .. n - 1}
           IN /\ s[i].time <= saturating_sub(now, w)
              /\ s[i + 1].time > saturating_sub(now, w)
              /\ Min(stretch) <= x /\ x <= Max(stretch)
<1> DEFINE target == saturating_sub(now, w)
<1>0. target \in Nat /\ UPDATE_DURATION \in Nat /\ UPDATE_DURATION > 0 /\ OBSERVATION_NUM \in Nat
      /\ MinTick \in Int /\ MaxTick \in Int
  BY RingAssumption DEF saturating_sub
<1> HIDE DEF target
<1>1. PICK m \in 0 .. OBSERVATION_NUM - 1 :
        /\ OBSERVATION_NUM > 2 /\ Back(o, 1).time # 0
        /\ Back(o, m).time <= target /\ Back(o, m).time # 0
        /\ m > 0 => Back(o, m - 1).time = 0 \/ ~(Back(o, m - 1).time <= target)
        /\ Back(o, 1).time > Back(o, m).time
        /\ x = clamped(trunc_div(Back(o, 1).cumulative - Back(o, m).cumulative,
                                 Back(o, 1).time - Back(o, m).time))
  BY TwapReads DEF target
<1>2. \A k \in 0 .. OBSERVATION_NUM - 1 : Back(o, k).time = IF k < n THEN s[n - k].time ELSE 0
  BY DEF LogOf
<1>3. /\ \A k \in 1 .. n : s[k].time \in Nat /\ s[k].tick \in MinTick .. MaxTick
      /\ \A k \in 1 .. n - 1 : s[k + 1].time >= s[k].time + UPDATE_DURATION
  BY DEF Logged
<1>4. 1 < n /\ m < n /\ 0 \in 0 .. OBSERVATION_NUM - 1 /\ 1 \in 0 .. OBSERVATION_NUM - 1
  <2>1. 0 \in 0 .. OBSERVATION_NUM - 1 /\ 1 \in 0 .. OBSERVATION_NUM - 1
    BY <1>0, <1>1
  <2> QED BY <1>1, <1>2, <2>1
<1>5. Back(o, 0).time = s[n].time /\ Back(o, 1).time = s[n - 1].time /\ Back(o, m).time = s[n - m].time
  <2>1. Back(o, 0).time = s[n - 0].time /\ n - 0 = n
    BY <1>2, <1>4
  <2> QED BY <1>2, <1>4, <2>1
<1>6. m >= 2
  <2>1. n - 1 \in 1 .. n - 1 /\ n - 1 \in 1 .. n /\ n \in 1 .. n /\ (n - 1) + 1 = n
    BY <1>4
  <2>2. s[n].time >= s[n - 1].time /\ s[n].time \in Nat /\ s[n - 1].time \in Nat
    <3>1. s[(n - 1) + 1].time >= s[n - 1].time + UPDATE_DURATION
      BY <1>3, <2>1
    <3>2. s[n].time \in Nat /\ s[n - 1].time \in Nat
      BY <1>3, <2>1
    <3> QED BY <1>0, <2>1, <3>1, <3>2
  <2>3. m # 0 /\ m # 1
    BY <1>1, <1>5, <2>2
  <2> QED BY <2>3
<1> DEFINE i == n - m
           stretch == {s[k].tick : k \in i + 1 .. n - 1}
<1>7. i \in 1 .. n - 2 /\ i + 1 = n - (m - 1) /\ m - 1 \in 0 .. OBSERVATION_NUM - 1 /\ m - 1 < n
      /\ m \in 2 .. OBSERVATION_NUM - 1 /\ i + 1 = n - m + 1
  BY <1>0, <1>4, <1>6
<1> HIDE DEF i
<1>8. s[i].time <= target
  BY <1>1, <1>5 DEF i
<1>9. s[i + 1].time > target
  <2>1. Back(o, m - 1).time = s[i + 1].time
    BY <1>2, <1>7
  <2>2. s[i].time \in Nat /\ s[i + 1].time \in Nat /\ s[i + 1].time >= s[i].time + UPDATE_DURATION
    <3>1. i \in 1 .. n /\ i + 1 \in 1 .. n /\ i \in 1 .. n - 1
      BY <1>7
    <3> QED BY <1>3, <3>1
  <2>3. s[i + 1].time # 0
    BY <1>0, <2>2
  <2> QED BY <1>0, <1>1, <1>6, <2>1, <2>2, <2>3
<1>10. stretch \in SUBSET (MinTick .. MaxTick) /\ stretch # {}
  <2>1. \A k \in i + 1 .. n - 1 : k \in 1 .. n
    BY <1>7
  <2>2. \A k \in i + 1 .. n - 1 : s[k].tick \in MinTick .. MaxTick
    BY <1>3, <2>1
  <2>3. i + 1 \in i + 1 .. n - 1
    BY <1>7
  <2> QED BY <2>2, <2>3
<1> DEFINE lo == Min(stretch)
           hi == Max(stretch)
<1>11. /\ lo \in stretch /\ hi \in stretch /\ \A t \in stretch : lo <= t /\ t <= hi
  <2> HIDE DEF stretch
  <2> QED BY <1>10, TickExtremes
<1> HIDE DEF lo, hi
<1>12. lo \in Int /\ hi \in Int /\ MinTick <= lo /\ hi <= MaxTick
  <2> HIDE DEF stretch
  <2> QED BY <1>0, <1>10, <1>11
<1>13. \A j \in n - m + 1 .. n - 1 : lo <= s[j].tick /\ s[j].tick <= hi
  BY <1>7, <1>11
<1> DEFINE c == Back(o, 1).cumulative - Back(o, m).cumulative
           d == Back(o, 1).time - Back(o, m).time
           q == trunc_div(c, d)
<1>14. d \in Nat /\ c \in Int /\ lo * d <= c /\ c <= hi * d
  BY <1>4, <1>7, <1>12, <1>13, MeanOfStretch
<1>15. d > 0
  <2>1. Back(o, 1).time \in Nat /\ Back(o, m).time \in Nat
    BY <1>4, BackType
  <2> QED BY <1>1, <2>1
<1>16. x = clamped(q)
  BY <1>1
<1> HIDE DEF c, d
<1>17. q \in Int /\ lo <= q /\ q <= hi
  BY <1>12, <1>14, <1>15, TruncBetween
<1> HIDE DEF q
<1>18. x = q
  <2>1. MinTick <= q /\ q <= MaxTick
    BY <1>0, <1>12, <1>17
  <2> QED BY <1>16, <1>17, <2>1, NotClamped
<1>19. Min(stretch) <= x /\ x <= Max(stretch)
  BY <1>17, <1>18 DEF lo, hi
<1> HIDE DEF stretch
<1> QED BY <1>7, <1>8, <1>9, <1>19 DEF target, stretch

(***************************************************************************)
(* The log grows.                                                          *)
(***************************************************************************)
\* What belongs to the references, and the types that TaxBacked does not ask for.
ReferenceInv ==
  /\ observed \in Seq([time : Nat, tick : Int])
  /\ LogOf(oracle, observed, Len(observed)) /\ Logged(observed, Len(observed))
  /\ vault \in [Tokens -> Nat] /\ last_swap_slot \in Nat /\ authority_tokens \in Nat

\* An accepted observation is appended to the log, a refused one leaves all as it is.
LEMMA RecordedLog ==
  ASSUME ReferenceInv, oracle \in Ring, clock.now \in Nat, NEW t \in MinTick .. MaxTick,
         observation_recorded(t)
  PROVE  /\ observed' \in Seq([time : Nat, tick : Int])
         /\ LogOf(oracle', observed', Len(observed')) /\ Logged(observed', Len(observed'))
<1> DEFINE n == Len(observed)
           now == clock.now
           e == [time |-> now, tick |-> t]
           s == Append(observed, e)
           O == [time : Nat, tick : Int]
<1>0. /\ observed \in Seq(O) /\ LogOf(oracle, observed, n) /\ Logged(observed, n) /\ n \in Nat
      /\ t \in Int /\ now \in Nat
  BY RingAssumption DEF ReferenceInv
<1>1. /\ oracle' = update(oracle, now, t)
      /\ observed' = IF accepts(oracle, now) THEN s ELSE observed
  BY DEF observation_recorded
<1>2. CASE ~accepts(oracle, now)
  <2>1. update(oracle, now, t) = oracle
    BY <1>2 DEF update
  <2>2. oracle' = oracle /\ observed' = observed
    BY <1>1, <1>2, <2>1
  <2> QED BY <1>0, <2>2
<1>3. CASE accepts(oracle, now)
  <2>1. e \in O /\ e.time = now /\ e.tick = t
    BY <1>0
  <2> HIDE DEF e, O
  <2>2. /\ s \in Seq(O) /\ Len(s) = n + 1 /\ s[n + 1] = e
        /\ \A k \in 1 .. n : s[k] = observed[k]
    BY <1>0, <2>1
  <2> HIDE DEF n, s
  <2>3. n > 0 => now >= observed[n].time + UPDATE_DURATION
    BY <1>0, <1>3, Accepted
  <2>4. Logged(s, n)
    <3>1. \A k \in 1 .. n : s[k].time \in Nat /\ s[k].tick \in MinTick .. MaxTick
      BY <1>0, <2>2 DEF Logged
    <3>2. ASSUME NEW k \in 1 .. n - 1 PROVE s[k + 1].time >= s[k].time + UPDATE_DURATION
      <4>1. k \in 1 .. n /\ k + 1 \in 1 .. n
        BY <1>0
      <4>2. s[k] = observed[k] /\ s[k + 1] = observed[k + 1]
        BY <2>2, <4>1
      <4> QED BY <1>0, <4>2 DEF Logged
    <3> QED BY <3>1, <3>2 DEF Logged
  <2>5. Logged(s, n + 1)
    <3>1. ASSUME NEW k \in 1 .. n + 1 PROVE s[k].time \in Nat /\ s[k].tick \in MinTick .. MaxTick
      <4>1. k \in 1 .. n \/ k = n + 1
        BY <1>0
      <4> QED BY <1>0, <2>1, <2>2, <2>4, <4>1 DEF Logged
    <3>2. ASSUME NEW k \in 1 .. (n + 1) - 1 PROVE s[k + 1].time >= s[k].time + UPDATE_DURATION
      <4>1. k \in 1 .. n - 1 \/ k = n
        BY <1>0
      <4>2. CASE k \in 1 .. n - 1
        BY <2>4, <4>2 DEF Logged
      <4>3. CASE k = n
        BY <1>0, <2>1, <2>2, <2>3, <4>3
      <4> QED BY <4>1, <4>2, <4>3
    <3> QED BY <3>1, <3>2 DEF Logged
  <2>6. LogOf(oracle, s, n)
    <3>1. ASSUME NEW k \in 0 .. OBSERVATION_NUM - 1, k < n PROVE s[n - k] = observed[n - k]
      <4>1. n - k \in 1 .. n
        BY <1>0, <3>1
      <4> QED BY <2>2, <4>1
    <3>2. \A k \in 0 .. OBSERVATION_NUM - 1 :
            Back(oracle, k).time = IF k < n THEN s[n - k].time ELSE 0
      BY <1>0, <3>1 DEF LogOf
    <3>3. ASSUME NEW k \in 0 .. OBSERVATION_NUM - 2, k + 1 < n
          PROVE  Back(oracle, k).cumulative - Back(oracle, k + 1).cumulative
                   = s[n - k].tick * (s[n - k].time - s[n - k - 1].time)
      <4>1. n - k \in 1 .. n /\ n - k - 1 \in 1 .. n
        BY <1>0, <3>3
      <4>2. s[n - k] = observed[n - k] /\ s[n - k - 1] = observed[n - k - 1]
        BY <2>2, <4>1
      <4> QED BY <1>0, <3>3, <4>2 DEF LogOf
    <3> QED BY <1>0, <3>2, <3>3 DEF LogOf
  <2>7. LogOf(update(oracle, now, t), s, n + 1)
    BY <1>0, <2>1, <2>2, <2>5, <2>6, LogGrows
  <2> QED BY <1>1, <1>3, <2>2, <2>5, <2>7 DEF O
<1> QED BY <1>2, <1>3

\* The amounts between two positive prices are numbers.
LEMMA AmountTypes ==
  ASSUME NEW a \in Nat, a > 0, NEW b \in Nat, b > 0, NEW up \in BOOLEAN
  PROVE  /\ get_delta_amount_0_unsigned(a, b, Liquidity, up) \in Nat
         /\ get_delta_amount_1_unsigned(a, b, Liquidity, up) \in Nat
<1>1. /\ Liquidity \in Nat /\ Q64 \in Nat /\ Q64 > 0 /\ Liquidity * Q64 \in Nat
  BY HookAssumption
<1>2. ASSUME NEW x \in Nat, NEW y \in Nat, NEW d \in Nat, d > 0
      PROVE  mul_div_ceil(x, y, d) \in Nat /\ mul_div_floor(x, y, d) \in Nat
  <2> DEFINE z == x * y
  <2>1. z \in Nat
    OBVIOUS
  <2> HIDE DEF z
  <2>2. (z + d - 1) \div d \in Nat /\ z \div d \in Nat
    BY <1>2, <2>1, CeilBounds, DivBounds
  <2> QED BY <2>2 DEF mul_div_ceil, mul_div_floor, z
<1>3. ASSUME NEW x \in Nat, NEW y \in Nat, x > 0, y > 0, x <= y
      PROVE  amount_0_between(x, y, Liquidity, up) \in Nat
  <2> DEFINE g == y - x
             w == Liquidity * Q64
  <2>1. g \in Nat /\ w \in Nat
    BY <1>1, <1>3
  <2> HIDE DEF w, g
  <2>2. mul_div_ceil(w, g, y) \in Nat /\ mul_div_floor(w, g, y) \in Nat
    BY <1>2, <1>3, <2>1
  <2>3. div_rounding_up(mul_div_ceil(w, g, y), x) \in Nat
    BY <1>3, <2>2, CeilBounds DEF div_rounding_up
  <2>4. mul_div_floor(w, g, y) \div x \in Nat
    BY <1>3, <2>2, DivBounds
  <2> QED BY <2>3, <2>4 DEF amount_0_between, w, g
<1>4. get_delta_amount_0_unsigned(a, b, Liquidity, up) \in Nat
  <2>1. CASE a <= b
    BY <1>3, <2>1 DEF get_delta_amount_0_unsigned
  <2>2. CASE ~(a <= b)
    <3>1. b <= a
      BY <2>2
    <3> QED BY <1>3, <2>2, <3>1 DEF get_delta_amount_0_unsigned
  <2> QED BY <2>1, <2>2
<1>5. get_delta_amount_1_unsigned(a, b, Liquidity, up) \in Nat
  <2> DEFINE g == IF a <= b THEN b - a ELSE a - b
  <2>1. g \in Nat
    OBVIOUS
  <2> HIDE DEF g
  <2>2. mul_div_ceil(Liquidity, g, Q64) \in Nat /\ mul_div_floor(Liquidity, g, Q64) \in Nat
    BY <1>1, <1>2, <2>1
  <2> QED BY <2>2 DEF get_delta_amount_1_unsigned, g
<1> QED BY <1>4, <1>5

\* What a step from one positive price to another takes and gives.
LEMMA StepNumbers ==
  ASSUME NEW p \in Nat, p > 0, NEW target \in Nat, NEW amount \in Nat,
         NEW base_input \in BOOLEAN, NEW zero_for_one \in BOOLEAN, NEW q \in Nat, q > 0, NEW step,
         step = compute_swap(p, target, Liquidity, amount, 0, base_input, zero_for_one, TRUE),
         step.ok, q = step.price
  PROVE  step.amount_in \in Nat /\ step.amount_out \in Int /\ step.fee \in Nat
<1> DEFINE L == Liquidity
           w == next_price(p, target, L, amount, 0, base_input, zero_for_one, TRUE)
           in_ == amount_in_between(p, w, L, zero_for_one)
           out_ == amount_out_between(p, w, L, zero_for_one)
           s == compute_swap(p, target, L, amount, 0, base_input, zero_for_one, TRUE)
<1>1. s.price = w
  BY Zenon DEF compute_swap
<1>2. s.amount_in = in_ /\ (s.ok => s.fee >= 0)
  BY Zenon DEF compute_swap
<1>3. s.fee = amount - in_ \/ s.fee = fee_on_top(in_, 0)
  BY Zenon DEF compute_swap, input_fee
<1>4. s.amount_out = out_ \/ s.amount_out = least(out_, amount)
  <2>1. CASE base_input
    BY <2>1, Zenon DEF compute_swap
  <2>2. CASE ~base_input
    BY <2>2, Zenon DEF compute_swap
  <2> QED BY <2>1, <2>2
<1>5. w = q
  BY <1>1, Zenon
<1> HIDE DEF w, s, L
<1>6. in_ \in Nat /\ out_ \in Nat
  <2>1. amount_in_between(p, q, Liquidity, zero_for_one) \in Nat
    BY AmountTypes DEF amount_in_between
  <2>2. amount_out_between(p, q, Liquidity, zero_for_one) \in Nat
    BY AmountTypes DEF amount_out_between
  <2> QED BY <1>5, <2>1, <2>2 DEF L
<1> HIDE DEF in_, out_
<1>7. amount - in_ \in Int /\ fee_on_top(in_, 0) \in Int /\ least(out_, amount) \in Nat
  BY <1>6, StepTypes
<1>8. step = s
  BY DEF s, L
<1>9. s.fee \in Int /\ s.fee >= 0
  BY <1>2, <1>3, <1>7, <1>8
<1>10. s.fee \in Nat
  BY ONLY <1>9
<1>11. s.amount_out \in Int
  <2>1. out_ \in Int /\ least(out_, amount) \in Int
    BY ONLY <1>6, <1>7
  <2> QED BY <1>4, <2>1, Zenon
<1> QED BY <1>2, <1>6, <1>8, <1>10, <1>11, Zenon

\* A swap moves tokens that are there, and records no tick that is not the pool's.
LEMMA SwapRecorded ==
  ASSUME ConfigInv, ReferenceInv, NEW s \in Swaps, NEW configs \in {arb_config, {}},
         swap_v2(s, configs)
  PROVE  ReferenceInv'
<1> USE DEF ConfigInv
<1>1. PICK c \in IF configs = {} THEN {[enabled |-> FALSE]} ELSE configs :
        \E h \in {pre_swap_arb_check(sqrt_price, tick, c, oracle, clock)} :
          exact_internal_v2(s, configs, h,
            configs # {} /\ s.base_input /\ detect_same_slot_manipulation(h.price, oracle, clock.now))
  BY DEF swap_v2
<1>2. PICK hook : /\ hook = pre_swap_arb_check(sqrt_price, tick, c, oracle, clock)
                  /\ exact_internal_v2(s, configs, hook,
                       configs # {} /\ s.base_input
                         /\ detect_same_slot_manipulation(hook.price, oracle, clock.now))
  BY <1>1
<1>3. /\ sqrt_price \in Nat /\ tick \in MinTick .. MaxTick - 1 /\ oracle \in Ring
      /\ clock.slot \in Nat /\ clock.now \in Nat /\ ConfigInv'
  BY SwapStep DEF HookShape
<1>4. /\ s.zero_for_one \in BOOLEAN /\ s.base_input \in BOOLEAN /\ s.amount \in Nat
      /\ s.limit \in Nat
  BY InputAssumption
<1> DEFINE detected == configs # {} /\ s.base_input
                         /\ detect_same_slot_manipulation(hook.price, oracle, clock.now)
           in == IF s.zero_for_one THEN 0 ELSE 1
           tax == IF detected THEN tax_of(hook.config, s.amount) ELSE 0
           target == limit_or_default(s)
           step == compute_swap(hook.price, target, Liquidity, s.amount - tax, 0,
                                s.base_input, s.zero_for_one, TRUE)
           paid == step.amount_in + step.fee + tax
<1>5. /\ hook.price > 0 /\ step.ok
      /\ vault[1 - in] >= step.amount_out
      /\ sqrt_price' = step.price
      /\ \E t \in get_tick_at_sqrt_price(step.price) :
           IF t # hook.tick THEN observation_recorded(hook.tick) ELSE UNCHANGED <<oracle, observed>>
      /\ vault' = [vault EXCEPT ![in] = @ + paid, ![1 - in] = @ - step.amount_out]
      /\ last_swap_slot' = clock.slot
      /\ authority_tokens' = authority_tokens
  BY <1>2, Zenon DEF exact_internal_v2, paid_in
<1>6. configs = {} => hook.price = sqrt_price /\ hook.tick = tick
  <2> SUFFICES ASSUME configs = {} PROVE hook.price = sqrt_price /\ hook.tick = tick
    OBVIOUS
  <2>1. c = [enabled |-> FALSE]
    BY <1>1
  <2>2. ~c.enabled
    BY <2>1
  <2>3. hook = [price |-> sqrt_price, tick |-> tick, config |-> c, correction |-> NoCorrection]
    BY <1>2, <2>2, Zenon DEF pre_swap_arb_check
  <2> QED BY <2>3
<1>7. configs # {} => /\ hook.price \in Nat /\ hook.tick \in MinTick .. MaxTick - 1
                      /\ hook.config \in ArbConfig
  BY <1>1, <1>2, HookOutcome
<1>8. hook.price \in Nat /\ hook.tick \in MinTick .. MaxTick
  <2>1. MinTick \in Int /\ MaxTick \in Int
    BY RingAssumption
  <2>2. hook.price \in Nat /\ hook.tick \in MinTick .. MaxTick - 1
    BY <1>3, <1>6, <1>7
  <2> QED BY <2>1, <2>2
<1>9. tax \in Nat /\ tax <= s.amount
  <2>1. detected => configs # {}
    BY Zenon
  <2> HIDE DEF detected
  <2>2. detected => tax_of(hook.config, s.amount) \in Nat /\ tax_of(hook.config, s.amount) <= s.amount
    BY <1>4, <1>7, <2>1, TaxNat
  <2> QED BY <1>4, <2>2
<1>10. target \in Nat
  <2>1. MinTick \in MinTick .. MaxTick /\ MaxTick \in MinTick .. MaxTick
    BY RingAssumption
  <2>2. /\ SqrtPrice[MinTick] \in Nat /\ SqrtPrice[MaxTick] \in Nat /\ SqrtPrice[MaxTick] > 0
    BY <2>1, ReferencePrice
  <2> QED BY <1>4, <2>2 DEF limit_or_default
<1>11. in \in Tokens /\ 1 - in \in Tokens /\ in # 1 - in
  BY DEF Tokens
<1> DEFINE amount == s.amount - tax
<1>12. amount \in Nat
  <2> HIDE DEF tax
  <2> QED BY <1>4, <1>9
<1> HIDE DEF tax, target, amount, detected, in
<1> DEFINE p == hook.price
           q == step.price
<1>13. q \in Nat /\ q > 0
  <2>1. sqrt_price' = q /\ q \in Nat
    BY <1>3, <1>5 DEF HookShape
  <2>2. get_tick_at_sqrt_price(q) # {}
    BY <1>5
  <2> HIDE DEF q
  <2>3. SqrtPrice[MinTick] <= q
    BY <2>1, <2>2, TickAt
  <2>4. MinTick \in MinTick .. MaxTick
    BY RingAssumption
  <2>5. SqrtPrice[MinTick] \in Nat /\ SqrtPrice[MinTick] > 0
    BY <2>4, ReferencePrice
  <2> QED BY <2>1, <2>3, <2>5
<1>14. step.amount_in \in Nat /\ step.amount_out \in Int /\ step.fee \in Nat
  <2>1. step = compute_swap(p, target, Liquidity, amount, 0, s.base_input, s.zero_for_one, TRUE)
    BY DEF amount
  <2> DEFINE st == step
  <2>2. st.ok /\ q = st.price
    BY <1>5
  <2> HIDE DEF st
  <2>3. st = compute_swap(p, target, Liquidity, amount, 0, s.base_input, s.zero_for_one, TRUE)
    BY <2>1 DEF st
  <2>4. p \in Nat /\ p > 0
    BY <1>5, <1>8
  <2> HIDE DEF p, q
  <2>5. st.amount_in \in Nat /\ st.amount_out \in Int /\ st.fee \in Nat
    BY <1>4, <1>10, <1>12, <1>13, <2>2, <2>3, <2>4, StepNumbers
  <2> QED BY <2>5 DEF st
<1> HIDE DEF step, p
<1>15. vault' \in [Tokens -> Nat]
  <2>1. vault \in [Tokens -> Nat]
    BY DEF ReferenceInv
  <2>2. vault[in] \in Nat /\ vault[1 - in] \in Nat
    BY <1>11, <2>1
  <2>3. vault[in] + paid \in Nat /\ vault[1 - in] - step.amount_out \in Nat
    BY <1>5, <1>9, <1>14, <2>2
  <2> HIDE DEF paid
  <2> QED BY <1>5, <1>11, <2>1, <2>3
<1>16. last_swap_slot' \in Nat /\ authority_tokens' \in Nat
  BY <1>3, <1>5 DEF ReferenceInv
<1>17. CASE observation_recorded(hook.tick)
  <2>1. /\ observed' \in Seq([time : Nat, tick : Int])
        /\ LogOf(oracle', observed', Len(observed')) /\ Logged(observed', Len(observed'))
    BY <1>3, <1>8, <1>17, RecordedLog
  <2> QED BY <1>15, <1>16, <2>1 DEF ReferenceInv
<1>18. CASE UNCHANGED <<oracle, observed>>
  BY <1>15, <1>16, <1>18 DEF ReferenceInv
<1>19. observation_recorded(hook.tick) \/ UNCHANGED <<oracle, observed>>
  BY <1>5
<1> QED BY <1>17, <1>18, <1>19

\* Every instruction keeps the log.
LEMMA RecordedStep ==
  ASSUME ConfigInv, ReferenceInv, HooksStep
  PROVE  ReferenceInv'
<1>1. CASE \E s \in Swaps : \E configs \in {arb_config, {}} : swap_v2(s, configs)
  BY <1>1, SwapRecorded
<1>2. ASSUME UNCHANGED <<poolVars, oracle, observed, authority_tokens>> PROVE ReferenceInv'
  BY <1>2 DEF poolVars, ReferenceInv
<1>3. CASE arb_sweep
  <2>1. PICK c \in arb_config, o \in {oracle} \cup {RingAfter(h.observations) : h \in Histories} :
          \E x \in get_twap_tick(o, clock.now) : sweep(c, o, x)
    BY <1>3 DEF arb_sweep
  <2>2. PICK x \in get_twap_tick(o, clock.now) : sweep(c, o, x)
    BY <2>1
  <2> DEFINE r == SqrtPrice[x]
             b == calculate_spread(sqrt_price, r).a_to_b
             amount == calculate_sweep_amount(c, sqrt_price, r)
             gain == profit(sqrt_price, amount, b)
             share == (gain * c.treasury_share_bps) \div Bps
  <2>3. /\ authority_tokens >= share /\ authority_tokens' = authority_tokens - share
        /\ UNCHANGED <<last_swap_slot, vault, oracle, observed>>
    BY <2>2, Zenon DEF sweep
  <2>4. share \in Nat
    <3>1. o \in Ring
      <4>1. CASE o = oracle
        BY <4>1 DEF ConfigInv, HookShape
      <4>2. CASE \E h \in Histories : o = RingAfter(h.observations)
        <5>1. PICK h \in Histories : o = RingAfter(h.observations)
          BY <4>2
        <5>2. h.observations \in Seq([time : Nat, tick : Int])
          BY InputAssumption
        <5> QED BY <5>1, <5>2, RingAfterRing
      <4> QED BY <2>1, <4>1, <4>2
    <3>2. c \in ArbConfig /\ sqrt_price \in Nat /\ clock.now \in Nat
      BY DEF ConfigInv, HookShape
    <3>3. x \in MinTick .. MaxTick
      BY <3>1, <3>2, ReferenceTick
    <3>4. r \in Nat /\ r > 0
      BY <3>3, ReferencePrice
    <3> HIDE DEF r
    <3>5. amount \in Nat /\ b \in BOOLEAN
      BY <3>2, <3>4, SweepSound
    <3> HIDE DEF amount, b
    <3>6. gain \in Nat
      BY <3>2, <3>5, ProfitNat
    <3> HIDE DEF gain
    <3>7. c.treasury_share_bps \in Nat /\ Bps \in Nat /\ Bps > 0
      BY <3>2, HookAssumption DEF ArbConfig
    <3>8. gain * c.treasury_share_bps \in Nat
      BY <3>6, <3>7
    <3> QED BY <3>7, <3>8, DivBounds
  <2> HIDE DEF share
  <2> QED BY <2>3, <2>4 DEF ReferenceInv
<1>4. CASE \E a \in ArbConfigs : init_arb_config(a)
  BY <1>2, <1>4 DEF init_arb_config
<1>5. CASE \E x \in Taxes : update_manipulation_tax(x)
  BY <1>2, <1>5 DEF update_manipulation_tax
<1>6. CASE \E b \in BOOLEAN : toggle_arb(b)
  BY <1>2, <1>6 DEF toggle_arb
<1>7. CASE fund_authority
  <2>1. authority_tokens' \in Nat /\ UNCHANGED <<poolVars, oracle, observed>>
    BY <1>7, InputAssumption DEF fund_authority
  <2> QED BY <2>1 DEF poolVars, ReferenceInv
<1>8. CASE \E step \in Steps : advance_clock(step)
  BY <1>2, <1>8 DEF advance_clock
<1> QED BY <1>1, <1>3, <1>4, <1>5, <1>6, <1>7, <1>8 DEF HooksStep

\* A pool starts with the log of its history.
LEMMA RecordedStart ==
  ASSUME HooksInit
  PROVE  ReferenceInv
<1>1. PICK h \in Histories : observed = h.observations /\ oracle = RingAfter(h.observations)
  BY DEF HooksInit
<1>2. observed \in Seq([time : Nat, tick : Int]) /\ observations_possible(observed)
  BY <1>1, InputAssumption
<1>3. LogOf(oracle, observed, Len(observed)) /\ Logged(observed, Len(observed))
  BY <1>1, <1>2, RingAfterLog
<1>4. vault \in [Tokens -> Nat]
  <2>1. Covered /\ corrected_at = 0
    BY CoveredStart DEF HooksInit
  <2> QED BY <2>1 DEF Covered
<1>5. last_swap_slot \in Nat /\ authority_tokens \in Nat
  BY DEF HooksInit
<1> QED BY <1>2, <1>3, <1>4, <1>5 DEF ReferenceInv

\* What the shield takes for the recent price is a mean of ticks that the pool has
\* recorded, over one stretch that begins at or before its window and ends in it,
\* and the ring is the end of everything ever recorded: for every length of the
\* ring, every window, every history and every order of swaps, sweeps and settings.
THEOREM ReferencesCorrect == Spec => []ReferenceExact
<1> DEFINE Inv == ConfigInv /\ ReferenceInv
<1>1. Init => Inv
  BY HooksStart, RecordedStart DEF Init
<1>2. Inv /\ [Next]_vars => Inv'
  <2> SUFFICES ASSUME Inv, [Next]_vars PROVE Inv'
    OBVIOUS
  <2>1. CASE UNCHANGED hookVars
    BY <2>1 DEF hookVars, poolVars, ConfigInv, HookShape, ConfigExact, CorrectionSound, ReferenceInv
  <2>2. CASE HooksNext
    <3>1. HooksStep
      BY <2>2 DEF HooksNext
    <3>2. ConfigInv'
      BY <3>1, SwapStep, SweepStep, InitConfigStep, SettingStep, OutsideStep DEF HooksStep
    <3> QED BY <3>1, <3>2, RecordedStep
  <2>3. UNCHANGED hookVars \/ HooksNext
    BY DEF Next, vars
  <2> QED BY <2>1, <2>2, <2>3
<1>3. Inv => ReferenceExact
  <2> SUFFICES ASSUME Inv PROVE ReferenceExact
    OBVIOUS
  <2>0. /\ observed \in Seq([time : Nat, tick : Int]) /\ oracle \in Ring /\ clock.now \in Nat
        /\ LogOf(oracle, observed, Len(observed)) /\ Logged(observed, Len(observed))
    BY DEF ConfigInv, HookShape, ReferenceInv
  <2>1. HooksTypeOK
    <3>1. Cardinality(arb_config) <= 1
      <4>1. CASE arb_config = {}
        <5>1. Cardinality(arb_config) = 0
          BY <4>1, FS_EmptySet
        <5> QED BY <5>1
      <4>2. CASE \E c \in ArbConfig : arb_config = {c}
        <5>1. PICK c : arb_config = {c}
          BY <4>2
        <5>2. Cardinality({c}) = 1
          BY FS_Singleton
        <5> QED BY <5>1, <5>2
      <4> QED BY <4>1, <4>2 DEF ConfigInv, HookShape
    <3>2. oracle.index \in 0 .. OBSERVATION_NUM - 1
      BY <2>0 DEF Ring
    <3>3. tick \in MinTick .. MaxTick
      BY RingAssumption DEF ConfigInv, HookShape
    <3> QED BY <3>1, <3>2, <3>3 DEF HooksTypeOK, ConfigInv, HookShape, ReferenceInv
  <2>2. Len(observed) \in Nat
    BY <2>0
  <2>3. RingIsLog
    BY <2>0, <2>2, LogOfObserved
  <2>4. ASSUME NEW w \in {TaxWindow} \cup {c.twap_window_seconds : c \in arb_config}
        PROVE  w \in Nat
    <3>1. \A c \in arb_config : c.twap_window_seconds \in Nat
      BY DEF ConfigInv, HookShape, ArbConfig
    <3>2. TaxWindow \in Nat
      BY HookAssumption
    <3> QED BY <3>1, <3>2
  <2>5. ReferenceIsMean
    <3> SUFFICES ASSUME NEW w \in {TaxWindow} \cup {c.twap_window_seconds : c \in arb_config},
                        NEW x \in observe_twap(oracle, w, clock.now)
                 PROVE  \E i \in 1 .. Len(observed) - 2 :
                          LET stretch == {observed[k].tick : k \in i + 1 .. Len(observed) - 1}
                          IN /\ observed[i].time <= saturating_sub(clock.now, w)
                             /\ observed[i + 1].time > saturating_sub(clock.now, w)
                             /\ Min(stretch) <= x /\ x <= Max(stretch)
      BY DEF ReferenceIsMean
    <3> QED BY <2>0, <2>2, <2>4, TwapOfLog
  <2> QED BY <2>1, <2>3, <2>5 DEF ReferenceExact
<1> QED BY <1>1, <1>2, <1>3, PTL DEF Spec
=============================================================================
