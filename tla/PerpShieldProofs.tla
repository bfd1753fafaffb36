-------------------------- MODULE PerpShieldProofs --------------------------
(***************************************************************************)
(* Proofs about PerpShield, for every number of traders, every threshold   *)
(* and every length of an epoch.                                           *)
(***************************************************************************)
EXTENDS PerpShield, SumTheorems

Fields == {"active", "triggered_at_slot", "reset_at_slot", "trigger_count",
           "liquidations_this_epoch", "epoch_start_slot", "last_mark_price_x64",
           "last_price_slot", "price_velocity_bps"}

\* What the argument needs to know of a shield: its fields and the types of
\* those that tell when and how often the breaker was armed.
Breaker(s) ==
  /\ DOMAIN s = Fields
  /\ s.active \in BOOLEAN
  /\ s.triggered_at_slot \in Nat
  /\ s.reset_at_slot \in Nat
  /\ s.trigger_count \in Nat

\* BreakerClock, of any shield.
Clocked(s) ==
  /\ s.active => s.trigger_count > 0
  /\ ~s.active /\ s.trigger_count > 0 => s.reset_at_slot >= s.triggered_at_slot
  /\ s.triggered_at_slot <= slot /\ s.reset_at_slot <= slot

\* The inductive invariant: GuardHolds speaks of a shield just written, so it
\* needs BreakerClock, and TriggerPossible the type of the count.
IInv ==
  /\ slot \in Nat
  /\ Breaker(shield)
  /\ alerts \subseteq Nat
  /\ BreakerClock
  /\ TriggerPossible
  /\ GuardHolds

(***************************************************************************)
(* What the steps of the guard do to the breaker.                          *)
(***************************************************************************)
\* reset_epoch touches the count of liquidations only.
LEMMA ResetEpochKeeps ==
  ASSUME NEW s, Breaker(s)
  PROVE  /\ Breaker(reset_epoch(s))
         /\ reset_epoch(s).active = s.active
         /\ reset_epoch(s).triggered_at_slot = s.triggered_at_slot
         /\ reset_epoch(s).reset_at_slot = s.reset_at_slot
         /\ reset_epoch(s).trigger_count = s.trigger_count
BY DEF reset_epoch, Breaker, Fields

\* Neither does record_liquidation touch the breaker.
LEMMA RecordKeeps ==
  ASSUME NEW s, Breaker(s)
  PROVE  /\ Breaker(record_liquidation(s))
         /\ record_liquidation(s).active = s.active
         /\ record_liquidation(s).triggered_at_slot = s.triggered_at_slot
         /\ record_liquidation(s).reset_at_slot = s.reset_at_slot
         /\ record_liquidation(s).trigger_count = s.trigger_count
<1> DEFINE r == IF slot >= s.epoch_start_slot + EpochSlots THEN reset_epoch(s) ELSE s
<1>1. /\ Breaker(r)
      /\ r.active = s.active
      /\ r.triggered_at_slot = s.triggered_at_slot
      /\ r.reset_at_slot = s.reset_at_slot
      /\ r.trigger_count = s.trigger_count
  BY ResetEpochKeeps
<1>2. record_liquidation(s) = [r EXCEPT !.liquidations_this_epoch = least(@ + 1, U16Max)]
  BY DEF record_liquidation
<1> HIDE DEF r
<1> QED BY <1>1, <1>2 DEF Breaker, Fields

\* Measuring the price leaves the breaker as it is.
LEMMA VelocityKeeps ==
  ASSUME NEW s, Breaker(s)
  PROVE  /\ Breaker(update_price_velocity(s))
         /\ update_price_velocity(s).active = s.active
         /\ update_price_velocity(s).triggered_at_slot = s.triggered_at_slot
         /\ update_price_velocity(s).reset_at_slot = s.reset_at_slot
         /\ update_price_velocity(s).trigger_count = s.trigger_count
<1> DEFINE seen == [s EXCEPT !.last_mark_price_x64 = market.mark_price_x64,
                             !.last_price_slot = slot]
           v == least(((price_change(s.last_mark_price_x64, market.mark_price_x64) * Bps)
                         \div s.last_mark_price_x64) \div (slot - s.last_price_slot), U16Max)
<1>1. update_price_velocity(s) \in
        {[seen EXCEPT !.price_velocity_bps = 0], s, [seen EXCEPT !.price_velocity_bps = v]}
  BY DEF update_price_velocity
<1> HIDE DEF v
<1> QED BY <1>1 DEF Breaker, Fields

\* Nor do the two together, as the guard measures.
LEMMA MeasuredKeeps ==
  ASSUME NEW s, Breaker(s)
  PROVE  /\ Breaker(measured(s))
         /\ measured(s).active = s.active
         /\ measured(s).triggered_at_slot = s.triggered_at_slot
         /\ measured(s).reset_at_slot = s.reset_at_slot
         /\ measured(s).trigger_count = s.trigger_count
BY VelocityKeeps, RecordKeeps DEF measured

\* Arming counts the trigger and records its slot.
LEMMA ArmedBreaker ==
  ASSUME NEW s, Breaker(s), Clocked(s), slot \in Nat
  PROVE  /\ Breaker(armed(s)) /\ Clocked(armed(s))
         /\ armed(s).trigger_count = s.trigger_count + 1
         /\ armed(s).active
BY DEF armed, Breaker, Clocked, Fields

\* The guard's release after the cooldown keeps the clock and the count.
LEMMA AutoResetBreaker ==
  ASSUME NEW s, Breaker(s), Clocked(s), slot \in Nat
  PROVE  /\ Breaker(auto_reset(s)) /\ Clocked(auto_reset(s))
         /\ auto_reset(s).trigger_count = s.trigger_count
<1> DEFINE r == [s EXCEPT !.active = FALSE, !.reset_at_slot = slot]
<1>1. /\ DOMAIN r = Fields
      /\ r.active = FALSE
      /\ r.reset_at_slot = slot
      /\ r.triggered_at_slot = s.triggered_at_slot
      /\ r.trigger_count = s.trigger_count
  BY DEF Breaker, Fields
<1>2. auto_reset(s) = r \/ auto_reset(s) = s
  BY DEF auto_reset
<1> HIDE DEF r
<1>3. Breaker(r)
  BY <1>1 DEF Breaker
<1>4. Clocked(r)
  BY <1>1 DEF Breaker, Clocked
<1>5. CASE auto_reset(s) = r
  BY <1>1, <1>3, <1>4, <1>5
<1>6. CASE auto_reset(s) = s
  BY <1>6
<1> QED BY <1>2, <1>5, <1>6

\* The guard as a whole: the breaker's clock is kept, no trigger is lost, and
\* it ends inactive only if nothing it has just measured is elevated.
LEMMA GuardedBreaker ==
  ASSUME NEW s, Breaker(s), Clocked(s), slot \in Nat
  PROVE  /\ Breaker(guarded(s)) /\ Clocked(guarded(s))
         /\ guarded(s).trigger_count >= s.trigger_count
         /\ ~guarded(s).active => ~should_trip(guarded(s))
<1> DEFINE a == auto_reset(s)
           m == measured(a)
<1>1. Breaker(a) /\ Clocked(a) /\ a.trigger_count = s.trigger_count
  BY AutoResetBreaker
<1>2. Breaker(m) /\ Clocked(m) /\ m.trigger_count = s.trigger_count
  <2> HIDE DEF a
  <2> QED BY <1>1, MeasuredKeeps DEF Clocked
<1>3. guarded(s) = tripped(m)
  BY DEF guarded
<1> HIDE DEF m
<1>4. CASE ~m.active /\ should_trip(m)
  <2>1. guarded(s) = armed(m)
    BY <1>3, <1>4 DEF tripped
  <2> QED BY <2>1, <1>2, ArmedBreaker DEF Breaker
<1>5. CASE ~(~m.active /\ should_trip(m))
  <2>1. guarded(s) = m
    BY <1>3, <1>5 DEF tripped
  <2> QED BY <2>1, <1>2, <1>5 DEF Breaker
<1> QED BY <1>4, <1>5

(***************************************************************************)
(* The market.                                                             *)
(***************************************************************************)
Market == [open_interest : [Sides -> Nat], oi_notional : [Sides -> Nat], mark_price_x64 : Nat,
           funding_rate_x64 : Int, cumulative_funding_x64 : Int, last_funding_slot : Nat]

Commitment == [exists : {TRUE}, is_long : BOOLEAN, collateral_amount : Nat]

Astray == [closings : [Sides -> Nat], notional : [Sides -> Nat], tokens : Nat]

\* The invariant of the market: it is its own strengthening once the accounts have
\* their fields, for every sum is one of collateral that exists.
MarketIInv ==
  /\ market \in Market
  /\ commitment \in [Owners -> {NoCommitment} \cup Commitment]
  /\ live \subseteq {o \in Owners : commitment[o].exists}
  /\ held \in [Vaults -> Nat]
  /\ astray \in Astray
  /\ slot \in Nat
  /\ OpenInterestBounded
  /\ CollateralAccounted

\* What is in one place only sums to what is there.
LEMMA PointSum ==
  ASSUME NEW S, IsFiniteSet(S), NEW x, NEW n \in Int
  PROVE  SumFunctionOnSet([v \in S |-> IF v = x THEN n ELSE 0], S) = IF x \in S THEN n ELSE 0
<1> DEFINE e == [v \in S |-> IF v = x THEN n ELSE 0]
           z == [v \in S |-> 0]
<1>1. \A v \in S : z[v] = 0 /\ e[v] = IF v = x THEN n ELSE 0
  OBVIOUS
<1> HIDE DEF e, z
<1>2. SumFunctionOnSet(z, S) = 0
  BY <1>1, SumZero
<1>3. CASE x \in S
  <2>1. \A v \in S : z[v] \in Int /\ e[v] \in Int /\ (v # x => z[v] = e[v])
    BY <1>1
  <2>2. SumFunctionOnSet(e, S) = (SumFunctionOnSet(z, S) - z[x]) + e[x]
    BY <1>3, <2>1, SumUpdate
  <2> QED BY <1>1, <1>2, <1>3, <2>2 DEF e
<1>4. CASE x \notin S
  <2>1. SumFunctionOnSet(e, S) = 0
    BY <1>1, <1>4, SumZero
  <2> QED BY <1>4, <2>1 DEF e
<1> QED BY <1>3, <1>4

\* A transfer changes what the authority's accounts hold together by what comes from
\* outside or goes there.
LEMMA TransferSum ==
  ASSUME held \in [Vaults -> Nat], NEW from, NEW to, NEW n \in Nat,
         from \in Vaults => n <= held[from]
  PROVE  /\ transferred(from, to, n) \in [Vaults -> Nat]
         /\ SumFunctionOnSet(transferred(from, to, n), Vaults)
              = (SumFunctionOnSet(held, Vaults) + (IF to \in Vaults THEN n ELSE 0))
                  - (IF from \in Vaults THEN n ELSE 0)
         /\ SumFunctionOnSet(held, Vaults) \in Nat
<1> DEFINE t == transferred(from, to, n)
           h == held
           i == [v \in Vaults |-> IF v = to THEN n ELSE 0]
           o == [v \in Vaults |-> IF v = from THEN -n ELSE 0]
           m == [v \in Vaults |-> h[v] + i[v]]
<1>1. t = [v \in Vaults |-> h[v] + (IF v = to THEN n ELSE 0) - (IF v = from THEN n ELSE 0)]
  BY DEF transferred
<1>2. IsFiniteSet(Vaults) /\ h \in [Vaults -> Nat] /\ -n \in Int
  BY MarketAssumption
<1>3. t \in [Vaults -> Nat]
  <2>1. \A v \in Vaults : h[v] + (IF v = to THEN n ELSE 0) - (IF v = from THEN n ELSE 0) \in Nat
    BY <1>2
  <2> QED BY <1>1, <2>1
<1>4. \A v \in Vaults : /\ h[v] \in Int /\ i[v] \in Int /\ m[v] = h[v] + i[v]
                        /\ o[v] \in Int /\ m[v] \in Int /\ t[v] = m[v] + o[v]
  BY <1>1, <1>2
<1>5. /\ SumFunctionOnSet(i, Vaults) = IF to \in Vaults THEN n ELSE 0
      /\ SumFunctionOnSet(o, Vaults) = IF from \in Vaults THEN -n ELSE 0
  <2>1. n \in Int
    OBVIOUS
  <2> QED BY <1>2, <2>1, PointSum
<1> HIDE DEF t, i, o, m
<1>6. SumFunctionOnSet(m, Vaults) = SumFunctionOnSet(h, Vaults) + SumFunctionOnSet(i, Vaults)
  BY <1>2, <1>4, SumPlus
<1>7. SumFunctionOnSet(t, Vaults) = SumFunctionOnSet(m, Vaults) + SumFunctionOnSet(o, Vaults)
  BY <1>2, <1>4, SumPlus
<1>8. SumFunctionOnSet(h, Vaults) \in Nat
  BY <1>2, SumNat
<1> QED BY <1>3, <1>5, <1>6, <1>7, <1>8 DEF t

\* An account that exists has a side and an amount.
LEMMA CommitmentFields ==
  ASSUME NEW c \in {NoCommitment} \cup Commitment
  PROVE  /\ c.exists \in BOOLEAN
         /\ c.exists => c \in Commitment /\ c.is_long \in BOOLEAN /\ c.collateral_amount \in Nat
<1>1. CASE c = NoCommitment
  BY <1>1 DEF NoCommitment
<1>2. CASE c \in Commitment
  BY <1>2 DEF Commitment
<1> QED BY <1>1, <1>2

\* Finitely many positions are open, on either side.
LEMMA SidesFinite ==
  ASSUME MarketIInv
  PROVE  /\ IsFiniteSet(live) /\ live \subseteq Owners
         /\ collateral \in [Owners -> Nat]
         /\ \A side \in Sides : on_side(side) \subseteq live /\ IsFiniteSet(on_side(side))
<1>1. IsFiniteSet(live) /\ live \subseteq Owners
  BY MarketAssumption, FS_Subset DEF MarketIInv
<1>2. \A side \in Sides : on_side(side) \subseteq live
  BY DEF on_side
<1>3. \A side \in Sides : IsFiniteSet(on_side(side))
  BY <1>1, <1>2, FS_Subset
<1>4. ASSUME NEW o \in Owners
      PROVE  (IF commitment[o].exists THEN commitment[o].collateral_amount ELSE 0) \in Nat
  <2>1. commitment[o] \in {NoCommitment} \cup Commitment
    BY DEF MarketIInv
  <2> QED BY <2>1, CommitmentFields
<1> QED BY <1>1, <1>2, <1>3, <1>4 DEF collateral

\* handler_init_market leaves nothing open.
LEMMA MarketInit == InitMarket => MarketIInv
<1> SUFFICES ASSUME InitMarket PROVE MarketIInv
  OBVIOUS
<1>1. /\ live = {} /\ slot = 1
      /\ held = [v \in Vaults |-> 0]
      /\ astray = [closings |-> [s \in Sides |-> 0], notional |-> [s \in Sides |-> 0], tokens |-> 0]
  BY DEF InitMarket
<1>2. market \in Market /\ \A side \in Sides : market.open_interest[side] = 0 /\ market.oi_notional[side] = 0
  BY DEF InitMarket, Market, Sides
<1>3. \A side \in Sides : on_side(side) = {}
  BY <1>1 DEF on_side
<1>4. Cardinality({}) = 0 /\ SumFunctionOnSet(collateral, {}) = 0
  BY FS_EmptySet, SumEmpty
<1>5. OpenInterestBounded
  BY <1>1, <1>2, <1>3, <1>4 DEF OpenInterestBounded
<1>6. CollateralAccounted
  <2>1. SumFunctionOnSet(held, Vaults) = 0
    BY <1>1, MarketAssumption, SumZero
  <2> QED BY <1>1, <1>4, <2>1 DEF CollateralAccounted
<1>8. held \in [Vaults -> Nat] /\ astray \in Astray
  BY <1>1 DEF Astray
<1>7. commitment \in [Owners -> {NoCommitment} \cup Commitment]
  BY DEF InitMarket
<1> QED BY <1>1, <1>2, <1>5, <1>6, <1>7, <1>8 DEF MarketIInv

\* handler_open_position counts the new position and its collateral, on its side only.
LEMMA OpenPreserves ==
  ASSUME MarketIInv, NEW o \in Owners, NEW amount \in Collaterals, NEW is_long \in BOOLEAN,
         NEW to \in Accounts, handler_open_position(o, amount, is_long, to)
  PROVE  MarketIInv'
<1> DEFINE mine == IF is_long THEN "long" ELSE "short"
           c == [exists |-> TRUE, is_long |-> is_long, collateral_amount |-> amount]
<1>1. /\ amount \in Nat
      /\ commitment' = [commitment EXCEPT ![o] = c]
      /\ live' = live \cup {o} /\ slot' = slot
      /\ held' = transferred(Elsewhere, to, amount)
      /\ astray' = (IF to \in Vaults THEN astray ELSE [astray EXCEPT !.tokens = @ + amount])
      /\ market' = [market EXCEPT !.open_interest = oi_added(@, is_long, 1),
                                  !.oi_notional = oi_added(@, is_long, amount)]
      /\ ~commitment[o].exists
  BY MarketAssumption DEF handler_open_position
<1>2. /\ market \in Market /\ held \in [Vaults -> Nat] /\ astray \in Astray /\ slot \in Nat
      /\ commitment \in [Owners -> {NoCommitment} \cup Commitment]
      /\ live \subseteq {x \in Owners : commitment[x].exists}
  BY DEF MarketIInv
<1>3. o \notin live
  BY <1>1, <1>2
<1>4. c \in Commitment /\ c.exists = TRUE /\ c.is_long = is_long /\ c.collateral_amount = amount
  BY <1>1 DEF Commitment
<1> HIDE DEF c
<1>5. /\ commitment' \in [Owners -> {NoCommitment} \cup Commitment]
      /\ commitment'[o] = c
      /\ \A x \in Owners : x # o => commitment'[x] = commitment[x]
  BY <1>1, <1>2, <1>4
<1>6. live' \subseteq {x \in Owners : commitment'[x].exists}
  BY <1>1, <1>2, <1>3, <1>4, <1>5
<1>7. /\ market' \in Market
      /\ \A side \in Sides :
           /\ market'.open_interest[side] =
                IF side = mine THEN market.open_interest[side] + 1 ELSE market.open_interest[side]
           /\ market'.oi_notional[side] =
                IF side = mine THEN market.oi_notional[side] + amount ELSE market.oi_notional[side]
  <2> DEFINE oi == oi_added(market.open_interest, is_long, 1)
             notional == oi_added(market.oi_notional, is_long, amount)
  <2>1. market.open_interest \in [Sides -> Nat] /\ market.oi_notional \in [Sides -> Nat]
    BY <1>2 DEF Market
  <2>2. /\ oi = [market.open_interest EXCEPT ![mine] = @ + 1]
        /\ notional = [market.oi_notional EXCEPT ![mine] = @ + amount]
        /\ mine \in Sides
    BY DEF oi_added, Sides
  <2> HIDE DEF oi, notional, mine
  <2>3. oi \in [Sides -> Nat] /\ notional \in [Sides -> Nat]
    BY <2>1, <2>2, <1>1
  <2>4. market' \in Market /\ market'.open_interest = oi /\ market'.oi_notional = notional
    <3>1. market' = [market EXCEPT !.open_interest = oi, !.oi_notional = notional]
      BY <1>1 DEF oi, notional
    <3> QED BY <2>3, <3>1, <1>2 DEF Market
  <2> QED BY <2>1, <2>2, <2>4
<1>8. mine \in Sides
  BY DEF Sides
<1>9. \A side \in Sides : on_side(side)' = IF side = mine THEN on_side(side) \cup {o} ELSE on_side(side)
  <2> SUFFICES ASSUME NEW side \in Sides
               PROVE  on_side(side)' = IF side = mine THEN on_side(side) \cup {o} ELSE on_side(side)
    OBVIOUS
  <2>1. on_side(side)' = {x \in live \cup {o} : commitment'[x].is_long = (side = "long")}
    BY <1>1 DEF on_side
  <2>2. \A x \in live : commitment'[x] = commitment[x] /\ x # o
    BY <1>2, <1>3, <1>5
  <2>3. (commitment'[o].is_long = (side = "long")) <=> side = mine
    BY <1>4, <1>5 DEF Sides
  <2> HIDE DEF mine
  <2> QED BY <2>1, <2>2, <2>3 DEF on_side
<1>10. /\ collateral \in [Owners -> Nat] /\ collateral' \in [Owners -> Nat]
       /\ collateral'[o] = amount
       /\ \A x \in Owners : x # o => collateral'[x] = collateral[x]
       /\ IsFiniteSet(live) /\ live \subseteq Owners
       /\ \A side \in Sides : on_side(side) \subseteq live /\ IsFiniteSet(on_side(side))
  <2>1. /\ collateral' = [x \in Owners |-> IF commitment'[x].exists
                                           THEN commitment'[x].collateral_amount ELSE 0]
        /\ collateral = [x \in Owners |-> IF commitment[x].exists
                                           THEN commitment[x].collateral_amount ELSE 0]
    BY DEF collateral
  <2>2. /\ collateral \in [Owners -> Nat] /\ IsFiniteSet(live) /\ live \subseteq Owners
        /\ \A side \in Sides : on_side(side) \subseteq live /\ IsFiniteSet(on_side(side))
    BY SidesFinite
  <2>3. collateral'[o] = amount /\ \A x \in Owners : x # o => collateral'[x] = collateral[x]
    BY <2>1, <1>4, <1>5
  <2>4. \A x \in Owners : collateral'[x] \in Nat
    BY <2>2, <2>3, <1>1
  <2> QED BY <2>1, <2>2, <2>3, <2>4
<1> HIDE DEF mine
<1>11. ASSUME NEW S, S \subseteq live, IsFiniteSet(S)
       PROVE  /\ SumFunctionOnSet(collateral', S) = SumFunctionOnSet(collateral, S)
              /\ SumFunctionOnSet(collateral', S \cup {o}) = SumFunctionOnSet(collateral, S) + amount
              /\ SumFunctionOnSet(collateral, S) \in Nat
  <2> DEFINE f == collateral
             e == collateral'
  <2>1. \A x \in S : x \in Owners /\ x # o
    BY <1>3, <1>10, <1>11
  <2>2. \A x \in S : f[x] = e[x] /\ f[x] \in Nat
    BY <2>1, <1>10
  <2>3. \A x \in S \cup {o} : e[x] \in Int
    BY <2>1, <1>10
  <2>4. e[o] = amount /\ o \notin S
    BY <2>1, <1>10
  <2> HIDE DEF f, e
  <2>5. SumFunctionOnSet(f, S) = SumFunctionOnSet(e, S)
    BY <2>2, <1>11, SumEqual
  <2>6. SumFunctionOnSet(f, S) \in Nat
    BY <2>2, <1>11, SumNat
  <2>7. SumFunctionOnSet(e, S \cup {o}) = e[o] + SumFunctionOnSet(e, S)
    BY <2>3, <2>4, <1>11, SumAdd
  <2>8. SumFunctionOnSet(e, S \cup {o}) = SumFunctionOnSet(f, S) + amount
    BY <2>4, <2>5, <2>6, <2>7, <1>1
  <2> QED BY <2>5, <2>6, <2>8 DEF f, e
<1>15. /\ astray' \in Astray /\ astray'.closings = astray.closings
       /\ astray'.notional = astray.notional
       /\ astray'.tokens = astray.tokens + (IF to \in Vaults THEN 0 ELSE amount)
       /\ held' \in [Vaults -> Nat]
       /\ SumFunctionOnSet(held', Vaults)
            = SumFunctionOnSet(held, Vaults) + (IF to \in Vaults THEN amount ELSE 0)
       /\ SumFunctionOnSet(held, Vaults) \in Nat
  <2>1. /\ held' \in [Vaults -> Nat] /\ SumFunctionOnSet(held, Vaults) \in Nat
        /\ SumFunctionOnSet(held', Vaults)
             = SumFunctionOnSet(held, Vaults) + (IF to \in Vaults THEN amount ELSE 0)
    BY <1>1, <1>2, TransferSum, MarketAssumption
  <2>2. /\ astray' \in Astray /\ astray'.closings = astray.closings
        /\ astray'.notional = astray.notional
        /\ astray'.tokens = astray.tokens + (IF to \in Vaults THEN 0 ELSE amount)
    BY <1>1, <1>2 DEF Astray
  <2> QED BY <2>1, <2>2
<1>12. OpenInterestBounded'
  <2> SUFFICES ASSUME NEW side \in Sides
               PROVE  /\ market'.open_interest[side] <= Cardinality(on_side(side)')
                      /\ Cardinality(on_side(side)')
                           <= market'.open_interest[side] + astray'.closings[side]
                      /\ market'.oi_notional[side] <= SumFunctionOnSet(collateral', on_side(side)')
                      /\ SumFunctionOnSet(collateral', on_side(side)')
                           <= market'.oi_notional[side] + astray'.notional[side]
    BY DEF OpenInterestBounded
  <2> DEFINE count == Cardinality(on_side(side))
             sum == SumFunctionOnSet(collateral, on_side(side))
  <2>1. /\ market.open_interest[side] <= count
        /\ count <= market.open_interest[side] + astray.closings[side]
        /\ market.oi_notional[side] <= sum
        /\ sum <= market.oi_notional[side] + astray.notional[side]
    BY DEF MarketIInv, OpenInterestBounded
  <2>4. /\ market.open_interest[side] \in Nat /\ market.oi_notional[side] \in Nat
        /\ astray.closings[side] \in Nat /\ astray.notional[side] \in Nat
        /\ count \in Nat /\ sum \in Nat
    <3>1. count \in Nat
      BY <1>10, FS_CardinalityType
    <3>2. sum \in Nat
      BY <1>10, <1>11
    <3> HIDE DEF count, sum
    <3> QED BY <1>2, <3>1, <3>2 DEF Market, Astray
  <2>2. CASE side = mine
    <3>1. on_side(side)' = on_side(side) \cup {o} /\ o \notin on_side(side)
      BY <2>2, <1>3, <1>9, <1>10
    <3>2. Cardinality(on_side(side)') = count + 1
      BY <3>1, <1>10, FS_AddElement
    <3>3. SumFunctionOnSet(collateral', on_side(side)') = sum + amount
      BY <3>1, <1>10, <1>11
    <3>4. /\ market'.open_interest[side] = market.open_interest[side] + 1
          /\ market'.oi_notional[side] = market.oi_notional[side] + amount
      BY <2>2, <1>7
    <3> HIDE DEF count, sum
    <3> QED BY <2>1, <2>4, <3>2, <3>3, <3>4, <1>1, <1>15
  <2>3. CASE side # mine
    <3>1. on_side(side)' = on_side(side)
      BY <2>3, <1>9
    <3>2. SumFunctionOnSet(collateral', on_side(side)') = sum
      BY <3>1, <1>10, <1>11
    <3>3. Cardinality(on_side(side)') = count
      BY <3>1
    <3> HIDE DEF count, sum
    <3> QED BY <2>1, <2>3, <3>2, <3>3, <1>7, <1>15
  <2> QED BY <2>2, <2>3
<1>13. CollateralAccounted'
  <2>1. SumFunctionOnSet(held, Vaults) + astray.tokens >= SumFunctionOnSet(collateral, live)
    BY DEF MarketIInv, CollateralAccounted
  <2>2. /\ SumFunctionOnSet(collateral', live \cup {o}) = SumFunctionOnSet(collateral, live) + amount
        /\ SumFunctionOnSet(collateral, live) \in Nat
    BY <1>10, <1>11
  <2>3. astray.tokens \in Nat
    BY <1>2 DEF Astray
  <2>4. SumFunctionOnSet(held', Vaults) + astray'.tokens >= SumFunctionOnSet(collateral', live')
    BY <2>1, <2>2, <2>3, <1>1, <1>15
  <2> QED BY <2>4 DEF CollateralAccounted
<1>14. slot' \in Nat
  BY <1>1, <1>2
<1> QED BY <1>5, <1>6, <1>7, <1>12, <1>13, <1>14, <1>15 DEF MarketIInv

\* handler_close_position takes out what the position was counted with and never more
\* than its collateral; what a closed position takes out again is in the history.
LEMMA ClosePreserves ==
  ASSUME MarketIInv, NEW o \in Owners, NEW to_return \in Requests,
         NEW from \in Vaults, NEW to \in Payees, handler_close_position(o, to_return, from, to)
  PROVE  MarketIInv'
<1> DEFINE c == commitment[o]
           mine == IF c.is_long THEN "long" ELSE "short"
           gone == return_amount(o, to_return)
<1>1. /\ commitment[o].exists /\ commitment' = commitment /\ slot' = slot
      /\ live' = live \ {o}
      /\ gone <= held[from]
      /\ held' = transferred(from, to, gone)
      /\ astray' = (IF o \in live THEN astray ELSE taken_again(c, gone))
      /\ market' = [market EXCEPT !.open_interest = oi_removed(@, c.is_long, 1),
                                  !.oi_notional = oi_removed(@, c.is_long, c.collateral_amount)]
  BY DEF handler_close_position
<1>2. /\ market \in Market /\ held \in [Vaults -> Nat] /\ astray \in Astray /\ slot \in Nat
      /\ commitment \in [Owners -> {NoCommitment} \cup Commitment]
      /\ live \subseteq {x \in Owners : commitment[x].exists}
  BY DEF MarketIInv
<1>3. /\ collateral \in [Owners -> Nat] /\ collateral' = collateral
      /\ IsFiniteSet(live) /\ live \subseteq Owners
      /\ \A side \in Sides : on_side(side) \subseteq live /\ IsFiniteSet(on_side(side))
  BY <1>1, SidesFinite DEF collateral
<1>4. c.exists /\ c.is_long \in BOOLEAN /\ c.collateral_amount \in Nat
  <2>1. c \in {NoCommitment} \cup Commitment /\ c.exists
    BY <1>1, <1>2
  <2> QED BY <2>1, CommitmentFields
<1>5. collateral[o] = c.collateral_amount
  BY <1>4 DEF collateral
<1>6. gone \in Nat /\ gone <= c.collateral_amount
  BY <1>4, MarketAssumption DEF return_amount, least
<1> HIDE DEF gone
<1>7. mine \in Sides
  BY DEF Sides
<1>8. \A side \in Sides : on_side(side)' = IF side = mine THEN on_side(side) \ {o} ELSE on_side(side)
  <2> SUFFICES ASSUME NEW side \in Sides
               PROVE  on_side(side)' = IF side = mine THEN on_side(side) \ {o} ELSE on_side(side)
    OBVIOUS
  <2>1. on_side(side)' = {x \in live \ {o} : commitment[x].is_long = (side = "long")}
    BY <1>1 DEF on_side
  <2>2. (c.is_long = (side = "long")) <=> side = mine
    BY <1>4 DEF Sides
  <2> HIDE DEF mine
  <2> QED BY <2>1, <2>2 DEF on_side
<1>9. (o \in on_side(mine) <=> o \in live) /\ \A side \in Sides : o \in on_side(side) => side = mine
  BY <1>4 DEF on_side, Sides
<1>10. /\ market' \in Market
       /\ \A side \in Sides :
            /\ market'.open_interest[side] =
                 IF side = mine THEN saturating_sub(market.open_interest[side], 1)
                 ELSE market.open_interest[side]
            /\ market'.oi_notional[side] =
                 IF side = mine THEN saturating_sub(market.oi_notional[side], c.collateral_amount)
                 ELSE market.oi_notional[side]
  <2> DEFINE amount == c.collateral_amount
             oi == oi_removed(market.open_interest, c.is_long, 1)
             notional == oi_removed(market.oi_notional, c.is_long, amount)
  <2>1. market.open_interest \in [Sides -> Nat] /\ market.oi_notional \in [Sides -> Nat]
    BY <1>2 DEF Market
  <2>2. /\ oi = [market.open_interest EXCEPT ![mine] = saturating_sub(@, 1)]
        /\ notional = [market.oi_notional EXCEPT ![mine] = saturating_sub(@, amount)]
    BY DEF oi_removed
  <2>3. amount \in Nat /\ \A n, k \in Nat : saturating_sub(n, k) \in Nat
    BY <1>4 DEF saturating_sub
  <2>4. market' = [market EXCEPT !.open_interest = oi, !.oi_notional = notional]
    BY <1>1
  <2> HIDE DEF oi, notional, mine, amount
  <2>5. oi \in [Sides -> Nat] /\ notional \in [Sides -> Nat]
    BY <2>1, <2>2, <2>3, <1>7
  <2>6. market' \in Market /\ market'.open_interest = oi /\ market'.oi_notional = notional
    BY <2>4, <2>5, <1>2 DEF Market
  <2>7. \A side \in Sides :
          /\ oi[side] = IF side = mine THEN saturating_sub(market.open_interest[side], 1)
                        ELSE market.open_interest[side]
          /\ notional[side] = IF side = mine THEN saturating_sub(market.oi_notional[side], amount)
                              ELSE market.oi_notional[side]
    BY <2>1, <2>2, <1>7
  <2> QED BY <2>6, <2>7 DEF amount
<1> HIDE DEF mine, c
<1>11. ASSUME NEW S, S \subseteq live, IsFiniteSet(S), o \in S
       PROVE  /\ SumFunctionOnSet(collateral, S) \in Nat
              /\ SumFunctionOnSet(collateral, S \ {o}) \in Nat
              /\ SumFunctionOnSet(collateral, S)
                   = c.collateral_amount + SumFunctionOnSet(collateral, S \ {o})
  <2> DEFINE f == collateral
  <2>1. \A x \in S : f[x] \in Nat /\ f[x] \in Int
    BY <1>3, <1>11
  <2>2. f[o] = c.collateral_amount
    BY <1>5
  <2>3. IsFiniteSet(S \ {o}) /\ \A x \in S \ {o} : f[x] \in Nat
    BY <1>11, <2>1, FS_Subset
  <2> HIDE DEF f
  <2>4. SumFunctionOnSet(f, S) \in Nat
    BY <2>1, <1>11, SumNat
  <2>5. SumFunctionOnSet(f, S \ {o}) \in Nat
    BY <2>3, SumNat
  <2>6. SumFunctionOnSet(f, S) = f[o] + SumFunctionOnSet(f, S \ {o})
    BY <2>1, <1>11, SumRemove
  <2> QED BY <2>2, <2>4, <2>5, <2>6 DEF f
<1>13. /\ held' \in [Vaults -> Nat] /\ SumFunctionOnSet(held, Vaults) \in Nat
       /\ SumFunctionOnSet(held', Vaults) \in Nat
       /\ SumFunctionOnSet(held', Vaults) + gone >= SumFunctionOnSet(held, Vaults)
  <2>1. /\ held' \in [Vaults -> Nat] /\ SumFunctionOnSet(held, Vaults) \in Nat
        /\ SumFunctionOnSet(held', Vaults)
             = (SumFunctionOnSet(held, Vaults) + (IF to \in Vaults THEN gone ELSE 0)) - gone
    BY <1>1, <1>2, <1>6, TransferSum
  <2>2. SumFunctionOnSet(held', Vaults) \in Nat
    BY <2>1, MarketAssumption, SumNat
  <2> QED BY <2>1, <2>2, <1>6
<1>14. slot' \in Nat /\ live' \subseteq {x \in Owners : commitment'[x].exists}
       /\ commitment' \in [Owners -> {NoCommitment} \cup Commitment]
  BY <1>1, <1>2
<1>12. ASSUME o \in live
       PROVE  MarketIInv'
  <2>1. astray' = astray
    BY <1>1, <1>12
  <2>2. OpenInterestBounded'
    <3> SUFFICES ASSUME NEW side \in Sides
                 PROVE  /\ market'.open_interest[side] <= Cardinality(on_side(side)')
                        /\ Cardinality(on_side(side)')
                             <= market'.open_interest[side] + astray.closings[side]
                        /\ market'.oi_notional[side] <= SumFunctionOnSet(collateral, on_side(side)')
                        /\ SumFunctionOnSet(collateral, on_side(side)')
                             <= market'.oi_notional[side] + astray.notional[side]
      BY <1>3, <2>1 DEF OpenInterestBounded
    <3>1. /\ market.open_interest[side] <= Cardinality(on_side(side))
          /\ Cardinality(on_side(side)) <= market.open_interest[side] + astray.closings[side]
          /\ market.oi_notional[side] <= SumFunctionOnSet(collateral, on_side(side))
          /\ SumFunctionOnSet(collateral, on_side(side))
               <= market.oi_notional[side] + astray.notional[side]
      BY DEF MarketIInv, OpenInterestBounded
    <3>2. CASE side = mine
      <4> DEFINE count == Cardinality(on_side(side) \ {o})
                 sum == SumFunctionOnSet(collateral, on_side(side) \ {o})
      <4>1. on_side(side)' = on_side(side) \ {o} /\ o \in on_side(side)
        BY <3>2, <1>8, <1>9, <1>12
      <4>2. Cardinality(on_side(side)) = count + 1 /\ count \in Nat
        BY <4>1, <1>3, CardinalityRemove
      <4>3. /\ SumFunctionOnSet(collateral, on_side(side)) = c.collateral_amount + sum
            /\ sum \in Nat
        BY <4>1, <1>3, <1>11
      <4>4. Cardinality(on_side(side)') = count /\ SumFunctionOnSet(collateral, on_side(side)') = sum
        BY <4>1
      <4>5. /\ market.open_interest[side] \in Nat /\ market.oi_notional[side] \in Nat
            /\ astray.closings[side] \in Nat /\ astray.notional[side] \in Nat
        BY <1>2 DEF Market, Astray
      <4> HIDE DEF count, sum
      <4>6. market'.open_interest[side] <= count /\ count <= market'.open_interest[side] + astray.closings[side]
        BY <3>1, <3>2, <4>2, <4>5, <1>10 DEF saturating_sub
      <4>7. market'.oi_notional[side] <= sum /\ sum <= market'.oi_notional[side] + astray.notional[side]
        BY <3>1, <3>2, <4>3, <4>5, <1>4, <1>10 DEF saturating_sub
      <4> QED BY <4>4, <4>6, <4>7
    <3>3. CASE side # mine
      BY <3>1, <3>3, <1>8, <1>10
    <3> QED BY <3>2, <3>3
  <2>3. CollateralAccounted'
    <3>1. SumFunctionOnSet(held, Vaults) + astray.tokens >= SumFunctionOnSet(collateral, live)
      BY DEF MarketIInv, CollateralAccounted
    <3>2. /\ SumFunctionOnSet(collateral, live)
               = c.collateral_amount + SumFunctionOnSet(collateral, live \ {o})
          /\ SumFunctionOnSet(collateral, live \ {o}) \in Nat
      BY <1>3, <1>11, <1>12
    <3>3. astray.tokens \in Nat
      BY <1>2 DEF Astray
    <3>4. SumFunctionOnSet(held', Vaults) + astray.tokens >= SumFunctionOnSet(collateral, live \ {o})
      BY <3>1, <3>2, <3>3, <1>4, <1>6, <1>13
    <3> QED BY <3>4, <2>1, <1>1, <1>3 DEF CollateralAccounted
  <2> QED BY <2>1, <2>2, <2>3, <1>2, <1>10, <1>13, <1>14 DEF MarketIInv
<1>16. ASSUME o \notin live
       PROVE  MarketIInv'
  <2> DEFINE amount == c.collateral_amount
             more == oi_added(astray.closings, c.is_long, 1)
             worth == oi_added(astray.notional, c.is_long, amount)
             k == astray.tokens + gone
  <2>1. astray' = [astray EXCEPT !.closings = more, !.notional = worth, !.tokens = k]
    BY <1>1, <1>16 DEF taken_again
  <2>2. /\ amount \in Nat
        /\ astray.closings \in [Sides -> Nat] /\ astray.notional \in [Sides -> Nat]
        /\ astray.tokens \in Nat /\ k \in Nat
    BY <1>2, <1>4, <1>6 DEF Astray
  <2>3. /\ more = [astray.closings EXCEPT ![mine] = @ + 1]
        /\ worth = [astray.notional EXCEPT ![mine] = @ + amount]
    BY DEF oi_added, mine
  <2>4. more \in [Sides -> Nat] /\ worth \in [Sides -> Nat]
    <3> HIDE DEF more, worth, amount, k
    <3> QED BY <2>2, <2>3, <1>7
  <2>5. /\ astray' \in Astray /\ astray'.closings = more /\ astray'.notional = worth
        /\ astray'.tokens = astray.tokens + gone
    <3> HIDE DEF more, worth, amount
    <3> QED BY <2>1, <2>2, <2>4, <1>2 DEF Astray
  <2> HIDE DEF more, worth, k
  <2>6. live' = live /\ \A side \in Sides : on_side(side)' = on_side(side)
    <3>1. o \notin on_side(mine)
      BY <1>9, <1>16
    <3> QED BY <3>1, <1>1, <1>8, <1>16
  <2>7. OpenInterestBounded'
    <3> SUFFICES ASSUME NEW side \in Sides
                 PROVE  /\ market'.open_interest[side] <= Cardinality(on_side(side))
                        /\ Cardinality(on_side(side)) <= market'.open_interest[side] + more[side]
                        /\ market'.oi_notional[side] <= SumFunctionOnSet(collateral, on_side(side))
                        /\ SumFunctionOnSet(collateral, on_side(side))
                             <= market'.oi_notional[side] + worth[side]
      BY <1>3, <2>5, <2>6 DEF OpenInterestBounded
    <3> DEFINE count == Cardinality(on_side(side))
               sum == SumFunctionOnSet(collateral, on_side(side))
    <3>1. /\ market.open_interest[side] <= count
          /\ count <= market.open_interest[side] + astray.closings[side]
          /\ market.oi_notional[side] <= sum
          /\ sum <= market.oi_notional[side] + astray.notional[side]
      BY DEF MarketIInv, OpenInterestBounded
    <3>2. count \in Nat
      BY <1>3, FS_CardinalityType
    <3>3. sum \in Nat
      <4> DEFINE f == collateral
      <4>1. IsFiniteSet(on_side(side)) /\ \A x \in on_side(side) : f[x] \in Nat
        BY <1>3
      <4> HIDE DEF f
      <4>2. SumFunctionOnSet(f, on_side(side)) \in Nat
        BY <4>1, SumNat
      <4> QED BY <4>2 DEF f
    <3>4. market.open_interest[side] \in Nat /\ market.oi_notional[side] \in Nat
      BY <1>2 DEF Market
    <3>5. /\ more[side] = IF side = mine THEN astray.closings[side] + 1 ELSE astray.closings[side]
          /\ worth[side] = IF side = mine THEN astray.notional[side] + amount ELSE astray.notional[side]
      BY <2>2, <2>3
    <3> HIDE DEF count, sum
    <3>6. market'.open_interest[side] <= count /\ count <= market'.open_interest[side] + more[side]
      BY <3>1, <3>2, <3>4, <3>5, <2>2, <1>10 DEF saturating_sub
    <3>7. market'.oi_notional[side] <= sum /\ sum <= market'.oi_notional[side] + worth[side]
      BY <3>1, <3>3, <3>4, <3>5, <2>2, <1>10 DEF saturating_sub
    <3> QED BY <3>6, <3>7 DEF count, sum
  <2>8. CollateralAccounted'
    <3>1. SumFunctionOnSet(held, Vaults) + astray.tokens >= SumFunctionOnSet(collateral, live)
      BY DEF MarketIInv, CollateralAccounted
    <3>2. SumFunctionOnSet(collateral, live) \in Nat
      <4> DEFINE f == collateral
      <4>1. IsFiniteSet(live) /\ \A x \in live : f[x] \in Nat
        BY <1>3
      <4> HIDE DEF f
      <4>2. SumFunctionOnSet(f, live) \in Nat
        BY <4>1, SumNat
      <4> QED BY <4>2 DEF f
    <3>3. SumFunctionOnSet(held', Vaults) + astray'.tokens >= SumFunctionOnSet(collateral, live)
      BY <3>1, <3>2, <2>2, <2>5, <1>6, <1>13
    <3> QED BY <3>3, <2>6, <1>3 DEF CollateralAccounted
  <2> QED BY <2>5, <2>6, <2>7, <2>8, <1>2, <1>10, <1>13, <1>14 DEF MarketIInv
<1> QED BY <1>12, <1>16

\* So does every instruction of the market.
LEMMA MarketStepPreserves ==
  ASSUME MarketIInv, market_step
  PROVE  MarketIInv'
<1>1. ASSUME NEW o \in Owners, NEW amount \in Collaterals, NEW is_long \in BOOLEAN,
             NEW to \in Accounts, handler_open_position(o, amount, is_long, to)
      PROVE  MarketIInv'
  BY <1>1, OpenPreserves
<1>2. ASSUME NEW o \in Owners, NEW to_return \in Requests, NEW from \in Vaults, NEW to \in Payees,
             handler_close_position(o, to_return, from, to)
      PROVE  MarketIInv'
  BY <1>2, ClosePreserves
<1>3. ASSUME UNCHANGED <<commitment, live, held, astray, slot>>,
             market' \in Market,
             market'.open_interest = market.open_interest,
             market'.oi_notional = market.oi_notional
      PROVE  MarketIInv'
  <2>1. collateral' = collateral /\ \A side \in Sides : on_side(side)' = on_side(side)
    BY <1>3 DEF collateral, on_side
  <2>2. OpenInterestBounded' /\ CollateralAccounted'
    BY <1>3, <2>1 DEF MarketIInv, OpenInterestBounded, CollateralAccounted
  <2> QED BY <1>3, <2>2 DEF MarketIInv
<1>4. ASSUME NEW price \in MarkPrices, handler_update_mark_price(price)
      PROVE  MarketIInv'
  <2>1. /\ market' = [market EXCEPT !.mark_price_x64 = price]
        /\ UNCHANGED <<commitment, live, held, astray, slot>>
        /\ market \in Market /\ price \in Nat
    BY <1>4, MarketAssumption DEF handler_update_mark_price, MarketIInv
  <2>2. /\ market' \in Market
        /\ market'.open_interest = market.open_interest
        /\ market'.oi_notional = market.oi_notional
    BY <2>1 DEF Market
  <2> QED BY <2>1, <2>2, <1>3
<1>5. ASSUME handler_update_funding_rate
      PROVE  MarketIInv'
  <2> DEFINE r == calculate_funding_rate
  <2>1. /\ market' = [market EXCEPT !.funding_rate_x64 = r,
                                    !.cumulative_funding_x64 = @ + r,
                                    !.last_funding_slot = slot]
        /\ UNCHANGED <<commitment, live, held, astray, slot>>
        /\ market \in Market /\ slot \in Nat
    BY <1>5 DEF handler_update_funding_rate, MarketIInv
  <2>2. r \in Int
    <3> DEFINE a == oi_skew * BaseFundingRate
               b == total_open_interest
    <3>1. market.open_interest \in [Sides -> Nat]
      BY <2>1 DEF Market
    <3>2. b \in Nat /\ oi_skew \in Int
      BY <3>1 DEF total_open_interest, oi_skew, Sides
    <3>3. a \in Int
      BY <3>2, MarketAssumption
    <3>4. r = IF b = 0 THEN 0 ELSE truncated_div(a, b)
      BY DEF calculate_funding_rate
    <3> HIDE DEF a, b, r
    <3>5. b # 0 => truncated_div(a, b) \in Int
      <4>1. ASSUME b # 0 PROVE a \div b \in Int /\ (-a) \div b \in Int
        BY <4>1, <3>2, <3>3
      <4> QED BY <4>1, <3>2, <3>3 DEF truncated_div
    <3> QED BY <3>4, <3>5
  <2> HIDE DEF r
  <2>3. /\ market' \in Market
        /\ market'.open_interest = market.open_interest
        /\ market'.oi_notional = market.oi_notional
    <3> DEFINE k == market.cumulative_funding_x64 + r
    <3>1. market' = [market EXCEPT !.funding_rate_x64 = r, !.cumulative_funding_x64 = k,
                                   !.last_funding_slot = slot]
      BY <2>1
    <3>2. k \in Int
      BY <2>1, <2>2 DEF Market
    <3> HIDE DEF k
    <3> QED BY <2>1, <2>2, <3>1, <3>2 DEF Market
  <2> QED BY <2>1, <2>3, <1>3
<1> QED BY <1>1, <1>2, <1>4, <1>5 DEF market_step

\* The shield and the clock do not touch the market.
LEMMA MarketUnchanged ==
  ASSUME MarketIInv, UNCHANGED market_vars, slot' \in Nat
  PROVE  MarketIInv'
<1>1. collateral' = collateral /\ \A side \in Sides : on_side(side)' = on_side(side)
  BY DEF collateral, on_side, market_vars
<1>2. OpenInterestBounded' /\ CollateralAccounted'
  BY <1>1 DEF MarketIInv, OpenInterestBounded, CollateralAccounted, market_vars
<1> QED BY <1>2 DEF MarketIInv, market_vars

(***************************************************************************)
(* The metrics of the shield.                                              *)
(***************************************************************************)
\* The fields that the guard measures: a price was never seen in the future.
Metrics(s) ==
  /\ DOMAIN s = Fields
  /\ s.liquidations_this_epoch \in Nat
  /\ s.epoch_start_slot \in Nat
  /\ s.last_mark_price_x64 \in Nat
  /\ s.last_price_slot \in Nat
  /\ s.last_price_slot <= slot
  /\ s.price_velocity_bps \in Nat

\* Dividing the change of the price by the slots that passed gives a velocity.
LEMMA VelocityMetrics ==
  ASSUME NEW s, Metrics(s), slot \in Nat, market.mark_price_x64 \in Nat
  PROVE  Metrics(update_price_velocity(s))
<1> DEFINE old == s.last_mark_price_x64
           new == market.mark_price_x64
           elapsed == slot - s.last_price_slot
           seen == [s EXCEPT !.last_mark_price_x64 = new, !.last_price_slot = slot]
           v == least(((price_change(old, new) * Bps) \div old) \div elapsed, U16Max)
<1>1. update_price_velocity(s) =
        IF s.last_price_slot = 0 \/ old = 0 THEN [seen EXCEPT !.price_velocity_bps = 0]
        ELSE IF elapsed = 0 THEN s ELSE [seen EXCEPT !.price_velocity_bps = v]
  BY DEF update_price_velocity
<1>2. ASSUME old # 0, elapsed # 0 PROVE v \in Nat
  <2>1. old \in Nat /\ new \in Nat /\ elapsed \in Nat
    BY DEF Metrics
  <2>2. Bps \in Nat /\ U16Max \in Nat
    BY MarketAssumption, ShieldAssumption
  <2> DEFINE a == price_change(old, new) * Bps
  <2>3. a \in Nat
    BY <2>1, <2>2 DEF price_change
  <2> HIDE DEF a, old, new, elapsed
  <2> DEFINE b == a \div old
  <2>4. b \in Nat
    BY <1>2, <2>1, <2>3
  <2> HIDE DEF b
  <2>5. b \div elapsed \in Nat
    BY <1>2, <2>1, <2>4
  <2>6. v = least(b \div elapsed, U16Max)
    BY DEF a, b, old, new, elapsed
  <2> QED BY <2>2, <2>5, <2>6 DEF least
<1> HIDE DEF v
<1> QED BY <1>1, <1>2 DEF Metrics, Fields

\* record_liquidation counts from zero in a new epoch.
LEMMA RecordMetrics ==
  ASSUME NEW s, Metrics(s), slot \in Nat
  PROVE  Metrics(record_liquidation(s))
<1> DEFINE r == IF slot >= s.epoch_start_slot + EpochSlots THEN reset_epoch(s) ELSE s
           n == least(r.liquidations_this_epoch + 1, U16Max)
<1>1. Metrics(r)
  BY DEF Metrics, reset_epoch, Fields
<1>2. record_liquidation(s) = [r EXCEPT !.liquidations_this_epoch = n]
  BY DEF record_liquidation
<1> HIDE DEF r
<1>3. n \in Nat
  BY <1>1, ShieldAssumption DEF Metrics, least
<1> HIDE DEF n
<1> QED BY <1>1, <1>2, <1>3 DEF Metrics, Fields

\* The guard writes metrics of their types.
LEMMA GuardedMetrics ==
  ASSUME NEW s, Metrics(s), slot \in Nat, market.mark_price_x64 \in Nat
  PROVE  Metrics(guarded(s))
<1>1. Metrics(auto_reset(s))
  BY DEF Metrics, auto_reset, Fields
<1>2. Metrics(measured(auto_reset(s)))
  BY <1>1, VelocityMetrics, RecordMetrics DEF measured
<1> DEFINE m == measured(auto_reset(s))
<1>3. guarded(s) = m \/ guarded(s) = armed(m)
  BY DEF guarded, tripped
<1> HIDE DEF m
<1>4. Metrics(m)
  BY <1>2 DEF m
<1>5. Metrics(armed(m))
  BY <1>4 DEF Metrics, armed, Fields
<1> QED BY <1>3, <1>4, <1>5

\* The invariant of market and metrics together.
RecordsIInv == MarketIInv /\ Metrics(shield)

\* The accounts as they are created.
LEMMA InitRecords == Init => RecordsIInv
<1> SUFFICES ASSUME Init PROVE RecordsIInv
  OBVIOUS
<1>1. MarketIInv
  BY MarketInit DEF Init
<1>2. Metrics(shield)
  BY <1>1 DEF Init, Metrics, Fields, MarketIInv
<1> QED BY <1>1, <1>2 DEF RecordsIInv

\* Every step preserves it.
LEMMA NextRecords ==
  ASSUME RecordsIInv, [Next]_vars
  PROVE  RecordsIInv'
<1>0. MarketIInv /\ Metrics(shield) /\ slot \in Nat /\ market.mark_price_x64 \in Nat
  BY DEF RecordsIInv, MarketIInv, Market
<1>1. ASSUME UNCHANGED market_vars, slot' = slot, Metrics(shield)'
      PROVE  RecordsIInv'
  BY <1>0, <1>1, MarketUnchanged DEF RecordsIInv
<1>2. CASE elsewhere
  <2>1. shield' = shield /\ (market_step \/ advance_slot)
    BY <1>2 DEF elsewhere
  <2>2. MarketIInv' /\ slot' >= slot
    <3>1. CASE market_step
      <4>1. MarketIInv'
        BY <1>0, <3>1, MarketStepPreserves
      <4>2. slot' = slot
        BY <3>1 DEF market_step, handler_open_position, handler_close_position,
                    handler_update_mark_price, handler_update_funding_rate
      <4> QED BY <4>1, <4>2, <1>0
    <3>2. CASE advance_slot
      <4>1. slot' = slot + 1 /\ UNCHANGED market_vars
        BY <3>2 DEF advance_slot
      <4> QED BY <4>1, <1>0, MarketUnchanged
    <3> QED BY <2>1, <3>1, <3>2
  <2>3. slot' \in Nat
    BY <2>2 DEF MarketIInv
  <2>4. Metrics(shield)'
    BY <2>1, <2>2, <2>3, <1>0 DEF Metrics
  <2> QED BY <2>2, <2>4 DEF RecordsIInv
<1>3. ASSUME NEW force \in BOOLEAN, perp_shield_liquidation_guard(force)
      PROVE  RecordsIInv'
  <2>1. /\ UNCHANGED market_vars /\ slot' = slot
        /\ shield' = guarded(shield) \/ shield' = shield
    BY <1>3 DEF perp_shield_liquidation_guard
  <2>2. Metrics(guarded(shield))
    BY <1>0, GuardedMetrics
  <2>3. Metrics(shield)'
    BY <2>1, <2>2, <1>0 DEF Metrics
  <2> QED BY <2>1, <2>3, <1>1
<1>4. CASE trigger_circuit_breaker
  <2>1. UNCHANGED market_vars /\ slot' = slot /\ shield' = armed(shield)
    BY <1>4 DEF trigger_circuit_breaker
  <2>2. Metrics(shield)'
    BY <2>1, <1>0 DEF Metrics, armed, Fields
  <2> QED BY <2>1, <2>2, <1>1
<1>5. ASSUME NEW force \in BOOLEAN, reset_circuit_breaker(force)
      PROVE  RecordsIInv'
  <2>1. /\ UNCHANGED market_vars /\ slot' = slot
        /\ shield' = [reset_epoch(shield) EXCEPT !.active = FALSE, !.reset_at_slot = slot]
    BY <1>5 DEF reset_circuit_breaker
  <2>2. Metrics(shield)'
    BY <2>1, <1>0 DEF Metrics, reset_epoch, Fields
  <2> QED BY <2>1, <2>2, <1>1
<1>6. CASE UNCHANGED vars
  <2>1. UNCHANGED market_vars /\ slot' = slot /\ shield' = shield
    BY <1>6 DEF vars
  <2>2. Metrics(shield)'
    BY <2>1, <1>0 DEF Metrics
  <2> QED BY <2>1, <2>2, <1>1
<1> QED BY <1>2, <1>3, <1>4, <1>5, <1>6 DEF Next

(***************************************************************************)
(* The invariant of the breaker.                                           *)
(***************************************************************************)
\* initialize_shield establishes the invariant.
LEMMA InitIInv == Init => IInv
BY DEF Init, InitMarket, IInv, Breaker, Fields, BreakerClock, TriggerPossible, GuardHolds,
       NoAttempt

\* Steps of the market and of the clock.
LEMMA ElsewherePreserves == IInv /\ elsewhere => IInv'
<1> SUFFICES ASSUME IInv, elsewhere PROVE IInv'
  OBVIOUS
<1>1. shield' = shield /\ alerts' = alerts /\ attempt' = NoAttempt
  BY DEF elsewhere
<1>2. slot' \in Nat /\ slot' >= slot
  <2>1. slot \in Nat
    BY DEF IInv
  <2>2. CASE market_step
    <3>1. slot' = slot
      BY <2>2 DEF market_step, handler_open_position, handler_close_position,
                  handler_update_mark_price, handler_update_funding_rate
    <3> QED BY <2>1, <3>1
  <2>3. CASE advance_slot
    BY <2>1, <2>3 DEF advance_slot
  <2> QED BY <2>2, <2>3 DEF elsewhere
<1> QED BY <1>1, <1>2 DEF IInv, Breaker, BreakerClock, TriggerPossible, GuardHolds, NoAttempt

\* perp_shield_liquidation_guard, whether it commits or is undone.
LEMMA GuardPreserves ==
  ASSUME IInv, NEW force \in BOOLEAN, perp_shield_liquidation_guard(force)
  PROVE  IInv'
<1> DEFINE g == guarded(shield)
<1>1. Breaker(shield) /\ Clocked(shield) /\ slot \in Nat
  BY DEF IInv, BreakerClock, Clocked
<1>2. /\ Breaker(g) /\ Clocked(g)
      /\ g.trigger_count >= shield.trigger_count
      /\ ~g.active => ~should_trip(g)
  BY <1>1, GuardedBreaker
<1>3. /\ slot' = slot /\ market' = market /\ alerts' = alerts
      /\ shield' = (IF guard_allows(shield, force) THEN g ELSE shield)
      /\ attempt' = [made |-> TRUE, forced |-> force, allowed |-> guard_allows(shield, force)]
      /\ guard_allows(shield, force) <=> (~g.active \/ force)
  BY DEF perp_shield_liquidation_guard, guard_allows, market_vars
<1> HIDE DEF g
<1>4. Breaker(shield') /\ Clocked(shield') /\ shield'.trigger_count >= shield.trigger_count
  BY <1>1, <1>2, <1>3 DEF Breaker
<1>5. BreakerClock'
  BY <1>3, <1>4 DEF Clocked, BreakerClock
<1>6. TriggerPossible' /\ (alerts \subseteq Nat)'
  BY <1>1, <1>3, <1>4 DEF IInv, TriggerPossible, Breaker
<1>7. GuardHolds'
  <2> SUFFICES ASSUME (attempt.made /\ attempt.allowed /\ ~attempt.forced)'
               PROVE  (/\ ~should_trip(shield)
                       /\ ~shield.active
                       /\ shield.trigger_count = 0
                            \/ shield.reset_at_slot >= shield.triggered_at_slot)'
    BY DEF GuardHolds
  <2>1. ~force /\ guard_allows(shield, force)
    BY <1>3
  <2>2. shield' = g /\ ~g.active /\ ~should_trip(g)
    BY <2>1, <1>2, <1>3
  <2>3. ~should_trip(shield)'
    BY <2>2, <1>3 DEF should_trip, oi_imbalance_bps, oi_skew, total_open_interest
  <2> QED BY <2>2, <2>3, <1>2 DEF Clocked, Breaker
<1> QED BY <1>1, <1>3, <1>4, <1>5, <1>6, <1>7 DEF IInv, Breaker

\* trigger_circuit_breaker.
LEMMA TriggerPreserves ==
  ASSUME IInv, trigger_circuit_breaker
  PROVE  IInv'
<1>1. Breaker(shield) /\ Clocked(shield) /\ slot \in Nat
  BY DEF IInv, BreakerClock, Clocked
<1>2. shield' = armed(shield) /\ slot' = slot /\ attempt' = NoAttempt
  BY DEF trigger_circuit_breaker
<1>3. Breaker(shield') /\ Clocked(shield') /\ shield'.trigger_count = shield.trigger_count + 1
  BY <1>1, <1>2, ArmedBreaker
<1>4. (alerts \subseteq Nat)' /\ TriggerPossible'
  <2>1. /\ alerts' = alerts \cup {shield.trigger_count + 1}
        /\ shield.trigger_count \in Nat
    BY <1>1 DEF trigger_circuit_breaker, alert_index, Breaker
  <2>2. alerts \subseteq Nat /\ \A i \in alerts : i <= shield.trigger_count
    BY DEF IInv, TriggerPossible
  <2>3. \A i \in alerts' : i \in Nat /\ i <= shield.trigger_count + 1
    BY <2>1, <2>2
  <2> QED BY <1>3, <2>3 DEF TriggerPossible
<1> QED BY <1>1, <1>2, <1>3, <1>4 DEF IInv, Breaker, Clocked, BreakerClock, GuardHolds, NoAttempt

\* reset_circuit_breaker.
LEMMA ResetPreserves ==
  ASSUME IInv, NEW force \in BOOLEAN, reset_circuit_breaker(force)
  PROVE  IInv'
<1> DEFINE r == reset_epoch(shield)
<1>1. Breaker(shield) /\ Clocked(shield) /\ slot \in Nat
  BY DEF IInv, BreakerClock, Clocked
<1>2. /\ Breaker(r)
      /\ r.triggered_at_slot = shield.triggered_at_slot
      /\ r.trigger_count = shield.trigger_count
  BY <1>1, ResetEpochKeeps
<1>3. /\ shield' = [r EXCEPT !.active = FALSE, !.reset_at_slot = slot]
      /\ slot' = slot /\ attempt' = NoAttempt /\ alerts' = alerts
  BY DEF reset_circuit_breaker
<1> HIDE DEF r
<1>4. /\ Breaker(shield') /\ ~shield'.active
      /\ shield'.trigger_count = shield.trigger_count
      /\ shield'.triggered_at_slot = shield.triggered_at_slot
      /\ shield'.reset_at_slot = slot
  BY <1>1, <1>2, <1>3 DEF Breaker, Fields
<1>5. BreakerClock'
  BY <1>1, <1>3, <1>4 DEF BreakerClock, Clocked, Breaker
<1>6. TriggerPossible' /\ (alerts \subseteq Nat)'
  BY <1>3, <1>4 DEF IInv, TriggerPossible
<1> QED BY <1>1, <1>3, <1>4, <1>5, <1>6 DEF IInv, Breaker, GuardHolds, NoAttempt

\* Every step preserves the invariant.
LEMMA NextIInv == IInv /\ [Next]_vars => IInv'
<1> SUFFICES ASSUME IInv, [Next]_vars PROVE IInv'
  OBVIOUS
<1>1. CASE elsewhere
  BY <1>1, ElsewherePreserves
<1>2. CASE \E force \in BOOLEAN : perp_shield_liquidation_guard(force)
  BY <1>2, GuardPreserves
<1>3. CASE trigger_circuit_breaker
  BY <1>3, TriggerPreserves
<1>4. CASE \E force \in BOOLEAN : reset_circuit_breaker(force)
  BY <1>4, ResetPreserves
<1>5. CASE UNCHANGED vars
  BY <1>5 DEF vars, market_vars, IInv, Breaker, BreakerClock, TriggerPossible, GuardHolds,
              should_trip, oi_imbalance_bps, oi_skew, total_open_interest
<1> QED BY <1>1, <1>2, <1>3, <1>4, <1>5 DEF Next

\* The invariant holds in every reachable state.
LEMMA Invariance == Spec => []IInv
BY InitIInv, NextIInv, PTL DEF Spec

(***************************************************************************)
(* Theorems.                                                               *)
(***************************************************************************)
\* perp_shield_liquidation_guard lets a liquidation through without force only
\* if no threshold is breached by the metrics it has just written and every
\* trigger has been followed by a reset.
THEOREM GuardCorrect == Spec => []GuardHolds
<1>1. IInv => GuardHolds
  BY DEF IInv
<1> QED BY <1>1, Invariance, PTL

\* The slots that arming and resetting record tell whether the breaker is
\* active.
THEOREM ClockCorrect == Spec => []BreakerClock
<1>1. IInv => BreakerClock
  BY DEF IInv
<1> QED BY <1>1, Invariance, PTL

\* trigger_circuit_breaker never finds the account of its alert taken.
THEOREM TriggerAlwaysPossible == Spec => []TriggerPossible
<1>1. IInv => TriggerPossible
  BY DEF IInv
<1> QED BY <1>1, Invariance, PTL

\* Nothing but the authority's force releases the breaker before three epochs
\* have passed since it was armed.
THEOREM CooldownRespected == Spec => CoolsDown
<1>1. IInv /\ [Next]_vars =>
        [shield.active /\ ~shield'.active =>
           slot >= shield.triggered_at_slot + 3 * EpochSlots \/ reset_circuit_breaker(TRUE)]_vars
  <2> SUFFICES ASSUME IInv, Next, shield.active, ~shield'.active
               PROVE  slot >= shield.triggered_at_slot + 3 * EpochSlots
                        \/ reset_circuit_breaker(TRUE)
    OBVIOUS
  <2>0. Breaker(shield) /\ EpochSlots \in Nat /\ slot \in Nat
    BY ShieldAssumption DEF IInv
  <2>1. CASE elsewhere
    BY <2>1 DEF elsewhere
  <2>2. CASE \E force \in BOOLEAN : perp_shield_liquidation_guard(force)
    <3>1. shield' = guarded(shield)
      BY <2>2 DEF perp_shield_liquidation_guard
    <3>2. CASE cooldown_elapsed(shield)
      <4>1. slot >= shield.triggered_at_slot + EpochSlots * 3
        BY <3>2 DEF cooldown_elapsed
      <4>2. shield.triggered_at_slot + EpochSlots * 3 = shield.triggered_at_slot + 3 * EpochSlots
        BY <2>0
      <4>3. slot >= shield.triggered_at_slot + 3 * EpochSlots
        BY <4>1, <4>2, Zenon
      <4> QED BY <4>3
    <3>3. CASE ~cooldown_elapsed(shield)
      <4>1. auto_reset(shield) = shield
        BY <3>3 DEF auto_reset
      <4>2. measured(shield).active
        BY <2>0, MeasuredKeeps
      <4>3. guarded(shield) = measured(shield)
        BY <4>1, <4>2 DEF guarded, tripped
      <4> QED BY <3>1, <4>2, <4>3
    <3> QED BY <3>2, <3>3
  <2>3. CASE trigger_circuit_breaker
    BY <2>3, <2>0 DEF trigger_circuit_breaker, armed, Breaker, Fields
  <2>4. CASE \E force \in BOOLEAN : reset_circuit_breaker(force)
    <3>1. PICK force \in BOOLEAN : reset_circuit_breaker(force)
      BY <2>4
    <3>2. CASE force = TRUE
      BY <3>1, <3>2
    <3>3. CASE force = FALSE
      BY <3>1, <3>3, <2>0 DEF reset_circuit_breaker, cooldown_elapsed, Breaker
    <3> QED BY <3>2, <3>3
  <2> QED BY <2>1, <2>2, <2>3, <2>4 DEF Next
<1> QED BY <1>1, Invariance, PTL DEF Spec, CoolsDown

\* The market's counters never name more than the open positions and miss only what
\* closing a position again took out (perp_market.rs lets owners do so:
\* handler_close_position neither closes the account nor marks it); the accounts of
\* the market's authority cover the collateral of the open positions but for what was
\* paid into other accounts, which handler_open_position accepts, or taken again.
\* Every account keeps its type, and the breaker's slots tell its state.
THEOREM RecordsCorrect == Spec => []RecordsSound
<1>1. Init => RecordsIInv
  BY InitRecords
<1>2. RecordsIInv /\ [Next]_vars => RecordsIInv'
  BY NextRecords
<1>3. RecordsIInv /\ IInv => RecordsSound
  <2> SUFFICES ASSUME RecordsIInv, IInv PROVE RecordsSound
    OBVIOUS
  <2>1. MarketTypeOK
    <3>1. \A o \in Owners : commitment[o].exists =>
            commitment[o].is_long \in BOOLEAN /\ commitment[o].collateral_amount \in Nat
      BY CommitmentFields DEF RecordsIInv, MarketIInv
    <3> QED BY <3>1 DEF RecordsIInv, MarketIInv, Market, Astray, MarketTypeOK
  <2>2. TypeOK
    BY <2>1 DEF RecordsIInv, IInv, Metrics, Breaker, TypeOK
  <2> QED BY <2>2 DEF RecordsIInv, MarketIInv, IInv, RecordsSound
<1> QED BY <1>1, <1>2, <1>3, Invariance, PTL DEF Spec
=============================================================================
