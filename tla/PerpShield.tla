----------------------------- MODULE PerpShield -----------------------------
(***************************************************************************)
(* The circuit breaker of a perpetuals market (instructions/perp_shield.rs *)
(* and states/perp_shield.rs), composed with the market it watches.        *)
(*                                                                         *)
(* The liquidation authority calls the guard before it liquidates.  The    *)
(* guard may release the breaker, brings its metrics up to date, may arm   *)
(* the breaker, and then allows or refuses the liquidation.  A refusal is  *)
(* an error: the program runtime undoes all that the instruction wrote.    *)
(* The shield's authority arms and resets the breaker by hand.             *)
(***************************************************************************)
EXTENDS PerpMarket

CONSTANTS
  EpochSlots,          \* epoch_slots, not 0 once initialized
  OiThreshold,         \* oi_threshold()
  LiqThreshold,        \* liq_threshold()
  VelocityThreshold,   \* velocity_threshold()
  U16Max,              \* u16::MAX, at which the counters of the shield saturate
  MaxTriggers          \* model bound: times the breaker is armed

ASSUME ShieldAssumption ==
  /\ EpochSlots \in Nat \ {0}
  /\ OiThreshold \in Nat \ {0}
  /\ LiqThreshold \in Nat \ {0}
  /\ VelocityThreshold \in Nat \ {0}
  /\ U16Max \in Nat
  /\ MaxTriggers \in Nat

VARIABLES
  shield,    \* PerpShield
  alerts,    \* the alert_index of the CascadeAlert accounts
  attempt    \* history: the guard call just made, if the last step was one

vars == <<market_vars, slot, shield, alerts, attempt>>

NoAttempt == [made |-> FALSE]

\* mutant: one epoch
mut_cooldown_elapsed(s) == slot >= s.triggered_at_slot + EpochSlots

\* Three epochs
cooldown_elapsed(s) == slot >= s.triggered_at_slot + EpochSlots * 3

should_trip(s) ==
  \/ oi_imbalance_bps >= OiThreshold
  \/ s.liquidations_this_epoch >= LiqThreshold
  \/ s.price_velocity_bps >= VelocityThreshold

reset_epoch(s) == [s EXCEPT !.epoch_start_slot = slot, !.liquidations_this_epoch = 0]

record_liquidation(s) ==
  LET r == IF slot >= s.epoch_start_slot + EpochSlots THEN reset_epoch(s) ELSE s
  IN [r EXCEPT !.liquidations_this_epoch = least(@ + 1, U16Max)]

\* mutant: a fall is negative
mut_price_change(old, new) == new - old

price_change(old, new) == IF new > old THEN new - old ELSE old - new

update_price_velocity(s) ==
  LET old == s.last_mark_price_x64
      new == market.mark_price_x64
      elapsed == slot - s.last_price_slot
      seen == [s EXCEPT !.last_mark_price_x64 = new, !.last_price_slot = slot]
  IN IF s.last_price_slot = 0 \/ old = 0 THEN [seen EXCEPT !.price_velocity_bps = 0]
     ELSE IF elapsed = 0 THEN s
     ELSE [seen EXCEPT !.price_velocity_bps =
             least(((price_change(old, new) * Bps) \div old) \div elapsed, U16Max)]

(***************************************************************************)
(* perp_shield_liquidation_guard, in the order of its steps.               *)
(***************************************************************************)
\* mutant: the slot of the reset is not recorded
mut_auto_reset(s) ==
  IF s.active /\ cooldown_elapsed(s) /\ ~should_trip(s)
  THEN [s EXCEPT !.active = FALSE]
  ELSE s

\* Released only if the metrics recorded by the last successful call are normal.
auto_reset(s) ==
  IF s.active /\ cooldown_elapsed(s) /\ ~should_trip(s)
  THEN [s EXCEPT !.active = FALSE, !.reset_at_slot = slot]
  ELSE s

measured(s) == record_liquidation(update_price_velocity(s))

\* mutant: the trigger is not counted
mut_armed(s) == [s EXCEPT !.active = TRUE, !.triggered_at_slot = slot]

armed(s) ==
  [s EXCEPT !.active = TRUE, !.triggered_at_slot = slot, !.trigger_count = @ + 1]

\* mutant: an elevated metric does not arm the breaker
mut_tripped(s) == s

tripped(s) == IF ~s.active /\ should_trip(s) THEN armed(s) ELSE s

guarded(s) == tripped(measured(auto_reset(s)))

guard_allows(s, force) == ~guarded(s).active \/ force

perp_shield_liquidation_guard(force) ==
  /\ guarded(shield).trigger_count <= MaxTriggers
  /\ shield' = (IF guard_allows(shield, force) THEN guarded(shield) ELSE shield)
  /\ attempt' = [made |-> TRUE, forced |-> force, allowed |-> guard_allows(shield, force)]
  /\ UNCHANGED <<market_vars, slot, alerts>>

\* The number of the alert must be that of the trigger.
alert_index(s) == s.trigger_count + 1

trigger_circuit_breaker ==
  /\ shield.trigger_count < MaxTriggers
  /\ alert_index(shield) \notin alerts
  /\ shield' = armed(shield)
  /\ alerts' = alerts \cup {alert_index(shield)}
  /\ attempt' = NoAttempt
  /\ UNCHANGED <<market_vars, slot>>

reset_circuit_breaker(force) ==
  /\ shield.active
  /\ force \/ cooldown_elapsed(shield)
  /\ shield' = [reset_epoch(shield) EXCEPT !.active = FALSE, !.reset_at_slot = slot]
  /\ attempt' = NoAttempt
  /\ UNCHANGED <<market_vars, slot, alerts>>

Init ==
  /\ InitMarket
  /\ shield = [active |-> FALSE, triggered_at_slot |-> 0, reset_at_slot |-> 0,
               trigger_count |-> 0, liquidations_this_epoch |-> 0,
               epoch_start_slot |-> slot, last_mark_price_x64 |-> 0, last_price_slot |-> 0,
               price_velocity_bps |-> 0]
  /\ alerts = {}
  /\ attempt = NoAttempt

\* A step of the market or of the clock leaves the shield alone.
elsewhere ==
  /\ market_step \/ advance_slot
  /\ attempt' = NoAttempt
  /\ UNCHANGED <<shield, alerts>>

Next ==
  \/ elsewhere
  \/ \E force \in BOOLEAN : perp_shield_liquidation_guard(force)
  \/ trigger_circuit_breaker
  \/ \E force \in BOOLEAN : reset_circuit_breaker(force)

Spec == Init /\ [][Next]_vars

(***************************************************************************)
(* Properties.                                                             *)
(***************************************************************************)
\* The accounts hold values of their types.
TypeOK ==
  /\ MarketTypeOK
  /\ shield.active \in BOOLEAN
  /\ shield.triggered_at_slot \in Nat
  /\ shield.reset_at_slot \in Nat
  /\ shield.trigger_count \in Nat
  /\ shield.liquidations_this_epoch \in Nat
  /\ shield.epoch_start_slot \in Nat
  /\ shield.last_mark_price_x64 \in Nat
  /\ shield.last_price_slot \in Nat
  /\ shield.price_velocity_bps \in Nat
  /\ alerts \subseteq Nat

\* A liquidation that the guard lets through without force was checked against
\* fresh metrics: no threshold is breached once it is counted, and every time
\* the breaker was armed it has been released since.
GuardHolds ==
  attempt.made /\ attempt.allowed /\ ~attempt.forced =>
    /\ ~should_trip(shield)
    /\ ~shield.active
    /\ shield.trigger_count = 0 \/ shield.reset_at_slot >= shield.triggered_at_slot

\* The breaker is active exactly since its last trigger: released, it was
\* armed no later than it was reset.
BreakerClock ==
  /\ shield.active => shield.trigger_count > 0
  /\ ~shield.active /\ shield.trigger_count > 0 =>
       shield.reset_at_slot >= shield.triggered_at_slot
  /\ shield.triggered_at_slot <= slot /\ shield.reset_at_slot <= slot

\* The authority can always arm the breaker: the account of the next alert
\* does not exist, however triggers by hand and by the guard alternate.
TriggerPossible == \A i \in alerts : i <= shield.trigger_count

\* What the market and the shield record is what happened: open interest and tokens
\* are those of the open positions, but for what closing again and paying elsewhere
\* took, and the breaker's slots tell its state.
RecordsSound == TypeOK /\ OpenInterestBounded /\ CollateralAccounted /\ BreakerClock

\* The breaker stays armed for three epochs unless the authority forces it.
CoolsDown ==
  [][shield.active /\ ~shield'.active =>
       slot >= shield.triggered_at_slot + 3 * EpochSlots \/ reset_circuit_breaker(TRUE)]_vars

\* "Trigger: any threshold breach arms the breaker": a guard call that
\* measures a breach leaves the breaker armed.
BreachArms ==
  [][perp_shield_liquidation_guard(FALSE) /\ should_trip(measured(auto_reset(shield))) =>
       shield'.active]_vars
=============================================================================
