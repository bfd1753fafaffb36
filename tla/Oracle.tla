------------------------------- MODULE Oracle -------------------------------
(***************************************************************************)
(* The ring of observations of a pool (states/oracle.rs) and the two ways  *)
(* the shield reads a reference tick from it (instructions/nebula_shield.rs *)
(* and arb_sweep.rs).  An Option is a set of at most one element.          *)
(***************************************************************************)
EXTENDS FullMath, FiniteSetsExt

CONSTANTS
  OBSERVATION_NUM,    \* the length of the ring
  UPDATE_DURATION,    \* OBSERVATION_UPDATE_DURATION_DEFAULT
  MinTick, MaxTick    \* what a reference is clamped to

ASSUME RingAssumption ==
  /\ OBSERVATION_NUM \in Nat \ {0} /\ UPDATE_DURATION \in Nat \ {0}
  /\ MinTick \in Int /\ MaxTick \in Int /\ MinTick < MaxTick

NoObservations ==
  [initialized |-> FALSE, index |-> 0,
   observations |-> [i \in 0 .. OBSERVATION_NUM - 1 |-> [time |-> 0, cumulative |-> 0]]]

\* mutant: the index returns one short of the end of the ring
mut_next_index(i) == IF i = OBSERVATION_NUM - 2 THEN 0 ELSE i + 1

next_index(i) == IF i = OBSERVATION_NUM - 1 THEN 0 ELSE i + 1

accepts(o, now) ==
  o.initialized => saturating_sub(now, o.observations[o.index].time) >= UPDATE_DURATION

\* ObservationState::update: the tick is taken to have held since the last observation.
update(o, now, tick) ==
  LET last == o.observations[o.index]
      next == IF o.initialized THEN next_index(o.index) ELSE o.index
      sum == IF o.initialized THEN last.cumulative + tick * (now - last.time) ELSE 0
  IN IF ~accepts(o, now) THEN o
     ELSE [initialized |-> TRUE, index |-> next,
           observations |-> [o.observations EXCEPT ![next] = [time |-> now, cumulative |-> sum]]]

clamped(t) == Max({MinTick, Min({MaxTick, t})})

\* Integer division of Rust, which truncates towards zero.
trunc_div(a, b) == IF a >= 0 THEN a \div b ELSE -((-a) \div b)

\* The observation before the latest, which both readers start from.
before_latest(o) == o.observations[saturating_sub(o.index, 1) % OBSERVATION_NUM]

\* mutant: the search starts at the slot that is overwritten next
mut_find_observation_at_or_before(o, target) ==
  LET slot(i) == (o.index + i + 1) % OBSERVATION_NUM
      found == {i \in 0 .. OBSERVATION_NUM - 1 :
                  o.observations[slot(i)].time # 0 /\ o.observations[slot(i)].time <= target}
  IN IF found = {} THEN {} ELSE {slot(Min(found))}

find_observation_at_or_before(o, target) ==
  LET slot(i) == (o.index + OBSERVATION_NUM - i) % OBSERVATION_NUM
      found == {i \in 0 .. OBSERVATION_NUM - 1 :
                  o.observations[slot(i)].time # 0 /\ o.observations[slot(i)].time <= target}
  IN IF found = {} THEN {} ELSE {slot(Min(found))}

\* mutant: the latest observation is read, however old it is
mut_observe_twap(o, window, now) ==
  LET latest == o.observations[o.index]
      elapsed == saturating_sub(now, latest.time)
      older == {o.observations[i] :
                  i \in find_observation_at_or_before(o, saturating_sub(now, window))}
  IN IF o.index < 2 \/ elapsed = 0
     THEN {}
     ELSE {clamped(trunc_div(latest.cumulative - x.cumulative, latest.time - x.time)) :
             x \in {y \in older : latest.time > y.time}}

observe_twap(o, window, now) ==
  LET latest == before_latest(o)
      elapsed == saturating_sub(now, latest.time)
      older == {o.observations[i] :
                  i \in find_observation_at_or_before(o, saturating_sub(now, window))}
  IN IF o.index < 2 \/ latest.time = 0 \/ elapsed = 0 \/ elapsed > 2 * window
     THEN {}
     ELSE {clamped(trunc_div(latest.cumulative - x.cumulative, latest.time - x.time)) :
             x \in {y \in older : latest.time > y.time}}

\* The instruction's reference: all that was accumulated over the time since.
get_twap_tick(o, now) ==
  LET latest == before_latest(o)
      elapsed == saturating_sub(now, latest.time)
  IN IF o.index = 0 \/ latest.time = 0 \/ elapsed = 0
     THEN {} ELSE {clamped(trunc_div(latest.cumulative, elapsed))}
=============================================================================
