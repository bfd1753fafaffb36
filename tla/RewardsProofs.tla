--------------------------- MODULE RewardsProofs ---------------------------
(***************************************************************************)
(* Proofs about Rewards, for any number of positions, any rates, periods   *)
(* and growth that wraps at any size.                                      *)
(*                                                                         *)
(* Nothing that the code keeps is the sum of what positions have earned,   *)
(* and integer parts of shares are not inductive.  The invariant therefore *)
(* speaks of the exact shares, in 1 / Q64 of a token: what a position is   *)
(* owed and its liquidity times the growth it has not seen yet.  Their sum *)
(* is covered by the emitted total and by the vault; an update moves to    *)
(* the shares no more than the emission of the time that has passed; and   *)
(* touching a position only rounds its share down.                         *)
(***************************************************************************)
EXTENDS Rewards, SumTheorems

(***************************************************************************)
(* Shares.  Below(g, out, t, b) is the growth below tick b when the whole  *)
(* of it is g and the price at t, so that growth inside a range is a       *)
(* difference of two of them wherever the price is.                        *)
(***************************************************************************)
Below(g, out, t, b) == IF t >= b THEN out[b] ELSE wrapping_sub(g, out[b])

Inside(g, out, t, range) ==
  wrapping_sub(Below(g, out, t, range[2]), Below(g, out, t, range[1]))

Unseen(pos, g, out, t) ==
  wrapping_sub(Inside(g, out, t, pos.range), pos.growth_inside_last_x64)

Share(pos, g, out, t) ==
  IF pos.open THEN pos.reward_amount_owed * Q64 + pos.liquidity * Unseen(pos, g, out, t) ELSE 0

Earned(pos, g, out, t) ==
  IF pos.open
  THEN pos.reward_amount_owed + mul_div_floor(Unseen(pos, g, out, t), pos.liquidity, Q64) ELSE 0

Shares(ps, g, out, t) == [p \in Positions |-> Share(ps[p], g, out, t)]
Owes(ps, g, out, t) == sum_over_positions(Shares(ps, g, out, t))

(***************************************************************************)
(* The invariant.                                                          *)
(***************************************************************************)
RewardInfo ==
  [initialized : BOOLEAN, open_time : Nat, end_time : Nat, last_update_time : Nat,
   emissions_per_second_x64 : Nat, reward_total_emitted : 0 .. U64Max, reward_claimed : Nat,
   reward_growth_global_x64 : 0 .. (Growth - 1)]

PositionInfo ==
  [open : BOOLEAN, range : Ranges \cup {<<0, 1>>}, liquidity : Nat,
   growth_inside_last_x64 : 0 .. (Growth - 1), reward_amount_owed : Nat]

Positioned(ps) ==
  /\ ps \in [Positions -> PositionInfo]
  /\ \A p \in Positions : IF ps[p].open THEN ps[p].range \in Ranges ELSE ps[p] = NoPosition

\* The last update lies in the period and, once that has begun, not in the future.
Timing(r, now) ==
  r.initialized =>
    /\ r.open_time < r.end_time
    /\ r.open_time <= r.last_update_time /\ r.last_update_time <= r.end_time
    /\ r.last_update_time <= r.open_time \/ r.last_update_time <= now

Types ==
  /\ reward \in RewardInfo
  /\ outside \in [Ticks -> 0 .. (Growth - 1)]
  /\ Positioned(position)
  /\ tick_current \in Int /\ vault \in Nat /\ dust \in Nat /\ time \in Nat

Claims(r, ps, out, t) ==
  (r.reward_total_emitted - r.reward_claimed) * Q64 >= Owes(ps, r.reward_growth_global_x64, out, t)

Funded(r, ps, out, t, v, d) ==
  v * Q64 + d >= Owes(ps, r.reward_growth_global_x64, out, t) + rest_of_period(r)

IInv ==
  /\ Types
  /\ ~reward.initialized => reward = NoReward
  /\ Timing(reward, time)
  /\ Claims(reward, position, outside, tick_current)
  /\ Funded(reward, position, outside, tick_current, vault, dust)

\* The reward at a moment, with so much liquidity active since its last update.
Upd(r, now, active) ==
  IF \/ ~r.initialized
     \/ r.reward_total_emitted = U64Max
     \/ now <= r.open_time
  THEN r ELSE updated_until(r, least(now, r.end_time), active)

(***************************************************************************)
(* Arithmetic.                                                             *)
(***************************************************************************)
LEMMA DivBounds ==
  ASSUME NEW a \in Int, NEW d \in Nat, d > 0
  PROVE  /\ a \div d \in Int /\ a % d \in 0 .. (d - 1)
         /\ a % d = a - d * (a \div d)
<1>1. a \div d \in Int
  OBVIOUS
<1>2. a % d \in 0 .. (d - 1)
  OBVIOUS
<1>3. a % d = a - d * (a \div d)
  OBVIOUS
<1> QED BY <1>1, <1>2, <1>3

\* A product grows with its factor.
LEMMA MulMono ==
  ASSUME NEW a \in Int, NEW b \in Int, NEW k \in Nat, a <= b
  PROVE  k * a \in Int /\ k * b \in Int /\ k * a <= k * b
<1> DEFINE c == b - a
<1>1. c \in Nat /\ b = a + c
  OBVIOUS
<1> HIDE DEF c
<1>2. k * c \in Nat /\ k * a \in Int /\ k * (a + c) = k * a + k * c
  BY <1>1
<1> QED BY <1>1, <1>2

\* A quotient is below what times the divisor stays below the dividend.
LEMMA DivLe ==
  ASSUME NEW a \in Int, NEW b \in Int, NEW d \in Nat, d > 0, a < d * (b + 1)
  PROVE  a \div d <= b
<1>1. a % d = a - d * (a \div d) /\ a \div d \in Int /\ a % d \in 0 .. (d - 1)
  BY DivBounds
<1> DEFINE q == a \div d
<1>2. ASSUME q >= b + 1 PROVE FALSE
  <2>1. d * (b + 1) <= d * q
    BY <1>1, <1>2, MulMono
  <2> QED BY <1>1, <2>1
<1> QED BY <1>1, <1>2

\* The quotient of natural numbers does not exceed the dividend when multiplied back.
LEMMA DivNat ==
  ASSUME NEW a \in Nat, NEW d \in Nat, d > 0
  PROVE  /\ a \div d \in Nat /\ d * (a \div d) \in Nat /\ d * (a \div d) <= a
<1>1. a % d = a - d * (a \div d) /\ a \div d \in Int /\ a % d \in 0 .. (d - 1)
  BY DivBounds
<1>2. a \div d >= 0
  <2>1. ASSUME a \div d <= -1 PROVE FALSE
    <3>1. d * (a \div d) <= d * (-1)
      BY <1>1, <2>1, MulMono
    <3> QED BY <1>1, <3>1
  <2> QED BY <1>1, <2>1
<1>3. d * (a \div d) \in Int
  BY <1>1
<1>4. d * 0 <= d * (a \div d)
  BY <1>1, <1>2, MulMono
<1> QED BY <1>1, <1>2, <1>3, <1>4

\* Rounding up gives at least the exact quotient and is the least such number.
LEMMA CeilBounds ==
  ASSUME NEW a \in Nat, NEW d \in Nat, d > 0
  PROVE  LET c == (a + d - 1) \div d
         IN  /\ c \in Nat /\ a <= d * c
             /\ \A k \in Nat : a <= d * k => c <= k
<1> DEFINE n == a + d - 1
           c == n \div d
<1>1. n \in Nat
  OBVIOUS
<1>2. n % d = n - d * c /\ c \in Int /\ n % d \in 0 .. (d - 1)
  BY <1>1, DivBounds
<1>3. c \in Nat
  BY <1>1, DivNat
<1>4. a <= d * c
  <2> DEFINE m == d * c
             r == n % d
  <2>1. m \in Int /\ r \in 0 .. (d - 1) /\ a + d - 1 = m + r
    BY <1>2
  <2> HIDE DEF m, r
  <2>2. a <= m
    BY <2>1
  <2> QED BY <2>2 DEF m
<1>5. ASSUME NEW k \in Nat, a <= d * k PROVE c <= k
  <2>1. d * (k + 1) = d * k + d /\ d * k \in Nat
    OBVIOUS
  <2>2. n < d * (k + 1)
    BY <1>5, <2>1
  <2> QED BY <1>1, <2>2, DivLe
<1> QED BY <1>3, <1>4, <1>5

\* A remainder is the only number of its range that differs by a multiple.
LEMMA ModUnique ==
  ASSUME NEW a \in Int, NEW d \in Nat, d > 0, NEW r \in 0 .. (d - 1), NEW k \in Int, a = d * k + r
  PROVE  a % d = r
<1>1. a % d = a - d * (a \div d) /\ a \div d \in Int /\ a % d \in 0 .. (d - 1)
  BY DivBounds
<1> DEFINE q == a \div d
           s == a % d
<1> HIDE DEF q, s
<1>2. q \in Int /\ s \in 0 .. (d - 1) /\ d * q + s = d * k + r
  BY <1>1 DEF q, s
<1>3. ASSUME q >= k + 1 PROVE FALSE
  <2>1. d * (k + 1) <= d * q /\ d * (k + 1) = d * k + d /\ d * k \in Int /\ d * q \in Int
    BY <1>2, <1>3, MulMono
  <2> QED BY <1>2, <2>1
<1>4. ASSUME k >= q + 1 PROVE FALSE
  <2>1. d * (q + 1) <= d * k /\ d * (q + 1) = d * q + d /\ d * k \in Int /\ d * q \in Int
    BY <1>2, <1>4, MulMono
  <2> QED BY <1>2, <2>1
<1>5. q = k
  BY <1>2, <1>3, <1>4
<1>6. s = r
  <2>1. d * k \in Int
    OBVIOUS
  <2> QED BY <1>2, <1>5, <2>1
<1> QED BY <1>6 DEF s

Shifted(a, b, d, k) == a = b + d * k

\* Numbers that differ by a multiple have one remainder.
LEMMA ModSame ==
  ASSUME NEW a \in Int, NEW b \in Int, NEW d \in Nat, d > 0, NEW k \in Int, Shifted(a, b, d, k)
  PROVE  a % d = b % d
<1>1. b % d = b - d * (b \div d) /\ b \div d \in Int /\ b % d \in 0 .. (d - 1)
  BY DivBounds
<1>2. (b \div d) + k \in Int /\ d * ((b \div d) + k) = d * (b \div d) + d * k
  BY <1>1
<1>3. d * (b \div d) \in Int /\ d * k \in Int
  BY <1>1
<1> DEFINE q == b \div d
           r == b % d
<1>4. q \in Int /\ r \in 0 .. (d - 1) /\ q + k \in Int /\ b = d * q + r /\ d * (q + k) = d * q + d * k
      /\ d * q \in Int /\ d * k \in Int
  BY <1>1, <1>2, <1>3
<1> HIDE DEF q, r
<1>5. a = d * (q + k) + r
  BY <1>4 DEF Shifted
<1>6. a % d = r
  BY <1>4, <1>5, ModUnique
<1> QED BY <1>6 DEF r

\* What has wrapped may wrap again with what is added or taken away.
LEMMA ModAdd ==
  ASSUME NEW a \in Int, NEW b \in Int, NEW d \in Nat, d > 0
  PROVE  /\ ((a % d) + b) % d = (a + b) % d
         /\ (b - (a % d)) % d = (b - a) % d
         /\ ((a % d) - b) % d = (a - b) % d
<1>1. a % d = a - d * (a \div d) /\ a \div d \in Int /\ a % d \in 0 .. (d - 1)
  BY DivBounds
<1> DEFINE q == a \div d
           s == a % d
<1> HIDE DEF q, s
<1>2. a = d * q + s /\ q \in Int /\ s \in Int /\ d * q \in Int /\ -q \in Int /\ d * (-q) = -(d * q)
  BY <1>1 DEF q, s
<1>3. (a + b) % d = (s + b) % d
  <2> DEFINE x == a + b
             y == s + b
  <2>1. Shifted(x, y, d, q) /\ x \in Int /\ y \in Int
    BY <1>2 DEF Shifted
  <2> HIDE DEF x, y
  <2>2. x % d = y % d
    BY <1>2, <2>1, ModSame
  <2> QED BY <2>2 DEF x, y
<1>4. (b - a) % d = (b - s) % d
  <2> DEFINE x == b - a
             y == b - s
  <2>1. Shifted(x, y, d, -q) /\ x \in Int /\ y \in Int
    BY <1>2 DEF Shifted
  <2> HIDE DEF x, y
  <2>2. x % d = y % d
    BY <1>2, <2>1, ModSame
  <2> QED BY <2>2 DEF x, y
<1>5. (a - b) % d = (s - b) % d
  <2> DEFINE x == a - b
             y == s - b
  <2>1. Shifted(x, y, d, q) /\ x \in Int /\ y \in Int
    BY <1>2 DEF Shifted
  <2> HIDE DEF x, y
  <2>2. x % d = y % d
    BY <1>2, <2>1, ModSame
  <2> QED BY <2>2 DEF x, y
<1> QED BY <1>3, <1>4, <1>5 DEF s

\* A remainder may be taken before an addition.
LEMMA ModPlus ==
  ASSUME NEW a \in Int, NEW b \in Int, NEW d \in Nat, d > 0
  PROVE  ((a % d) + b) % d = (a + b) % d
BY ModAdd

\* A number of the range is its own remainder.
LEMMA ModSmall ==
  ASSUME NEW d \in Nat, d > 0, NEW a \in 0 .. (d - 1)
  PROVE  a % d = a
<1>1. a = d * 0 + a
  OBVIOUS
<1> QED BY <1>1, ModUnique

\* A remainder does not exceed the number.
LEMMA ModAtMost ==
  ASSUME NEW a \in Nat, NEW d \in Nat, d > 0
  PROVE  a % d \in 0 .. (d - 1) /\ a % d <= a
<1>1. a % d = a - d * (a \div d) /\ a % d \in 0 .. (d - 1)
  BY DivBounds
<1>2. d * (a \div d) \in Nat
  BY DivNat
<1> QED BY <1>1, <1>2

(***************************************************************************)
(* Growth that wraps.                                                      *)
(***************************************************************************)
LEMMA WrapNested ==
  ASSUME NEW a \in Int, NEW b \in Int, NEW c \in Int, NEW d \in Int
  PROVE  /\ wrapping_sub(a, b) \in 0 .. (Growth - 1)
         /\ wrapping_sub(wrapping_sub(a, b), c) = (a - b - c) % Growth
         /\ wrapping_sub(a, wrapping_sub(b, c)) = (a - b + c) % Growth
         /\ wrapping_sub(wrapping_sub(a, b), wrapping_sub(c, d)) = (a - b - c + d) % Growth
<1> DEFINE G == Growth
<1>0. G \in Nat /\ G > 0
  BY RewardAssumption
<1> HIDE DEF G
<1>1. wrapping_sub(a, b) \in 0 .. (Growth - 1)
  BY <1>0, DivBounds DEF wrapping_sub, G
<1>2. ASSUME NEW x \in Int, NEW y \in Int, NEW z \in Int
      PROVE  /\ wrapping_sub(wrapping_sub(x, y), z) = (x - y - z) % Growth
             /\ wrapping_sub(x, wrapping_sub(y, z)) = (x - y + z) % Growth
  <2> DEFINE u == x - y
             v == y - z
  <2>1. u \in Int /\ v \in Int /\ u - z = x - y - z /\ x - v = x - y + z
    OBVIOUS
  <2> HIDE DEF u, v
  <2>2. ((u % G) - z) % G = (u - z) % G
    BY <1>0, <2>1, ModAdd
  <2>3. (x - (v % G)) % G = (x - v) % G
    BY <1>0, <2>1, ModAdd
  <2> QED BY <2>1, <2>2, <2>3 DEF u, v, G, wrapping_sub
<1>3. wrapping_sub(wrapping_sub(a, b), wrapping_sub(c, d)) = (a - b - c + d) % Growth
  <2> DEFINE w == wrapping_sub(a, b)
             v == c - d
             n == a - b + d
  <2>1. w \in Int
    BY <1>0, <1>1 DEF G
  <2>2. v \in Int /\ n \in Int
    OBVIOUS
  <2>3. wrapping_sub(w, wrapping_sub(c, d)) = (w - c + d) % Growth
    BY <1>2, <2>1
  <2> DEFINE k == a - b
             m == d - c
  <2>4. k \in Int /\ m \in Int /\ k + m = a - b - c + d /\ w + m = w - c + d
    BY <2>1
  <2>5. w = k % G
    BY DEF wrapping_sub, G
  <2> HIDE DEF w, k, m
  <2>6. ((k % G) + m) % G = (k + m) % G
    BY <1>0, <2>4, ModAdd
  <2>7. (w + m) % G = (k + m) % G
    BY <2>5, <2>6
  <2>8. (w - c + d) % Growth = (a - b - c + d) % Growth
    BY <2>4, <2>7 DEF G
  <2> QED BY <2>3, <2>8 DEF w
<1> QED BY <1>1, <1>2, <1>3

\* Growth below a tick is a growth.
LEMMA BelowType ==
  ASSUME NEW g \in 0 .. (Growth - 1), NEW out, NEW t \in Int, NEW b \in Int,
         out[b] \in 0 .. (Growth - 1)
  PROVE  Below(g, out, t, b) \in 0 .. (Growth - 1)
<1>1. g \in Int /\ out[b] \in Int
  BY RewardAssumption
<1> QED BY <1>1, WrapNested DEF Below

\* An integer below Growth is not changed by wrapping.
LEMMA WrapOnce ==
  ASSUME NEW g \in Int, NEW o \in 0 .. (Growth - 1)
  PROVE  wrapping_sub(g, wrapping_sub(g, o)) = o
<1>1. o \in Int /\ Growth \in Nat /\ Growth > 0
  BY RewardAssumption
<1>2. wrapping_sub(g, wrapping_sub(g, o)) = (g - g + o) % Growth
  BY <1>1, WrapNested
<1>3. g - g + o = o
  BY <1>1
<1>4. o % Growth = o
  BY <1>1, ModSmall
<1> QED BY <1>2, <1>3, <1>4

\* What update_rewards computes is the difference of growth below the ends.
LEMMA InsideIs ==
  ASSUME NEW r \in RewardInfo, NEW out, NEW range, range[1] \in Int, range[2] \in Int,
         range[1] < range[2], tick_current \in Int,
         out[range[1]] \in 0 .. (Growth - 1), out[range[2]] \in 0 .. (Growth - 1)
  PROVE  get_reward_growths_inside(r, out, range)
           = Inside(r.reward_growth_global_x64, out, tick_current, range)
<1> DEFINE g == r.reward_growth_global_x64
           l == range[1]
           u == range[2]
           ol == out[l]
           ou == out[u]
<1>0. g \in Int /\ l \in Int /\ u \in Int /\ ol \in Int /\ ou \in Int /\ l < u
  BY RewardAssumption DEF RewardInfo
<1>1. get_reward_growths_inside(r, out, range)
        = wrapping_sub(wrapping_sub(g, IF tick_current >= l THEN ol ELSE wrapping_sub(g, ol)),
                       IF tick_current < u THEN ou ELSE wrapping_sub(g, ou))
  BY DEF get_reward_growths_inside
<1>2. Inside(g, out, tick_current, range)
        = wrapping_sub(IF tick_current >= u THEN ou ELSE wrapping_sub(g, ou),
                       IF tick_current >= l THEN ol ELSE wrapping_sub(g, ol))
  BY DEF Inside, Below
<1> HIDE DEF g, l, u, ol, ou
<1>3. CASE tick_current < l
  <2>1. ~ tick_current >= l /\ tick_current < u /\ ~ tick_current >= u
    BY <1>0, <1>3
  <2> DEFINE a == wrapping_sub(g, ol)
  <2>2. a \in Int
    BY <1>0, WrapNested, RewardAssumption
  <2> HIDE DEF a
  <2>3. wrapping_sub(wrapping_sub(g, a), ou) = (g - a - ou) % Growth
    BY <1>0, <2>2, WrapNested
  <2>4. wrapping_sub(wrapping_sub(g, ou), a) = (g - ou - a) % Growth
    BY <1>0, <2>2, WrapNested
  <2>5. g - a - ou = g - ou - a
    BY <1>0, <2>2
  <2> QED BY <1>1, <1>2, <2>1, <2>3, <2>4, <2>5 DEF g, a
<1>4. CASE tick_current >= l /\ tick_current < u
  <2>1. wrapping_sub(wrapping_sub(g, ol), ou) = (g - ol - ou) % Growth
    BY <1>0, WrapNested
  <2>2. wrapping_sub(wrapping_sub(g, ou), ol) = (g - ou - ol) % Growth
    BY <1>0, WrapNested
  <2>3. g - ol - ou = g - ou - ol
    BY <1>0
  <2>4. ~ tick_current >= u
    BY <1>0, <1>4
  <2> QED BY <1>1, <1>2, <1>4, <2>1, <2>2, <2>3, <2>4 DEF g
<1>5. CASE tick_current >= u
  <2>1. wrapping_sub(wrapping_sub(g, ol), wrapping_sub(g, ou)) = (g - ol - g + ou) % Growth
    BY <1>0, WrapNested
  <2>2. wrapping_sub(ou, ol) = (ou - ol) % Growth
    BY DEF wrapping_sub
  <2>3. g - ol - g + ou = ou - ol
    BY <1>0
  <2>4. tick_current >= l /\ ~ tick_current < u
    BY <1>0, <1>5
  <2> QED BY <1>1, <1>2, <1>5, <2>1, <2>2, <2>3, <2>4 DEF g
<1> QED BY <1>0, <1>3, <1>4, <1>5

\* Growth that is added is seen by the positions whose range the price is in.
LEMMA UnseenGrows ==
  ASSUME NEW g \in 0 .. (Growth - 1), NEW x \in Nat, NEW out, NEW t \in Int, NEW pos,
         pos.range[1] \in Int, pos.range[2] \in Int, pos.range[1] < pos.range[2],
         out[pos.range[1]] \in 0 .. (Growth - 1), out[pos.range[2]] \in 0 .. (Growth - 1),
         pos.growth_inside_last_x64 \in 0 .. (Growth - 1)
  PROVE  /\ Unseen(pos, g, out, t) \in 0 .. (Growth - 1)
         /\ Unseen(pos, (g + x) % Growth, out, t) \in 0 .. (Growth - 1)
         /\ Unseen(pos, (g + x) % Growth, out, t)
              <= Unseen(pos, g, out, t) + (IF in_range(pos.range, t) THEN x ELSE 0)
<1> DEFINE l == pos.range[1]
           u == pos.range[2]
           ol == out[l]
           ou == out[u]
           la == pos.growth_inside_last_x64
           g2 == (g + x) % Growth
           G == Growth
<1>0. /\ g \in Int /\ l \in Int /\ u \in Int /\ ol \in Int /\ ou \in Int /\ la \in Int /\ l < u
      /\ G \in Nat /\ G > 0 /\ ol \in 0 .. (G - 1) /\ ou \in 0 .. (G - 1)
  BY RewardAssumption
<1>1. g + x \in Nat
  BY RewardAssumption
<1>2. g2 \in 0 .. (G - 1) /\ g2 \in Int
  BY <1>0, <1>1, DivBounds
<1>3. \A h \in 0 .. (Growth - 1) :
        /\ Inside(h, out, t, pos.range)
             = wrapping_sub(IF t >= u THEN ou ELSE wrapping_sub(h, ou),
                            IF t >= l THEN ol ELSE wrapping_sub(h, ol))
        /\ Unseen(pos, h, out, t) = wrapping_sub(Inside(h, out, t, pos.range), la)
  BY DEF Inside, Below, Unseen
<1>4. in_range(pos.range, t) <=> l <= t /\ t < u
  BY DEF in_range
<1>5. \A h \in 0 .. (G - 1) : Unseen(pos, h, out, t) \in 0 .. (G - 1)
  <2> TAKE h \in 0 .. (G - 1)
  <2> DEFINE a == IF t >= u THEN ou ELSE wrapping_sub(h, ou)
             b == IF t >= l THEN ol ELSE wrapping_sub(h, ol)
             c == Inside(h, out, t, pos.range)
  <2>1. h \in Int
    BY <1>0
  <2>2. wrapping_sub(h, ou) \in Int /\ wrapping_sub(h, ol) \in Int
    <3>1. wrapping_sub(h, ou) \in 0 .. (Growth - 1)
      BY <1>0, <2>1, WrapNested
    <3>2. wrapping_sub(h, ol) \in 0 .. (Growth - 1)
      BY <1>0, <2>1, WrapNested
    <3> QED BY <1>0, <3>1, <3>2
  <2>3. a \in Int /\ b \in Int
    BY <1>0, <2>2
  <2>4. c = wrapping_sub(a, b)
    BY <1>3 DEF G
  <2> HIDE DEF a, b, c
  <2>5. c \in Int
    BY <1>0, <2>3, <2>4, WrapNested DEF G
  <2>6. wrapping_sub(c, la) \in 0 .. (Growth - 1)
    BY <1>0, <2>5, WrapNested
  <2> QED BY <1>3, <2>6 DEF c, G
<1> DEFINE v == Unseen(pos, g, out, t)
           v2 == Unseen(pos, g2, out, t)
<1>6. v \in 0 .. (G - 1) /\ v2 \in 0 .. (G - 1)
  BY <1>2, <1>5
<1>7. g \in 0 .. (Growth - 1) /\ g2 \in 0 .. (Growth - 1) /\ g2 = (g + x) % G
  BY <1>2
<1> HIDE DEF l, u, ol, ou, la, g2, G, v, v2
<1>8. CASE l <= t /\ t < u
  <2> DEFINE m == -(ou + ol + la)
             y == g + m
  <2>1. m \in Int /\ y \in Int
    BY <1>0
  <2>2. ASSUME NEW h \in 0 .. (Growth - 1), h \in Int
        PROVE  Unseen(pos, h, out, t) = (h + m) % G
    <3>1. Inside(h, out, t, pos.range) = wrapping_sub(wrapping_sub(h, ou), ol)
      <4>1. ~ t >= u /\ t >= l
        BY <1>0, <1>8
      <4> QED BY <1>3, <4>1
    <3>2. wrapping_sub(wrapping_sub(h, ou), ol) = (h - ou - ol) % Growth
      BY <1>0, <2>2, WrapNested
    <3>3. wrapping_sub(h - ou, ol) = (h - ou - ol) % Growth
      BY DEF wrapping_sub
    <3>4. wrapping_sub(wrapping_sub(h - ou, ol), la) = (h - ou - ol - la) % Growth
      <4>1. h - ou \in Int
        BY <1>0, <2>2
      <4> QED BY <1>0, <4>1, WrapNested
    <3>5. h - ou - ol - la = h + m
      BY <1>0, <2>2
    <3> QED BY <1>3, <3>1, <3>2, <3>3, <3>4, <3>5 DEF G
  <2>3. v = y % G
    BY <1>0, <1>7, <2>2 DEF v
  <2>4. v2 = (g2 + m) % G
    BY <1>2, <1>7, <2>2 DEF v2
  <2> DEFINE k == g + x
  <2>5. k \in Int /\ k + m = y + x
    BY <1>0, <1>1, <2>1
  <2> HIDE DEF y, m
  <2>6. ((k % G) + m) % G = (k + m) % G
    <3> HIDE DEF k
    <3> QED BY <1>0, <2>1, <2>5, ModAdd
  <2>7. ((y % G) + x) % G = (y + x) % G
    <3>1. x \in Int /\ y \in Int /\ G \in Nat /\ G > 0
      BY <1>0, <2>1
    <3> QED BY <3>1, ModPlus
  <2>8. v2 = (v + x) % G
    BY <1>7, <2>3, <2>4, <2>5, <2>6, <2>7
  <2>9. (v + x) % G <= v + x
    <3>1. v + x \in Nat
      BY <1>0, <1>6
    <3> QED BY <1>0, <3>1, ModAtMost
  <2> QED BY <1>4, <1>6, <1>8, <2>8, <2>9 DEF g2, v, v2, G
<1>9. CASE t < l
  <2>1. ASSUME NEW h \in 0 .. (Growth - 1), h \in Int
        PROVE  Inside(h, out, t, pos.range) = (ol - ou) % G
    <3>1. ~ t >= u /\ ~ t >= l
      BY <1>0, <1>9
    <3>2. wrapping_sub(wrapping_sub(h, ou), wrapping_sub(h, ol)) = (h - ou - h + ol) % Growth
      BY <1>0, <2>1, WrapNested
    <3>3. h - ou - h + ol = ol - ou
      BY <1>0, <2>1
    <3> QED BY <1>3, <3>1, <3>2, <3>3 DEF G
  <2>2. v2 = v
    BY <1>0, <1>2, <1>3, <1>7, <2>1 DEF v, v2
  <2>3. ~ in_range(pos.range, t)
    BY <1>0, <1>4, <1>9
  <2> QED BY <1>0, <1>6, <2>2, <2>3 DEF g2, v, v2, G
<1>10. CASE t >= u
  <2>1. t >= l /\ ~ in_range(pos.range, t)
    BY <1>0, <1>4, <1>10
  <2>2. v2 = v
    BY <1>3, <1>7, <1>10, <2>1 DEF v, v2
  <2> QED BY <1>0, <1>6, <2>1, <2>2 DEF g2, v, v2, G
<1> QED BY <1>0, <1>8, <1>9, <1>10

\* Crossing a tick turns its outside growth over, so that the growth below it stays.
LEMMA BelowCrossed ==
  ASSUME NEW g \in 0 .. (Growth - 1), NEW out, NEW after, NEW t \in Int, NEW t2 \in Int,
         NEW b \in Int, out[b] \in 0 .. (Growth - 1),
         after[b] = IF (t < b /\ b <= t2) \/ (t2 < b /\ b <= t)
                    THEN wrapping_sub(g, out[b]) ELSE out[b]
  PROVE  Below(g, after, t2, b) = Below(g, out, t, b)
<1> DEFINE o == out[b]
           n == wrapping_sub(g, o)
<1>1. wrapping_sub(g, n) = o
  BY WrapOnce, RewardAssumption
<1>2. Below(g, out, t, b) = (IF t >= b THEN o ELSE n)
  BY DEF Below
<1>3. Below(g, after, t2, b) = (IF t2 >= b THEN after[b] ELSE wrapping_sub(g, after[b]))
  BY DEF Below
<1> HIDE DEF o, n
<1>4. after[b] = IF (t < b /\ b <= t2) \/ (t2 < b /\ b <= t) THEN n ELSE o
  BY DEF o, n
<1>5. CASE t >= b /\ t2 >= b
  <2>1. after[b] = o
    BY <1>4, <1>5
  <2> QED BY <1>2, <1>3, <1>5, <2>1
<1>6. CASE t >= b /\ t2 < b
  <2>1. after[b] = n /\ ~ t2 >= b
    BY <1>4, <1>6
  <2> QED BY <1>1, <1>2, <1>3, <1>6, <2>1
<1>7. CASE t < b /\ t2 >= b
  <2>1. after[b] = n /\ ~ t >= b
    BY <1>4, <1>7
  <2> QED BY <1>2, <1>3, <1>7, <2>1
<1>8. CASE t < b /\ t2 < b
  <2>1. after[b] = o /\ ~ t >= b /\ ~ t2 >= b
    BY <1>4, <1>8
  <2> QED BY <1>2, <1>3, <2>1 DEF n
<1> QED BY <1>5, <1>6, <1>7, <1>8

(***************************************************************************)
(* An update.                                                              *)
(***************************************************************************)
LEMMA MulParts ==
  ASSUME NEW a \in Int, NEW b \in Int, NEW k \in Int
  PROVE  /\ (a - b) * k = a * k - b * k /\ (a + b) * k = a * k + b * k
         /\ a * k = k * a /\ a * k \in Int /\ b * k \in Int
OBVIOUS

\* Growth is rounded down and what is emitted up: an update takes at least as
\* much from the rest of the period as it gives to the liquidity in range.
LEMMA EmissionArith ==
  ASSUME NEW n \in Nat, NEW rate \in Nat, NEW d \in Nat, d > 0, NEW e \in 0 .. U64Max,
         NEW left \in Nat, n <= left
  PROVE  LET total == e + mul_div_ceil(n, rate, Q64)
             x == IF total <= U64Max THEN mul_div_floor(n, rate, d)
                  ELSE mul_div_floor(U64Max - e, Q64, d)
             e2 == least(total, U64Max)
         IN  /\ x \in Nat /\ e2 \in e .. U64Max
             /\ d * x <= (e2 - e) * Q64
             /\ d * x + least((left - n) * rate, (U64Max - e2) * Q64)
                  <= least(left * rate, (U64Max - e) * Q64)
<1> DEFINE Q == Q64
           U == U64Max
           E == n * rate
           A == left * rate
           k == U - e
           c == mul_div_ceil(n, rate, Q64)
           total == e + c
           x == IF total <= U64Max THEN mul_div_floor(n, rate, d)
                ELSE mul_div_floor(U64Max - e, Q64, d)
           e2 == least(total, U64Max)
<1>0. Q \in Nat /\ Q > 0 /\ U \in Nat /\ e \in Nat /\ e <= U /\ k \in Nat
  BY RewardAssumption
<1>1. E \in Nat /\ A \in Nat /\ E <= A
  <2>1. E \in Nat /\ A \in Nat
    OBVIOUS
  <2>2. rate * n <= rate * left
    BY MulMono
  <2>3. rate * n = E /\ rate * left = A
    OBVIOUS
  <2> HIDE DEF E, A
  <2> QED BY <2>1, <2>2, <2>3
<1>2. c \in Nat /\ E <= Q * c /\ \A i \in Nat : E <= Q * i => c <= i
  <2>1. c = (E + Q - 1) \div Q
    BY DEF mul_div_ceil
  <2> HIDE DEF E, Q, c
  <2> QED BY <1>0, <1>1, <2>1, CeilBounds
<1>3. (left - n) * rate = A - E
  BY MulParts
<1>4. k * Q \in Nat /\ Q * k = k * Q /\ c * Q \in Nat /\ Q * c = c * Q /\ (k - c) * Q = k * Q - c * Q
  <2> HIDE DEF Q, k, c
  <2> QED BY <1>0, <1>2, MulParts
<1>5. mul_div_floor(n, rate, d) = E \div d /\ mul_div_floor(U64Max - e, Q64, d) = (k * Q) \div d
  BY DEF mul_div_floor
<1> DEFINE B == k * Q
           C == c * Q
<1>6. B \in Nat /\ C \in Nat /\ (U - e) * Q = B
  BY <1>4
<1>7. CASE total <= U64Max
  <2>1. x = E \div d /\ e2 = total
    BY <1>5, <1>7 DEF least
  <2>2. (e2 - e) * Q = C /\ (U - e2) * Q = B - C
    <3>1. e2 - e = c /\ U - e2 = k - c
      BY <1>0, <1>2, <2>1
    <3> QED BY <1>4, <3>1
  <2>3. e2 \in e .. U64Max
    BY <1>0, <1>2, <1>7, <2>1
  <2> HIDE DEF E, A, B, C, c, x, e2
  <2>4. x \in Nat /\ d * x \in Nat /\ d * x <= E
    BY <1>1, <2>1, DivNat
  <2> DEFINE y == d * x
  <2>5. y \in Nat /\ y <= E
    BY <2>4
  <2> HIDE DEF y
  <2>6. E <= C
    BY <1>2, <1>4 DEF C
  <2>7. y + least(A - E, B - C) <= least(A, B)
    BY <1>1, <1>6, <2>5, <2>6 DEF least
  <2>8. y <= C
    BY <1>1, <1>6, <2>5, <2>6
  <2>9. d * x <= (e2 - e) * Q64
    BY <2>2, <2>8 DEF y, Q
  <2>10. d * x + least((left - n) * rate, (U64Max - e2) * Q64) <= least(left * rate, (U64Max - e) * Q64)
    BY <1>3, <1>6, <2>2, <2>7 DEF y, A, Q, U
  <2> QED BY <2>3, <2>4, <2>9, <2>10 DEF x, e2, c
<1>8. CASE ~ total <= U64Max
  <2>1. x = B \div d /\ e2 = U64Max
    BY <1>5, <1>8 DEF least
  <2>2. ~ c <= k
    BY <1>0, <1>2, <1>8
  <2>3. ~ E <= B
    BY <1>0, <1>2, <1>4, <2>2
  <2>4. (e2 - e) * Q = B /\ (U - e2) * Q = 0
    <3>1. e2 - e = k /\ U - e2 = 0
      BY <1>0, <2>1
    <3>2. 0 * Q = 0
      BY <1>0
    <3> QED BY <3>1, <3>2
  <2>5. e2 \in e .. U64Max
    BY <1>0, <2>1
  <2> HIDE DEF E, A, B, C, c, x, e2
  <2>6. x \in Nat /\ d * x \in Nat /\ d * x <= B
    BY <1>6, <2>1, DivNat
  <2> DEFINE y == d * x
  <2>7. y \in Nat /\ y <= B
    BY <2>6
  <2> HIDE DEF y
  <2>8. y + least(A - E, 0) <= least(A, B)
    BY <1>1, <1>6, <2>3, <2>7 DEF least
  <2>9. d * x <= (e2 - e) * Q64
    BY <2>4, <2>7 DEF y, Q
  <2>10. d * x + least((left - n) * rate, (U64Max - e2) * Q64) <= least(left * rate, (U64Max - e) * Q64)
    BY <1>3, <1>6, <2>4, <2>8 DEF y, A, Q, U
  <2> QED BY <2>5, <2>6, <2>9, <2>10 DEF x, e2, c
<1> QED BY <1>7, <1>8

\* The reward needs no update: nothing has begun, all is emitted or it is up to date.
Settled(r, now) ==
  r.initialized /\ r.reward_total_emitted # U64Max /\ now > r.open_time
    => r.last_update_time = least(now, r.end_time)

\* update_reward_infos keeps the types and the timing, and hands the liquidity no more
\* than it adds to the total and than it takes from the rest of the period.
LEMMA UpdatedReward ==
  ASSUME NEW r \in RewardInfo, NEW now \in Nat, NEW active \in Nat, Timing(r, now)
  PROVE  LET u == Upd(r, now, active)
         IN  /\ u \in RewardInfo /\ Timing(u, now) /\ Settled(u, now)
             /\ u.initialized = r.initialized /\ u.open_time = r.open_time
             /\ u.end_time = r.end_time /\ u.reward_claimed = r.reward_claimed
             /\ u.emissions_per_second_x64 = r.emissions_per_second_x64
             /\ ~r.initialized => u = r
             /\ \E x \in Nat :
                  /\ u.reward_growth_global_x64 = (r.reward_growth_global_x64 + x) % Growth
                  /\ active * x <= (u.reward_total_emitted - r.reward_total_emitted) * Q64
                  /\ active * x + rest_of_period(u) <= rest_of_period(r)
<1> DEFINE u == Upd(r, now, active)
           latest == least(now, r.end_time)
           n == saturating_sub(latest, r.last_update_time)
           g == r.reward_growth_global_x64
           e == r.reward_total_emitted
           rate == r.emissions_per_second_x64
           last == r.last_update_time
           left == saturating_sub(r.end_time, last)
<1>0. /\ g \in 0 .. (Growth - 1) /\ Growth \in Nat /\ Growth > 0 /\ g \in Int
      /\ e \in 0 .. U64Max /\ rate \in Nat /\ last \in Nat /\ r.end_time \in Nat
      /\ r.open_time \in Nat /\ Q64 \in Nat /\ Q64 > 0 /\ U64Max \in Nat
      /\ r.reward_claimed \in Nat /\ r.initialized \in BOOLEAN
  BY RewardAssumption DEF RewardInfo
<1>1. g = (g + 0) % Growth
  <2>1. g + 0 = g /\ g % Growth = g
    BY <1>0, ModSmall
  <2> QED BY <2>1
<1>2. rest_of_period(r) \in Int
  <2>1. left \in Nat
    BY <1>0 DEF saturating_sub
  <2> HIDE DEF left
  <2>2. left * rate \in Int /\ (U64Max - e) * Q64 \in Int
    BY <1>0, <2>1
  <2> QED BY <2>2 DEF rest_of_period, least, left
<1>3. CASE u = r
  <2>1. active * 0 = 0 /\ (e - e) * Q64 = 0
    BY <1>0
  <2>2. u.reward_growth_global_x64 = (g + 0) % Growth
    BY <1>1, <1>3
  <2>3. active * 0 <= (u.reward_total_emitted - e) * Q64 /\ active * 0 + rest_of_period(u) <= rest_of_period(r)
    BY <1>2, <1>3, <2>1
  <2>4. Settled(u, now)
    <3> SUFFICES ASSUME r.initialized, e # U64Max, now > r.open_time
                 PROVE  last = latest
      BY <1>3 DEF Settled
    <3>1. r = updated_until(r, latest, active)
      BY <1>0, <1>3 DEF Upd
    <3>2. CASE active # 0 /\ n = 0
      <4>1. last <= latest
        BY <1>0 DEF Timing, least
      <4> QED BY <1>0, <3>2, <4>1 DEF saturating_sub, least
    <3>3. CASE ~ (active # 0 /\ n = 0)
      <4> DEFINE m == IF active = 0 THEN r ELSE emitted(r, n, active)
      <4>1. r = [m EXCEPT !.last_update_time = latest]
        BY <3>1, <3>3 DEF updated_until
      <4>2. "last_update_time" \in DOMAIN m
        BY DEF RewardInfo, emitted
      <4> HIDE DEF m
      <4> QED BY <4>1, <4>2
    <3> QED BY <3>2, <3>3
  <2>5. u \in RewardInfo /\ Timing(u, now)
    BY <1>3
  <2> HIDE DEF u
  <2>6. 0 \in Nat
    OBVIOUS
  <2> QED BY <1>3, <2>2, <2>3, <2>4, <2>5, <2>6 DEF u
<1>4. CASE u # r
  <2>1. r.initialized /\ e # U64Max /\ now > r.open_time /\ u = updated_until(r, latest, active)
    BY <1>0, <1>4 DEF Upd
  <2>2. /\ latest \in Nat /\ last <= latest /\ latest <= r.end_time /\ latest <= now
        /\ r.open_time < latest
    BY <1>0, <2>1 DEF Timing, least
  <2>3. n \in Nat /\ left \in Nat /\ n <= left /\ left - n = saturating_sub(r.end_time, latest)
        /\ n = latest - last
    BY <1>0, <2>2 DEF saturating_sub
  <2>4. CASE active = 0
    <3>1. u = [r EXCEPT !.last_update_time = latest]
      BY <2>1, <2>4 DEF updated_until
    <3>2. /\ u \in RewardInfo /\ u.last_update_time = latest /\ u.open_time = r.open_time
          /\ u.end_time = r.end_time /\ u.initialized = r.initialized
          /\ u.reward_claimed = r.reward_claimed /\ u.emissions_per_second_x64 = rate
          /\ u.reward_total_emitted = e /\ u.reward_growth_global_x64 = g
      BY <2>2, <3>1 DEF RewardInfo
    <3>3. Timing(u, now) /\ Settled(u, now)
      BY <1>0, <2>1, <2>2, <3>2 DEF Timing, Settled
    <3>4. rest_of_period(u) <= rest_of_period(r) /\ rest_of_period(u) \in Int
      <4>1. rest_of_period(u) = least((left - n) * rate, (U64Max - e) * Q64)
        BY <2>3, <3>2 DEF rest_of_period
      <4>2. rest_of_period(r) = least(left * rate, (U64Max - e) * Q64)
        BY DEF rest_of_period
      <4> HIDE DEF left, n
      <4>3. rate * (left - n) <= rate * left
        BY <1>0, <2>3, MulMono
      <4>4. rate * (left - n) = (left - n) * rate /\ rate * left = left * rate
            /\ rate * left \in Int /\ rate * (left - n) \in Int /\ (U64Max - e) * Q64 \in Int
        BY <1>0, <2>3
      <4> QED BY <4>1, <4>2, <4>3, <4>4 DEF least
    <3>5. active * 0 = 0 /\ (e - e) * Q64 = 0
      BY <1>0
    <3>6. u.reward_growth_global_x64 = (g + 0) % Growth
      BY <1>1, <3>2
    <3>7. active * 0 <= (u.reward_total_emitted - e) * Q64 /\ active * 0 + rest_of_period(u) <= rest_of_period(r)
      BY <3>2, <3>4, <3>5
    <3> HIDE DEF u
    <3>8. 0 \in Nat
      OBVIOUS
    <3> QED BY <2>1, <3>2, <3>3, <3>6, <3>7, <3>8 DEF u
  <2>5. CASE active # 0
    <3> DEFINE total == e + mul_div_ceil(n, rate, Q64)
               x == IF total <= U64Max THEN mul_div_floor(n, rate, active)
                    ELSE mul_div_floor(U64Max - e, Q64, active)
               e2 == least(total, U64Max)
               d == reward_delta(r, n)
    <3>1. u = [emitted(r, n, active) EXCEPT !.last_update_time = latest]
      <4>1. active # 0 /\ n # 0
        BY <1>4, <2>1, <2>5 DEF updated_until
      <4> QED BY <2>1, <4>1 DEF updated_until
    <3>2. emitted(r, n, active) = [r EXCEPT !.reward_total_emitted = e2,
                                            !.reward_growth_global_x64 = (g + x) % Growth]
      <4> HIDE DEF n
      <4> QED BY DEF emitted, reward_delta
    <3>3. /\ x \in Nat /\ e2 \in e .. U64Max
          /\ active * x <= (e2 - e) * Q64
          /\ active * x + least((left - n) * rate, (U64Max - e2) * Q64)
               <= least(left * rate, (U64Max - e) * Q64)
      <4>1. active > 0
        BY <2>5
      <4> HIDE DEF n, left
      <4> QED BY <1>0, <2>3, <4>1, EmissionArith
    <3> HIDE DEF x, e2
    <3>4. (g + x) % Growth \in 0 .. (Growth - 1)
      BY <1>0, <3>3, DivBounds
    <3>5. /\ u \in RewardInfo /\ u.last_update_time = latest /\ u.open_time = r.open_time
          /\ u.end_time = r.end_time /\ u.initialized = r.initialized
          /\ u.reward_claimed = r.reward_claimed /\ u.emissions_per_second_x64 = rate
          /\ u.reward_total_emitted = e2 /\ u.reward_growth_global_x64 = (g + x) % Growth
      <4> HIDE DEF u, latest
      <4>1. e2 \in 0 .. U64Max
        BY <1>0, <3>3
      <4> QED BY <2>2, <3>1, <3>2, <3>4, <4>1 DEF RewardInfo
    <3>6. Timing(u, now) /\ Settled(u, now)
      BY <1>0, <2>1, <2>2, <3>5 DEF Timing, Settled
    <3>7. rest_of_period(u) = least((left - n) * rate, (U64Max - e2) * Q64)
      BY <2>3, <3>5 DEF rest_of_period
    <3>8. rest_of_period(r) = least(left * rate, (U64Max - e) * Q64)
      BY DEF rest_of_period
    <3> HIDE DEF u, left, n
    <3>9. active * x <= (u.reward_total_emitted - e) * Q64
          /\ active * x + rest_of_period(u) <= rest_of_period(r)
      BY <3>3, <3>5, <3>7, <3>8
    <3> QED BY <2>1, <3>3, <3>5, <3>6, <3>9 DEF u
  <2> QED BY <2>4, <2>5
<1> QED BY <1>3, <1>4

(***************************************************************************)
(* The shares of all positions.                                            *)
(***************************************************************************)
Outside == [Ticks -> 0 .. (Growth - 1)]

\* The range of an open position lies between two of the ticks.
LEMMA OpenPosition ==
  ASSUME NEW ps, Positioned(ps), NEW out \in Outside, NEW p \in Positions, ps[p].open
  PROVE  /\ ps[p].range[1] \in Int /\ ps[p].range[2] \in Int /\ ps[p].range[1] < ps[p].range[2]
         /\ ps[p].range \in Ranges /\ ps[p].range[1] \in Ticks /\ ps[p].range[2] \in Ticks
         /\ out[ps[p].range[1]] \in 0 .. (Growth - 1) /\ out[ps[p].range[2]] \in 0 .. (Growth - 1)
         /\ ps[p].liquidity \in Nat /\ ps[p].reward_amount_owed \in Nat
         /\ ps[p].growth_inside_last_x64 \in 0 .. (Growth - 1)
<1>1. ps[p] \in PositionInfo /\ ps[p].range \in Ranges
  BY DEF Positioned
<1>2. ps[p].range[1] \in Ticks /\ ps[p].range[2] \in Ticks
  BY <1>1 DEF Ticks
<1> QED BY <1>1, <1>2, RewardAssumption DEF PositionInfo, Outside

\* Products of natural numbers are natural.
LEMMA ProductOfNat ==
  ASSUME NEW a \in Nat, NEW b \in Nat
  PROVE  a * b \in Nat
OBVIOUS

\* Shares, what has been earned and what is owed are amounts.
LEMMA ShareType ==
  ASSUME NEW ps, Positioned(ps), NEW out \in Outside, NEW g \in 0 .. (Growth - 1), NEW t \in Int
  PROVE  /\ \A p \in Positions :
              /\ Share(ps[p], g, out, t) \in Nat
              /\ ps[p].open => /\ Unseen(ps[p], g, out, t) \in 0 .. (Growth - 1)
                               /\ ps[p].reward_amount_owed * Q64 <= Share(ps[p], g, out, t)
         /\ Owes(ps, g, out, t) \in Nat
         /\ \A p \in Positions : Share(ps[p], g, out, t) <= Owes(ps, g, out, t)
<1>0. Q64 \in Nat /\ Growth \in Nat /\ Growth > 0 /\ IsFiniteSet(Positions)
  BY RewardAssumption
<1>1. ASSUME NEW p \in Positions
      PROVE  /\ Share(ps[p], g, out, t) \in Nat
             /\ ps[p].open => /\ Unseen(ps[p], g, out, t) \in 0 .. (Growth - 1)
                              /\ ps[p].reward_amount_owed * Q64 <= Share(ps[p], g, out, t)
  <2>1. CASE ps[p].open
    <3> DEFINE o == ps[p].reward_amount_owed
               l == ps[p].liquidity
               w == Unseen(ps[p], g, out, t)
    <3>1. o \in Nat /\ l \in Nat
      BY <2>1, OpenPosition
    <3>2. w \in 0 .. (Growth - 1)
      BY <2>1, OpenPosition, UnseenGrows, 0 \in Nat
    <3>3. Share(ps[p], g, out, t) = o * Q64 + l * w
      BY <2>1 DEF Share
    <3> HIDE DEF o, l, w
    <3>4. o * Q64 \in Nat /\ l * w \in Nat
      BY <1>0, <3>1, <3>2, ProductOfNat
    <3> QED BY <3>2, <3>3, <3>4 DEF o, w
  <2>2. CASE ~ps[p].open
    BY <2>2 DEF Share
  <2> QED BY <2>1, <2>2
<1> DEFINE S == Shares(ps, g, out, t)
<1>2. \A p \in Positions : S[p] = Share(ps[p], g, out, t)
  BY DEF Shares
<1>3. Owes(ps, g, out, t) = SumFunctionOnSet(S, Positions)
  BY DEF Owes, sum_over_positions
<1> HIDE DEF S
<1>4. \A p \in Positions : S[p] \in Nat
  BY <1>1, <1>2
<1>5. /\ SumFunctionOnSet(S, Positions) \in Nat
      /\ \A p \in Positions : S[p] <= SumFunctionOnSet(S, Positions)
  BY <1>0, <1>4, SumNat
<1> QED BY <1>1, <1>2, <1>3, <1>5

active_at(ps, t) ==
  sum_over_positions([p \in Positions |-> IF in_range(ps[p].range, t) THEN ps[p].liquidity ELSE 0])

\* The liquidity in range takes up no more than it was given.
LEMMA OwesGrows ==
  ASSUME NEW ps, Positioned(ps), NEW out \in Outside, NEW g \in 0 .. (Growth - 1), NEW t \in Int,
         NEW x \in Nat
  PROVE  /\ active_at(ps, t) \in Nat
         /\ Owes(ps, (g + x) % Growth, out, t) <= Owes(ps, g, out, t) + active_at(ps, t) * x
<1> DEFINE g2 == (g + x) % Growth
           A == [p \in Positions |-> IF in_range(ps[p].range, t) THEN ps[p].liquidity ELSE 0]
           AX == [p \in Positions |-> x * A[p]]
           S == Shares(ps, g, out, t)
           S2 == Shares(ps, g2, out, t)
           T == [p \in Positions |-> S[p] + AX[p]]
<1>0. Q64 \in Nat /\ Growth \in Nat /\ Growth > 0 /\ IsFiniteSet(Positions)
  BY RewardAssumption
<1>1. g2 \in 0 .. (Growth - 1)
  BY <1>0, DivBounds
<1>2. \A p \in Positions : /\ S[p] = Share(ps[p], g, out, t) /\ S[p] \in Nat
                           /\ S2[p] = Share(ps[p], g2, out, t) /\ S2[p] \in Nat
  <2> HIDE DEF g2
  <2> QED BY <1>1, ShareType DEF Shares
<1>3. \A p \in Positions : A[p] \in Nat /\ AX[p] \in Nat
  <2> TAKE p \in Positions
  <2>1. ps[p].liquidity \in Nat
    BY DEF Positioned, PositionInfo
  <2>2. A[p] \in Nat
    BY <2>1
  <2>3. x * A[p] \in Nat
    <3> HIDE DEF A
    <3> QED BY <2>2, ProductOfNat
  <2> QED BY <2>2, <2>3
<1>4. ASSUME NEW p \in Positions PROVE S2[p] <= S[p] + AX[p]
  <2>1. CASE ps[p].open
    <3> DEFINE o == ps[p].reward_amount_owed
               l == ps[p].liquidity
               w == Unseen(ps[p], g, out, t)
               w2 == Unseen(ps[p], g2, out, t)
               y == IF in_range(ps[p].range, t) THEN x ELSE 0
    <3>1. o \in Nat /\ l \in Nat /\ y \in Nat
      BY <2>1, OpenPosition
    <3>2. w \in 0 .. (Growth - 1) /\ w2 \in 0 .. (Growth - 1) /\ w2 <= w + y
      BY <2>1, OpenPosition, UnseenGrows
    <3>3. S[p] = o * Q64 + l * w /\ S2[p] = o * Q64 + l * w2
      BY <1>2, <2>1 DEF Share
    <3>4. AX[p] = l * y
      <4>1. AX[p] = x * A[p]
        OBVIOUS
      <4>2. CASE in_range(ps[p].range, t)
        <5>1. A[p] = l /\ y = x
          BY <4>2
        <5> HIDE DEF A, l, y, AX
        <5> QED BY <3>1, <4>1, <5>1
      <4>3. CASE ~in_range(ps[p].range, t)
        <5>1. A[p] = 0 /\ y = 0
          BY <4>3
        <5> HIDE DEF A, l, y, AX
        <5> QED BY <3>1, <4>1, <5>1
      <4> QED BY <4>2, <4>3
    <3> HIDE DEF o, l, w, w2, y, S, S2, AX
    <3>5. w \in Nat /\ w2 \in Nat
      BY <1>0, <3>2
    <3>6. l * w2 <= l * (w + y) /\ l * (w + y) = l * w + l * y
      <4>1. w + y \in Int /\ w2 \in Int
        BY <3>1, <3>5
      <4>2. l * w2 <= l * (w + y)
        BY <3>1, <3>2, <4>1, MulMono
      <4> QED BY <3>1, <3>5, <4>2
    <3>7. l * w2 \in Nat /\ l * w \in Nat /\ l * y \in Nat /\ o * Q64 \in Nat
      BY <1>0, <3>1, <3>5, ProductOfNat
    <3> QED BY <3>3, <3>4, <3>6, <3>7
  <2>2. CASE ~ps[p].open
    <3>1. S2[p] = 0 /\ S[p] = 0
      BY <1>2, <2>2 DEF Share
    <3> QED BY <1>3, <3>1
  <2> QED BY <2>1, <2>2
<1>5. \A p \in Positions : AX[p] = x * A[p] /\ T[p] = S[p] + AX[p]
  OBVIOUS
<1>6. /\ active_at(ps, t) = SumFunctionOnSet(A, Positions)
      /\ Owes(ps, g, out, t) = SumFunctionOnSet(S, Positions)
      /\ Owes(ps, g2, out, t) = SumFunctionOnSet(S2, Positions)
  BY DEF Owes, sum_over_positions, active_at
<1> HIDE DEF S, S2, T, A, AX, g2
<1>7. SumFunctionOnSet(A, Positions) \in Nat
  BY <1>0, <1>3, SumNat
<1>8. SumFunctionOnSet(AX, Positions) = x * SumFunctionOnSet(A, Positions)
  <2>1. x \in Int /\ \A p \in Positions : A[p] \in Int /\ AX[p] = x * A[p]
    BY <1>3, <1>5
  <2> QED BY <1>0, <2>1, SumScale
<1>9. SumFunctionOnSet(T, Positions) = SumFunctionOnSet(S, Positions) + SumFunctionOnSet(AX, Positions)
  BY <1>0, <1>2, <1>3, <1>5, SumPlus
<1>10. SumFunctionOnSet(S2, Positions) <= SumFunctionOnSet(T, Positions)
  <2>1. \A p \in Positions : S2[p] \in Int /\ T[p] \in Int /\ S2[p] <= T[p]
    BY <1>2, <1>3, <1>4, <1>5
  <2> QED BY <1>0, <2>1, SumMonotone
<1>11. x * SumFunctionOnSet(A, Positions) = SumFunctionOnSet(A, Positions) * x
  BY <1>7
<1> QED BY <1>6, <1>7, <1>8, <1>9, <1>10, <1>11 DEF g2

\* A tick where a position with liquidity ends has liquidity.
LEMMA GrossPositive ==
  ASSUME NEW ps, Positioned(ps), NEW p \in Positions, ps[p].liquidity > 0,
         NEW b \in {ps[p].range[1], ps[p].range[2]}
  PROVE  liquidity_gross(ps, b) > 0
<1> DEFINE A == [q \in Positions |-> IF b \in {ps[q].range[1], ps[q].range[2]}
                                     THEN ps[q].liquidity ELSE 0]
<1>1. \A q \in Positions : A[q] \in Nat
  BY DEF Positioned, PositionInfo
<1>2. A[p] = ps[p].liquidity
  OBVIOUS
<1>3. liquidity_gross(ps, b) = SumFunctionOnSet(A, Positions)
  BY DEF liquidity_gross, sum_over_positions
<1>4. ps[p].liquidity \in Nat
  BY DEF Positioned, PositionInfo
<1> HIDE DEF A
<1>5. SumFunctionOnSet(A, Positions) \in Nat /\ A[p] <= SumFunctionOnSet(A, Positions)
  BY <1>1, RewardAssumption, SumNat
<1> QED BY <1>2, <1>3, <1>4, <1>5

\* Nothing divided gives nothing.
LEMMA DivOfZero ==
  ASSUME NEW d \in Nat, d > 0
  PROVE  0 \div d = 0
<1>1. 0 \div d \in Nat /\ d * (0 \div d) \in Nat /\ d * (0 \div d) <= 0
  BY DivNat
<1> DEFINE q == 0 \div d
<1> HIDE DEF q
<1>2. q \in Nat /\ d * q <= 0
  BY <1>1 DEF q
<1>3. ASSUME q >= 1 PROVE FALSE
  <2>1. d * 1 <= d * q /\ d * 1 = d
    BY <1>2, <1>3, MulMono
  <2> QED BY <1>2, <2>1
<1>4. q = 0
  BY <1>2, <1>3
<1> QED BY <1>4 DEF q

\* Without liquidity a position is owed what it was, whatever the growth.
LEMMA Idle ==
  ASSUME NEW pos, pos.open, pos.liquidity = 0, pos.reward_amount_owed \in Nat,
         NEW g, NEW out, NEW t, Unseen(pos, g, out, t) \in Int
  PROVE  /\ Share(pos, g, out, t) = pos.reward_amount_owed * Q64
         /\ Earned(pos, g, out, t) = pos.reward_amount_owed
<1> DEFINE w == Unseen(pos, g, out, t)
           o == pos.reward_amount_owed
<1>1. Q64 \in Nat /\ Q64 > 0
  BY RewardAssumption
<1>2. Share(pos, g, out, t) = o * Q64 + 0 * w
  BY DEF Share
<1>3. Earned(pos, g, out, t) = o + ((w * 0) \div Q64)
  BY DEF Earned, mul_div_floor
<1> HIDE DEF w
<1>4. 0 * w = 0 /\ w * 0 = 0
  BY DEF w
<1>5. 0 \div Q64 = 0
  BY <1>1, DivOfZero
<1>6. o * Q64 \in Nat
  BY <1>1, ProductOfNat
<1> HIDE DEF o
<1>7. o \in Nat
  BY DEF o
<1> QED BY <1>2, <1>3, <1>4, <1>5, <1>6, <1>7 DEF o

\* Where liquidity keeps a tick initialized, the growth below it is what
\* positions are told apart by.
LEMMA Elsewhere ==
  ASSUME NEW ps, Positioned(ps), NEW out \in Outside, NEW out2 \in Outside,
         NEW g \in 0 .. (Growth - 1), NEW t \in Int, NEW t2 \in Int,
         \A b \in Ticks : liquidity_gross(ps, b) > 0 => Below(g, out2, t2, b) = Below(g, out, t, b)
  PROVE  \A p \in Positions : /\ Share(ps[p], g, out2, t2) = Share(ps[p], g, out, t)
                              /\ Earned(ps[p], g, out2, t2) = Earned(ps[p], g, out, t)
<1> TAKE p \in Positions
<1>1. CASE ~ps[p].open
  BY <1>1 DEF Share, Earned
<1>2. CASE ps[p].open /\ ps[p].liquidity = 0
  <2>1. Unseen(ps[p], g, out, t) \in 0 .. (Growth - 1) /\ Unseen(ps[p], g, out2, t2) \in 0 .. (Growth - 1)
    BY <1>2, ShareType
  <2>2. Unseen(ps[p], g, out, t) \in Int /\ Unseen(ps[p], g, out2, t2) \in Int
    BY <2>1, RewardAssumption
  <2>3. ps[p].reward_amount_owed \in Nat
    BY <1>2, OpenPosition
  <2>4. /\ Share(ps[p], g, out, t) = ps[p].reward_amount_owed * Q64
        /\ Earned(ps[p], g, out, t) = ps[p].reward_amount_owed
    BY <1>2, <2>2, <2>3, Idle
  <2>5. /\ Share(ps[p], g, out2, t2) = ps[p].reward_amount_owed * Q64
        /\ Earned(ps[p], g, out2, t2) = ps[p].reward_amount_owed
    BY <1>2, <2>2, <2>3, Idle
  <2> QED BY <2>4, <2>5
<1>3. CASE ps[p].open /\ ps[p].liquidity # 0
  <2>1. ps[p].liquidity > 0
    BY <1>3, OpenPosition
  <2>2. /\ ps[p].range[1] \in Ticks /\ liquidity_gross(ps, ps[p].range[1]) > 0
        /\ ps[p].range[2] \in Ticks /\ liquidity_gross(ps, ps[p].range[2]) > 0
    BY <1>3, <2>1, OpenPosition, GrossPositive
  <2>3. Inside(g, out2, t2, ps[p].range) = Inside(g, out, t, ps[p].range)
    BY <2>2 DEF Inside
  <2>4. Unseen(ps[p], g, out2, t2) = Unseen(ps[p], g, out, t)
    BY <2>3 DEF Unseen
  <2> QED BY <2>4 DEF Share, Earned
<1> QED BY <1>1, <1>2, <1>3

\* One position changes and loses what it is paid; ticks whose last liquidity
\* it takes, or to whom it brings the first, may have any growth outside.
OneChanges(ps, ps2, p, out, outA, out2, g, t, paid) ==
  /\ Positioned(ps) /\ Positioned(ps2) /\ p \in Positions /\ paid \in Nat
  /\ out \in Outside /\ outA \in Outside /\ out2 \in Outside /\ g \in 0 .. (Growth - 1) /\ t \in Int
  /\ \A q \in Positions : q # p => ps2[q] = ps[q]
  /\ \A b \in Ticks : liquidity_gross(ps, b) > 0 => outA[b] = out[b]
  /\ \A b \in Ticks : liquidity_gross(ps2, b) > 0 => out2[b] = outA[b]
  /\ Share(ps2[p], g, outA, t) + paid * Q64 <= Share(ps[p], g, outA, t)
  /\ Earned(ps2[p], g, outA, t) = Earned(ps[p], g, outA, t) - paid

\* When one position changes and pays, what is owed falls by the payment at least.
LEMMA Touching ==
  ASSUME NEW ps, NEW ps2, NEW p, NEW out, NEW outA, NEW out2, NEW g, NEW t, NEW paid,
         OneChanges(ps, ps2, p, out, outA, out2, g, t, paid)
  PROVE  /\ Owes(ps2, g, out2, t) + paid * Q64 <= Owes(ps, g, out, t)
         /\ \A q \in Positions :
              Earned(ps2[q], g, out2, t) = IF q = p THEN Earned(ps[q], g, out, t) - paid
                                           ELSE Earned(ps[q], g, out, t)
<1>a. /\ Positioned(ps) /\ Positioned(ps2) /\ p \in Positions /\ paid \in Nat
      /\ out \in Outside /\ outA \in Outside /\ out2 \in Outside /\ g \in 0 .. (Growth - 1) /\ t \in Int
      /\ \A q \in Positions : q # p => ps2[q] = ps[q]
      /\ \A b \in Ticks : liquidity_gross(ps, b) > 0 => outA[b] = out[b]
      /\ \A b \in Ticks : liquidity_gross(ps2, b) > 0 => out2[b] = outA[b]
      /\ Share(ps2[p], g, outA, t) + paid * Q64 <= Share(ps[p], g, outA, t)
      /\ Earned(ps2[p], g, outA, t) = Earned(ps[p], g, outA, t) - paid
  BY DEF OneChanges
<1> USE <1>a
<1>1. \A b \in Ticks : liquidity_gross(ps, b) > 0 => Below(g, outA, t, b) = Below(g, out, t, b)
  BY DEF Below
<1>2. \A q \in Positions : /\ Share(ps[q], g, outA, t) = Share(ps[q], g, out, t)
                           /\ Earned(ps[q], g, outA, t) = Earned(ps[q], g, out, t)
  BY <1>1, Elsewhere
<1>3. \A b \in Ticks : liquidity_gross(ps2, b) > 0 => Below(g, out2, t, b) = Below(g, outA, t, b)
  BY DEF Below
<1>4. \A q \in Positions : /\ Share(ps2[q], g, out2, t) = Share(ps2[q], g, outA, t)
                           /\ Earned(ps2[q], g, out2, t) = Earned(ps2[q], g, outA, t)
  BY <1>3, Elsewhere
<1> DEFINE S == Shares(ps, g, out, t)
           S2 == Shares(ps2, g, out2, t)
<1>5. /\ \A q \in Positions : S[q] = Share(ps[q], g, out, t) /\ S2[q] = Share(ps2[q], g, out2, t)
      /\ Owes(ps, g, out, t) = SumFunctionOnSet(S, Positions)
      /\ Owes(ps2, g, out2, t) = SumFunctionOnSet(S2, Positions)
  BY DEF Shares, Owes, sum_over_positions
<1>6. \A q \in Positions : S[q] \in Nat /\ S2[q] \in Nat
  BY <1>5, ShareType
<1>7. \A q \in Positions : q # p => S[q] = S2[q]
  BY <1>2, <1>4, <1>5
<1>8. S2[p] + paid * Q64 <= S[p]
  BY <1>2, <1>4, <1>5
<1> HIDE DEF S, S2
<1>9. SumFunctionOnSet(S2, Positions) = (SumFunctionOnSet(S, Positions) - S[p]) + S2[p]
  BY <1>6, <1>7, RewardAssumption, SumUpdate
<1>10. SumFunctionOnSet(S, Positions) \in Nat /\ SumFunctionOnSet(S2, Positions) \in Nat
  BY <1>6, RewardAssumption, SumNat
<1>11. paid * Q64 \in Nat
  BY RewardAssumption, ProductOfNat
<1>12. Owes(ps2, g, out2, t) + paid * Q64 <= Owes(ps, g, out, t)
  BY <1>5, <1>6, <1>8, <1>9, <1>10, <1>11
<1>13. ASSUME NEW q \in Positions
       PROVE  Earned(ps2[q], g, out2, t) = IF q = p THEN Earned(ps[q], g, out, t) - paid
                                           ELSE Earned(ps[q], g, out, t)
  BY <1>2, <1>4
<1> QED BY <1>12, <1>13

\* update_rewards moves the integer part of a share to reward_amount_owed.
LEMMA UpdatedPosition ==
  ASSUME NEW ps, Positioned(ps), NEW p \in Positions, ps[p].open,
         NEW out \in Outside, NEW g \in 0 .. (Growth - 1), NEW t \in Int
  PROVE  LET i == Inside(g, out, t, ps[p].range)
             upd == update_rewards(ps[p], i)
         IN  /\ i \in 0 .. (Growth - 1)
             /\ upd.reward_amount_owed \in Nat
             /\ upd \in PositionInfo /\ upd.open /\ upd.range = ps[p].range
             /\ upd.liquidity = ps[p].liquidity /\ upd.growth_inside_last_x64 = i
<1> DEFINE i == Inside(g, out, t, ps[p].range)
           upd == update_rewards(ps[p], i)
           o == ps[p].reward_amount_owed
           l == ps[p].liquidity
           w == wrapping_sub(i, ps[p].growth_inside_last_x64)
<1>0. /\ Q64 \in Nat /\ Q64 > 0 /\ Growth \in Nat /\ Growth > 0
      /\ ps[p] \in PositionInfo /\ o \in Nat /\ l \in Nat
  BY RewardAssumption, OpenPosition DEF Positioned
<1>1. i \in 0 .. (Growth - 1)
  <2> DEFINE a == Below(g, out, t, ps[p].range[2])
             b == Below(g, out, t, ps[p].range[1])
  <2>1. a \in 0 .. (Growth - 1) /\ b \in 0 .. (Growth - 1)
    BY OpenPosition, BelowType
  <2>2. i = wrapping_sub(a, b)
    BY DEF Inside
  <2> HIDE DEF a, b, i
  <2>3. a \in Int /\ b \in Int
    BY <1>0, <2>1
  <2>4. wrapping_sub(a, b) \in 0 .. (Growth - 1)
    BY <2>3, WrapNested
  <2> QED BY <2>2, <2>4
<1>2. w \in 0 .. (Growth - 1)
  <2>1. w = Unseen(ps[p], g, out, t)
    BY DEF Unseen
  <2> QED BY <2>1, ShareType
<1> HIDE DEF i
<1>3. upd.reward_amount_owed = o + ((w * l) \div Q64)
  BY <1>0 DEF update_rewards, PositionInfo, mul_div_floor
<1>4. upd = [ps[p] EXCEPT !.reward_amount_owed = o + mul_div_floor(w, l, Q64), !.growth_inside_last_x64 = i]
  BY <1>0 DEF update_rewards, PositionInfo
<1> HIDE DEF w, l, o
<1>5. w * l \in Nat
  BY <1>0, <1>2, ProductOfNat
<1>6. (w * l) \div Q64 \in Nat
  BY <1>0, <1>5, DivNat
<1>7. upd.reward_amount_owed \in Nat
  BY <1>0, <1>3, <1>6
<1>8. /\ upd \in PositionInfo /\ upd.open /\ upd.range = ps[p].range
      /\ upd.liquidity = ps[p].liquidity /\ upd.growth_inside_last_x64 = i
  <2> DEFINE m == o + mul_div_floor(w, l, Q64)
  <2>1. m \in Nat
    BY <1>0, <1>6 DEF mul_div_floor
  <2>2. upd = [ps[p] EXCEPT !.reward_amount_owed = m, !.growth_inside_last_x64 = i]
    BY <1>4
  <2> HIDE DEF m, upd
  <2> QED BY <1>0, <1>1, <2>1, <2>2 DEF PositionInfo
<1> QED BY <1>1, <1>7, <1>8 DEF i

\* A position that has been brought up to date and paid, whatever its liquidity is then.
UpToDate(ps, p, out, g, t, pos, upd, paid) ==
  /\ Positioned(ps) /\ p \in Positions /\ ps[p].open /\ out \in Outside
  /\ g \in 0 .. (Growth - 1) /\ t \in Int
  /\ pos.open /\ pos.range = ps[p].range /\ pos.liquidity \in Nat
  /\ pos.growth_inside_last_x64 = Inside(g, out, t, ps[p].range)
  /\ upd = update_rewards(ps[p], Inside(g, out, t, ps[p].range))
  /\ paid \in Nat /\ paid <= upd.reward_amount_owed
  /\ pos.reward_amount_owed = upd.reward_amount_owed - paid

\* A position that is up to date and then paid: its share and what it has earned.
LEMMA Touched ==
  ASSUME NEW ps, NEW p, NEW out, NEW g, NEW t, NEW pos, NEW upd, NEW paid,
         UpToDate(ps, p, out, g, t, pos, upd, paid)
  PROVE  /\ upd.reward_amount_owed \in Nat
         /\ Inside(g, out, t, ps[p].range) \in 0 .. (Growth - 1)
         /\ Share(pos, g, out, t) + paid * Q64 <= Share(ps[p], g, out, t)
         /\ Earned(pos, g, out, t) = Earned(ps[p], g, out, t) - paid
<1>a. /\ Positioned(ps) /\ p \in Positions /\ ps[p].open /\ out \in Outside
      /\ g \in 0 .. (Growth - 1) /\ t \in Int
      /\ pos.open /\ pos.range = ps[p].range /\ pos.liquidity \in Nat
      /\ pos.growth_inside_last_x64 = Inside(g, out, t, ps[p].range)
      /\ upd = update_rewards(ps[p], Inside(g, out, t, ps[p].range))
      /\ paid \in Nat /\ paid <= upd.reward_amount_owed
      /\ pos.reward_amount_owed = upd.reward_amount_owed - paid
  BY DEF UpToDate
<1> USE <1>a
<1> DEFINE i == Inside(g, out, t, ps[p].range)
           la == ps[p].growth_inside_last_x64
           l == ps[p].liquidity
           o == ps[p].reward_amount_owed
           w == wrapping_sub(i, la)
           o2 == upd.reward_amount_owed
           Q == Q64
<1>0. Q \in Nat /\ Q > 0 /\ Growth \in Nat /\ Growth > 0
  BY RewardAssumption
<1>1. i \in 0 .. (Growth - 1)
  <2> DEFINE a == Below(g, out, t, ps[p].range[2])
             b == Below(g, out, t, ps[p].range[1])
  <2>1. a \in 0 .. (Growth - 1) /\ b \in 0 .. (Growth - 1)
    BY OpenPosition, BelowType
  <2>2. i = wrapping_sub(a, b)
    BY DEF Inside
  <2> HIDE DEF a, b, i
  <2>3. a \in Int /\ b \in Int
    BY <1>0, <2>1
  <2>4. wrapping_sub(a, b) \in 0 .. (Growth - 1)
    BY <2>3, WrapNested
  <2> QED BY <2>2, <2>4
<1>2. w = Unseen(ps[p], g, out, t) /\ w \in 0 .. (Growth - 1)
  <2>1. w = Unseen(ps[p], g, out, t)
    BY DEF Unseen
  <2> QED BY <2>1, ShareType
<1>3. o \in Nat /\ l \in Nat
  BY OpenPosition
<1>4. o2 = o + ((w * l) \div Q)
  <2>1. ps[p] \in PositionInfo
    BY DEF Positioned
  <2> HIDE DEF i
  <2>2. upd = [ps[p] EXCEPT !.reward_amount_owed = @ + mul_div_floor(wrapping_sub(i, la), l, Q64),
                            !.growth_inside_last_x64 = i]
    BY DEF update_rewards, i
  <2>3. upd.reward_amount_owed = o + mul_div_floor(w, l, Q64)
    BY <2>1, <2>2 DEF PositionInfo
  <2> QED BY <2>3 DEF mul_div_floor
<1>5. Share(ps[p], g, out, t) = o * Q + l * w /\ Earned(ps[p], g, out, t) = o + ((w * l) \div Q)
  BY <1>2 DEF Share, Earned, mul_div_floor
<1>6. Unseen(pos, g, out, t) = 0
  <2>1. Unseen(pos, g, out, t) = wrapping_sub(i, i)
    BY DEF Unseen
  <2> HIDE DEF i
  <2>2. wrapping_sub(i, i) = 0 % Growth
    BY <1>0, <1>1 DEF wrapping_sub
  <2>3. 0 % Growth = 0
    BY <1>0, ModSmall
  <2> QED BY <2>1, <2>2, <2>3
<1>7. Share(pos, g, out, t) = (o2 - paid) * Q /\ Earned(pos, g, out, t) = o2 - paid
  <2>1. Share(pos, g, out, t) = (o2 - paid) * Q + pos.liquidity * 0
    BY <1>6 DEF Share
  <2>2. Earned(pos, g, out, t) = (o2 - paid) + ((0 * pos.liquidity) \div Q)
    BY <1>6 DEF Earned, mul_div_floor
  <2>3. 0 \div Q = 0
    BY <1>0, DivOfZero
  <2>4. pos.liquidity * 0 = 0 /\ 0 * pos.liquidity = 0
    OBVIOUS
  <2>5. w * l \in Nat
    BY <1>0, <1>2, <1>3, ProductOfNat
  <2>6. (w * l) \div Q \in Nat
    <3> HIDE DEF w, l, Q
    <3> QED BY <1>0, <2>5, DivNat
  <2>7. o2 \in Nat
    BY <1>3, <1>4, <2>6
  <2> HIDE DEF o2, Q
  <2>8. o2 - paid \in Int /\ (o2 - paid) * Q \in Int
    BY <1>0, <2>7
  <2> QED BY <2>1, <2>2, <2>3, <2>4, <2>8
<1> HIDE DEF w, l, o, o2, Q, i
<1> DEFINE f == (w * l) \div Q
<1>8. w * l \in Nat /\ w * l = l * w
  BY <1>0, <1>2, <1>3, ProductOfNat
<1>9. f \in Nat /\ Q * f \in Nat /\ Q * f <= w * l
  BY <1>0, <1>8, DivNat
<1>10. o2 = o + f
  BY <1>4
<1> HIDE DEF f
<1>11. o2 \in Nat
  BY <1>3, <1>9, <1>10
<1>12. (o2 - paid) * Q = o2 * Q - paid * Q /\ o2 * Q = o * Q + f * Q /\ f * Q = Q * f
  BY <1>0, <1>3, <1>9, <1>10, <1>11, MulParts
<1>13. o2 * Q \in Nat /\ paid * Q \in Nat /\ o * Q \in Nat
  BY <1>0, <1>3, <1>11, ProductOfNat
<1>14. Share(pos, g, out, t) + paid * Q64 <= Share(ps[p], g, out, t)
  <2>1. Share(pos, g, out, t) + paid * Q = o * Q + f * Q
    BY <1>7, <1>12, <1>13, <1>9
  <2>2. o * Q + f * Q <= o * Q + l * w
    BY <1>8, <1>9, <1>12, <1>13
  <2> QED BY <1>5, <2>1, <2>2 DEF Q
<1>15. Earned(pos, g, out, t) = Earned(ps[p], g, out, t) - paid
  BY <1>5, <1>7, <1>10 DEF f
<1> QED BY <1>1, <1>11, <1>14, <1>15 DEF o2, i

(***************************************************************************)
(* The state between two instructions.                                     *)
(***************************************************************************)
LEMMA UpdateIs ==
  /\ \A r : update_reward_infos(r) = Upd(r, time, liquidity)
  /\ liquidity = active_at(position, tick_current)
BY DEF update_reward_infos, Upd, liquidity, active_at

\* The invariant holds of the reward as an update leaves it.
LEMMA CurrentFacts ==
  ASSUME IInv
  PROVE  LET r == update_reward_infos(reward)
         IN  /\ r \in RewardInfo /\ Timing(r, time) /\ Settled(r, time)
             /\ r.initialized = reward.initialized /\ r.open_time = reward.open_time
             /\ r.end_time = reward.end_time /\ r.reward_claimed = reward.reward_claimed
             /\ r.emissions_per_second_x64 = reward.emissions_per_second_x64
             /\ ~r.initialized => r = NoReward
             /\ Claims(r, position, outside, tick_current)
             /\ Funded(r, position, outside, tick_current, vault, dust)
             /\ r.reward_total_emitted \in 0 .. U64Max
             /\ r.reward_growth_global_x64 \in 0 .. (Growth - 1)
<1> DEFINE r == Upd(reward, time, liquidity)
           A == active_at(position, tick_current)
           g == reward.reward_growth_global_x64
           O == Owes(position, g, outside, tick_current)
           O2 == Owes(position, r.reward_growth_global_x64, outside, tick_current)
           em == reward.reward_total_emitted
           em2 == r.reward_total_emitted
           cl == reward.reward_claimed
<1>0. /\ Types /\ Timing(reward, time) /\ (~reward.initialized => reward = NoReward)
      /\ reward \in RewardInfo /\ time \in Nat /\ outside \in Outside /\ Positioned(position)
      /\ tick_current \in Int /\ g \in 0 .. (Growth - 1) /\ vault \in Nat /\ dust \in Nat
      /\ Q64 \in Nat /\ em \in 0 .. U64Max /\ cl \in Nat /\ U64Max \in Nat
      /\ Claims(reward, position, outside, tick_current)
      /\ Funded(reward, position, outside, tick_current, vault, dust)
  BY RewardAssumption DEF IInv, Types, Outside, RewardInfo
<1>1. liquidity = A
  BY UpdateIs
<1>2. A \in Nat
  BY <1>0, OwesGrows, 0 \in Nat
<1>3. /\ r \in RewardInfo /\ Timing(r, time) /\ Settled(r, time)
      /\ r.initialized = reward.initialized /\ r.open_time = reward.open_time
      /\ r.end_time = reward.end_time /\ r.reward_claimed = reward.reward_claimed
      /\ r.emissions_per_second_x64 = reward.emissions_per_second_x64
      /\ ~reward.initialized => r = reward
      /\ \E x \in Nat :
           /\ r.reward_growth_global_x64 = (g + x) % Growth
           /\ A * x <= (em2 - em) * Q64
           /\ A * x + rest_of_period(r) <= rest_of_period(reward)
  <2>1. liquidity \in Nat
    BY <1>1, <1>2
  <2> HIDE DEF A
  <2>2. /\ r \in RewardInfo /\ Timing(r, time) /\ Settled(r, time)
        /\ r.initialized = reward.initialized /\ r.open_time = reward.open_time
        /\ r.end_time = reward.end_time /\ r.reward_claimed = reward.reward_claimed
        /\ r.emissions_per_second_x64 = reward.emissions_per_second_x64
        /\ ~reward.initialized => r = reward
        /\ \E x \in Nat :
             /\ r.reward_growth_global_x64 = (reward.reward_growth_global_x64 + x) % Growth
             /\ liquidity * x <= (r.reward_total_emitted - reward.reward_total_emitted) * Q64
             /\ liquidity * x + rest_of_period(r) <= rest_of_period(reward)
    BY <1>0, <2>1, UpdatedReward
  <2> HIDE DEF r
  <2> QED BY <1>1, <2>2
<1>4. PICK x \in Nat :
           /\ r.reward_growth_global_x64 = (g + x) % Growth
           /\ A * x <= (em2 - em) * Q64
           /\ A * x + rest_of_period(r) <= rest_of_period(reward)
  BY <1>3
<1>5. O2 <= O + A * x
  BY <1>0, <1>4, OwesGrows
<1>6. r.reward_growth_global_x64 \in 0 .. (Growth - 1) /\ em2 \in 0 .. U64Max
  BY <1>3 DEF RewardInfo
<1>7. O \in Nat /\ O2 \in Nat
  BY <1>0, <1>6, ShareType
<1>8. A * x \in Nat
  BY <1>2, ProductOfNat
<1>9. \A s \in RewardInfo : rest_of_period(s) \in Int
  <2> TAKE s \in RewardInfo
  <2> DEFINE a == saturating_sub(s.end_time, s.last_update_time)
             b == s.emissions_per_second_x64
             c == U64Max - s.reward_total_emitted
  <2>1. a \in Nat /\ b \in Nat /\ c \in Nat
    BY <1>0 DEF RewardInfo, saturating_sub
  <2> HIDE DEF a, b, c
  <2>2. a * b \in Nat /\ c * Q64 \in Nat
    BY <1>0, <2>1, ProductOfNat
  <2> QED BY <2>2 DEF rest_of_period, least, a, b, c
<1>10. rest_of_period(r) \in Int /\ rest_of_period(reward) \in Int
  BY <1>0, <1>3, <1>9
<1>11. (em - cl) * Q64 >= O /\ vault * Q64 + dust >= O + rest_of_period(reward)
  BY <1>0 DEF Claims, Funded
<1>12. (em2 - cl) * Q64 = em2 * Q64 - cl * Q64 /\ (em - cl) * Q64 = em * Q64 - cl * Q64
       /\ (em2 - em) * Q64 = em2 * Q64 - em * Q64 /\ em2 * Q64 \in Nat /\ em * Q64 \in Nat
       /\ cl * Q64 \in Nat /\ vault * Q64 \in Nat
  <2>1. em2 \in Nat /\ em \in Nat
    BY <1>0, <1>6
  <2> HIDE DEF em, em2, cl
  <2> QED BY <1>0, <2>1, MulParts, ProductOfNat
<1> HIDE DEF O, O2, em, em2, A
<1>13. (em2 - cl) * Q64 >= O2
  BY <1>4, <1>5, <1>7, <1>8, <1>11, <1>12
<1>14. vault * Q64 + dust >= O2 + rest_of_period(r)
  <2> DEFINE v == vault * Q64
             y == A * x
             ra == rest_of_period(r)
             rb == rest_of_period(reward)
  <2>1. /\ v \in Nat /\ y \in Nat /\ ra \in Int /\ rb \in Int /\ dust \in Nat
        /\ v + dust >= O + rb /\ y + ra <= rb /\ O2 <= O + y
    BY <1>0, <1>4, <1>5, <1>8, <1>10, <1>11, <1>12
  <2> HIDE DEF v, y, ra, rb
  <2>2. v + dust >= O2 + ra
    BY <1>7, <2>1
  <2> QED BY <2>2 DEF v, ra
<1>15. Claims(r, position, outside, tick_current) /\ Funded(r, position, outside, tick_current, vault, dust)
  <2>1. r.reward_claimed = cl
    BY <1>3
  <2> HIDE DEF r
  <2> QED BY <1>13, <1>14, <2>1 DEF Claims, Funded, O2, em2
<1>16. ~r.initialized => r = NoReward
  <2> HIDE DEF r
  <2> QED BY <1>0, <1>3
<1>17. update_reward_infos(reward) = r
  BY UpdateIs
<1> HIDE DEF r
<1> QED BY <1>3, <1>6, <1>15, <1>16, <1>17 DEF em2

\* What is earned, in terms of the growth below the ends of the range.
LEMMA EarnedIs ==
  IInv => /\ earned = [p \in Positions |-> Earned(position[p], current.reward_growth_global_x64,
                                                  outside, tick_current)]
          /\ \A p \in Positions : earned[p] \in Nat
          /\ sum_over_positions(earned) \in Nat
          /\ sum_over_positions(earned) * Q64
               <= Owes(position, current.reward_growth_global_x64, outside, tick_current)
<1> SUFFICES ASSUME IInv PROVE
          /\ earned = [p \in Positions |-> Earned(position[p], current.reward_growth_global_x64,
                                                  outside, tick_current)]
          /\ \A p \in Positions : earned[p] \in Nat
          /\ sum_over_positions(earned) \in Nat
          /\ sum_over_positions(earned) * Q64
               <= Owes(position, current.reward_growth_global_x64, outside, tick_current)
  OBVIOUS
<1> DEFINE g == current.reward_growth_global_x64
           E == [p \in Positions |-> Earned(position[p], g, outside, tick_current)]
<1>0. /\ current \in RewardInfo /\ g \in 0 .. (Growth - 1) /\ outside \in Outside
      /\ Positioned(position) /\ tick_current \in Int
      /\ Q64 \in Nat /\ Q64 > 0 /\ Growth \in Nat /\ Growth > 0
  BY CurrentFacts, RewardAssumption DEF current, IInv, Types, Outside
<1> HIDE DEF g
<1>1. ASSUME NEW p \in Positions, position[p].open
      PROVE  update_rewards(position[p], get_reward_growths_inside(current, outside, position[p].range)
                           ).reward_amount_owed = Earned(position[p], g, outside, tick_current)
  <2> DEFINE i == Inside(g, outside, tick_current, position[p].range)
             pos == position[p]
  <2>1. get_reward_growths_inside(current, outside, position[p].range) = i
    BY <1>0, <1>1, OpenPosition, InsideIs DEF g
  <2>2. pos \in PositionInfo
    BY <1>0 DEF Positioned
  <2> HIDE DEF i, pos
  <2>3. update_rewards(pos, i).reward_amount_owed
          = pos.reward_amount_owed
              + mul_div_floor(wrapping_sub(i, pos.growth_inside_last_x64), pos.liquidity, Q64)
    BY <2>2 DEF update_rewards, PositionInfo
  <2> QED BY <1>1, <2>1, <2>3 DEF i, pos, Earned, Unseen
<1>2. earned = E
  <2>1. earned = [p \in Positions |->
                    IF position[p].open
                    THEN update_rewards(position[p], get_reward_growths_inside(current, outside, position[p].range)
                                       ).reward_amount_owed
                    ELSE 0]
    BY DEF earned, earned_under
  <2>2. ASSUME NEW p \in Positions
        PROVE  (IF position[p].open
                THEN update_rewards(position[p], get_reward_growths_inside(current, outside, position[p].range)
                                   ).reward_amount_owed
                ELSE 0) = Earned(position[p], g, outside, tick_current)
    <3>1. CASE position[p].open
      BY <1>1, <3>1
    <3>2. CASE ~position[p].open
      BY <3>2 DEF Earned
    <3> QED BY <3>1, <3>2
  <2> QED BY <2>1, <2>2
<1>3. ASSUME NEW p \in Positions
      PROVE  /\ Earned(position[p], g, outside, tick_current) \in Nat
             /\ Q64 * Earned(position[p], g, outside, tick_current)
                  <= Share(position[p], g, outside, tick_current)
  <2>1. CASE position[p].open
    <3> DEFINE w == Unseen(position[p], g, outside, tick_current)
               l == position[p].liquidity
               o == position[p].reward_amount_owed
               f == (w * l) \div Q64
               Q == Q64
    <3>1. w \in 0 .. (Growth - 1) /\ l \in Nat /\ o \in Nat
      BY <1>0, <2>1, ShareType, OpenPosition
    <3>2. Earned(position[p], g, outside, tick_current) = o + f
      BY <2>1 DEF Earned, mul_div_floor
    <3>3. Share(position[p], g, outside, tick_current) = o * Q64 + l * w
      BY <2>1 DEF Share
    <3> HIDE DEF w, l, o
    <3>4. w * l \in Nat /\ w * l = l * w
      BY <1>0, <3>1, ProductOfNat
    <3>5. f \in Nat /\ Q64 * f \in Nat /\ Q64 * f <= w * l
      BY <1>0, <3>4, DivNat
    <3> HIDE DEF f
    <3>6. Q64 * (o + f) = Q64 * o + Q64 * f /\ Q64 * o = o * Q64 /\ o * Q64 \in Nat
      <4> HIDE DEF Q
      <4>1. Q \in Int /\ o \in Int /\ f \in Int
        BY <1>0, <3>1, <3>5 DEF Q
      <4>2. Q * (o + f) = Q * o + Q * f /\ Q * o = o * Q
        BY <4>1
      <4>3. o * Q \in Nat
        BY <1>0, <3>1, ProductOfNat DEF Q
      <4> QED BY <4>2, <4>3 DEF Q
    <3> QED BY <3>1, <3>2, <3>3, <3>4, <3>5, <3>6
  <2>2. CASE ~position[p].open
    BY <1>0, <2>2 DEF Earned, Share
  <2> QED BY <2>1, <2>2
<1> DEFINE QE == [p \in Positions |-> Q64 * E[p]]
           S == Shares(position, g, outside, tick_current)
<1>4. \A p \in Positions : /\ E[p] \in Nat /\ QE[p] = Q64 * E[p] /\ QE[p] <= S[p] /\ S[p] \in Nat
  <2> TAKE p \in Positions
  <2>1. S[p] = Share(position[p], g, outside, tick_current) /\ S[p] \in Nat
    BY <1>0, ShareType DEF Shares
  <2> QED BY <1>3, <2>1
<1>5. Owes(position, g, outside, tick_current) = SumFunctionOnSet(S, Positions)
      /\ sum_over_positions(E) = SumFunctionOnSet(E, Positions)
  BY DEF Owes, sum_over_positions
<1> HIDE DEF E, QE, S
<1>6. SumFunctionOnSet(E, Positions) \in Nat
  BY <1>4, RewardAssumption, SumNat
<1>7. SumFunctionOnSet(QE, Positions) = Q64 * SumFunctionOnSet(E, Positions)
  <2>1. Q64 \in Int /\ \A p \in Positions : E[p] \in Int /\ QE[p] = Q64 * E[p]
    BY <1>0, <1>4
  <2> QED BY <2>1, RewardAssumption, SumScale
<1>8. SumFunctionOnSet(QE, Positions) <= SumFunctionOnSet(S, Positions)
  <2>1. \A p \in Positions : QE[p] \in Int /\ S[p] \in Int /\ QE[p] <= S[p]
    <3> TAKE p \in Positions
    <3>1. Q64 * E[p] \in Nat
      BY <1>0, <1>4, ProductOfNat
    <3> QED BY <1>4, <3>1
  <2> QED BY <2>1, RewardAssumption, SumMonotone
<1>9. Q64 * SumFunctionOnSet(E, Positions) = SumFunctionOnSet(E, Positions) * Q64
  BY <1>0, <1>6
<1> QED BY <1>2, <1>4, <1>5, <1>6, <1>7, <1>8, <1>9 DEF E, g

\* A common positive factor cancels.
LEMMA Cancel ==
  ASSUME NEW a \in Int, NEW b \in Int, NEW k \in Nat, k > 0, k * a <= k * b
  PROVE  a <= b
<1>1. ASSUME a >= b + 1 PROVE FALSE
  <2>1. k * (b + 1) <= k * a /\ k * (b + 1) = k * b + k /\ k * b \in Int /\ k * a \in Int
    BY <1>1, MulMono
  <2> QED BY <2>1
<1> QED BY <1>1

\* The invariant covers what positions have earned, in the vault and among the claims.
LEMMA InvariantCovers == IInv => RewardsCovered
<1> SUFFICES ASSUME IInv PROVE RewardsCovered
  OBVIOUS
<1> DEFINE g == reward.reward_growth_global_x64
           O == Owes(position, g, outside, tick_current)
           em == reward.reward_total_emitted
           cl == reward.reward_claimed
<1>0. /\ reward \in RewardInfo /\ outside \in Outside /\ Positioned(position)
      /\ tick_current \in Int /\ vault \in Nat /\ dust \in Nat /\ g \in 0 .. (Growth - 1)
      /\ Q64 \in Nat /\ Q64 > 0 /\ U64Max \in Nat
      /\ em \in 0 .. U64Max /\ cl \in Nat /\ (em - cl) * Q64 >= O
  BY RewardAssumption DEF IInv, Types, Outside, RewardInfo, Claims
<1>1. O \in Nat
  BY <1>0, ShareType
<1>2. ASSUME NEW x \in Nat, x * Q64 <= O PROVE x <= em - cl
  <2> HIDE DEF O
  <2> DEFINE y == em - cl
  <2>1. y \in Int /\ y * Q64 >= O
    BY <1>0
  <2> HIDE DEF y
  <2>2. Q64 * x = x * Q64 /\ Q64 * y = y * Q64 /\ Q64 * x \in Int /\ Q64 * y \in Int
    BY <1>0, <2>1
  <2>3. Q64 * x <= Q64 * y
    BY <1>1, <1>2, <2>1, <2>2
  <2> QED BY <1>0, <2>1, <2>3, Cancel DEF y
<1>3. cl \in 0 .. U64Max
  <2>1. 0 * Q64 = 0
    BY <1>0
  <2>2. 0 <= em - cl
    BY <1>1, <1>2, <2>1
  <2> QED BY <1>0, <2>2
<1>4. TypeOK
  <2>1. ASSUME NEW p \in opened
        PROVE  /\ position[p].range \in Ranges /\ position[p].liquidity \in Nat
               /\ position[p].growth_inside_last_x64 \in 0 .. (Growth - 1)
               /\ position[p].reward_amount_owed \in 0 .. U64Max
    <3>1. p \in Positions /\ position[p].open
      BY DEF opened
    <3> DEFINE o == position[p].reward_amount_owed
               s == Share(position[p], g, outside, tick_current)
    <3>2. o \in Nat
      BY <1>0, <3>1, OpenPosition
    <3>3. o * Q64 <= s /\ s <= O /\ s \in Nat
      BY <1>0, <3>1, ShareType
    <3> HIDE DEF O, s, o
    <3>4. o * Q64 \in Nat
      BY <1>0, <3>2, ProductOfNat
    <3>5. o <= em - cl
      BY <1>1, <1>2, <3>2, <3>3, <3>4
    <3>6. o \in 0 .. U64Max
      BY <1>0, <3>2, <3>5
    <3> QED BY <1>0, <3>1, <3>6, OpenPosition DEF o
  <2>2. \A f \in {"open_time", "end_time", "last_update_time", "emissions_per_second_x64"} :
          reward[f] \in Nat
    BY <1>0 DEF RewardInfo
  <2> QED BY <1>0, <1>3, <2>1, <2>2 DEF TypeOK, RewardInfo, Outside
<1> DEFINE r == current
           O2 == Owes(position, r.reward_growth_global_x64, outside, tick_current)
           s == sum_over_positions(earned)
<1>5. /\ Claims(r, position, outside, tick_current)
      /\ Funded(r, position, outside, tick_current, vault, dust)
      /\ r \in RewardInfo /\ r.reward_growth_global_x64 \in 0 .. (Growth - 1)
  BY CurrentFacts DEF current
<1>6. s \in Nat /\ s * Q64 <= O2
  BY EarnedIs
<1>7. O2 \in Nat
  BY <1>0, <1>5, ShareType
<1>8. earned_under(current) = earned
  BY DEF earned
<1>9. RewardsFunded
  <2> DEFINE rest == rest_of_period(current)
  <2>1. vault * Q64 + dust >= O2 + rest
    BY <1>5 DEF Funded
  <2>2. vault * Q64 \in Nat /\ s * Q64 \in Nat
    BY <1>0, <1>6, ProductOfNat
  <2>3. rest \in Int
    <3> DEFINE a == saturating_sub(r.end_time, r.last_update_time)
               b == r.emissions_per_second_x64
               c == U64Max - r.reward_total_emitted
    <3>1. a \in Nat /\ b \in Nat /\ c \in Nat
      BY <1>0, <1>5 DEF RewardInfo, saturating_sub
    <3>2. rest = least(a * b, c * Q64)
      BY DEF rest_of_period
    <3> HIDE DEF a, b, c, rest
    <3>3. a * b \in Nat /\ c * Q64 \in Nat
      BY <1>0, <3>1, ProductOfNat
    <3> QED BY <3>2, <3>3 DEF least
  <2> HIDE DEF O2, rest
  <2> DEFINE v == vault * Q64
             y == s * Q64
  <2>4. v \in Nat /\ y \in Nat /\ v + dust >= O2 + rest /\ y <= O2
    BY <1>6, <2>1, <2>2
  <2> HIDE DEF v, y
  <2>5. v + dust >= y + rest
    BY <1>0, <1>7, <2>3, <2>4
  <2> QED BY <1>8, <2>5 DEF RewardsFunded, v, y, rest
<1>10. ClaimsPossible
  <2> DEFINE y == r.reward_total_emitted - r.reward_claimed
  <2>1. y \in Int /\ y * Q64 >= O2
    BY <1>5 DEF RewardInfo, Claims
  <2>2. y = unclaimed(current)
    BY DEF unclaimed
  <2> HIDE DEF y, O2, s
  <2>3. Q64 * s = s * Q64 /\ Q64 * y = y * Q64 /\ Q64 * s \in Int /\ Q64 * y \in Int
    BY <1>0, <1>6, <2>1
  <2>4. Q64 * s <= Q64 * y
    BY <1>6, <1>7, <2>1, <2>3
  <2>5. s <= y
    BY <1>0, <1>6, <2>1, <2>4, Cancel
  <2>6. s \in Int
    BY <1>6
  <2> QED BY <1>8, <2>1, <2>2, <2>5, <2>6 DEF ClaimsPossible, s
<1> QED BY <1>4, <1>9, <1>10 DEF RewardsCovered

\* Nothing is promised in the beginning.
LEMMA InitialInvariant == Init => IInv
<1> SUFFICES ASSUME Init PROVE IInv
  OBVIOUS
<1>0. /\ U64Max \in Nat /\ Growth \in Nat /\ Growth > 0 /\ Q64 \in Nat /\ TickRange \subseteq Int
      /\ IsFiniteSet(Positions)
  BY RewardAssumption
<1>1. /\ reward = NoReward /\ outside = [t \in Ticks |-> 0] /\ vault = 0 /\ dust = 0 /\ time = 0
      /\ position = [p \in Positions |-> NoPosition] /\ tick_current \in Int
  BY <1>0 DEF Init
<1>2. NoReward \in RewardInfo
  BY <1>0 DEF NoReward, RewardInfo
<1>3. Positioned(position)
  <2>1. NoPosition \in PositionInfo
    BY <1>0 DEF NoPosition, PositionInfo
  <2> QED BY <1>1, <2>1 DEF Positioned, NoPosition
<1>4. Types
  BY <1>0, <1>1, <1>2, <1>3 DEF Types
<1>5. Owes(position, reward.reward_growth_global_x64, outside, tick_current) = 0
  <2> DEFINE S == Shares(position, reward.reward_growth_global_x64, outside, tick_current)
  <2>1. \A p \in Positions : S[p] = 0
    BY <1>1 DEF Shares, Share, NoPosition
  <2>2. Owes(position, reward.reward_growth_global_x64, outside, tick_current) = SumFunctionOnSet(S, Positions)
    BY DEF Owes, sum_over_positions
  <2> HIDE DEF S
  <2> QED BY <1>0, <2>1, <2>2, SumZero
<1>6. rest_of_period(reward) <= 0
  <2>1. rest_of_period(reward) = least(saturating_sub(0, 0) * 0, (U64Max - 0) * Q64)
    BY <1>1 DEF rest_of_period, NoReward
  <2>2. saturating_sub(0, 0) * 0 = 0
    BY DEF saturating_sub
  <2>3. (U64Max - 0) * Q64 \in Nat
    BY <1>0, ProductOfNat
  <2> QED BY <2>1, <2>2, <2>3 DEF least
<1>7. rest_of_period(reward) \in Int
  <2>1. rest_of_period(reward) = least(saturating_sub(0, 0) * 0, (U64Max - 0) * Q64)
    BY <1>1 DEF rest_of_period, NoReward
  <2>2. saturating_sub(0, 0) * 0 = 0 /\ (U64Max - 0) * Q64 \in Nat
    BY <1>0, ProductOfNat DEF saturating_sub
  <2> QED BY <2>1, <2>2 DEF least
<1>8. 0 * Q64 = 0
  BY <1>0
<1>9. Claims(reward, position, outside, tick_current) /\ Timing(reward, time)
  <2>1. (reward.reward_total_emitted - reward.reward_claimed) = 0 /\ ~reward.initialized
    BY <1>1 DEF NoReward
  <2> QED BY <1>5, <1>8, <2>1 DEF Claims, Timing
<1>10. Funded(reward, position, outside, tick_current, vault, dust)
  BY <1>1, <1>5, <1>6, <1>7, <1>8 DEF Funded
<1> QED BY <1>1, <1>4, <1>9, <1>10 DEF IInv

(***************************************************************************)
(* What the actions share.                                                 *)
(***************************************************************************)
LEMMA Quiet ==
  ASSUME NEW r \in RewardInfo, NEW now \in Nat, NEW active, Settled(r, now)
  PROVE  Upd(r, now, active).reward_growth_global_x64 = r.reward_growth_global_x64
<1> DEFINE latest == least(now, r.end_time)
<1>1. CASE ~r.initialized \/ r.reward_total_emitted = U64Max \/ now <= r.open_time
  BY <1>1 DEF Upd
<1>2. CASE ~(~r.initialized \/ r.reward_total_emitted = U64Max \/ now <= r.open_time)
  <2>1. Upd(r, now, active) = updated_until(r, latest, active)
    BY <1>2 DEF Upd
  <2>2. now > r.open_time
    BY <1>2 DEF RewardInfo
  <2>3. latest = r.last_update_time
    BY <1>2, <2>2 DEF Settled
  <2>4. saturating_sub(latest, r.last_update_time) = 0
    BY <2>3 DEF saturating_sub, RewardInfo
  <2> HIDE DEF latest
  <2>5. CASE active = 0
    BY <2>1, <2>5 DEF updated_until, RewardInfo
  <2>6. CASE active # 0
    BY <2>1, <2>4, <2>6 DEF updated_until
  <2> QED BY <2>5, <2>6
<1> QED BY <1>1, <1>2

\* What has been claimed has no part in an update.
LEMMA ClaimedApart ==
  ASSUME NEW r \in RewardInfo, NEW c \in Nat, NEW now, NEW active
  PROVE  Upd([r EXCEPT !.reward_claimed = c], now, active).reward_growth_global_x64
           = Upd(r, now, active).reward_growth_global_x64
<1> DEFINE s == [r EXCEPT !.reward_claimed = c]
<1>1. /\ s.initialized = r.initialized /\ s.open_time = r.open_time /\ s.end_time = r.end_time
      /\ s.last_update_time = r.last_update_time /\ s \in RewardInfo
      /\ s.emissions_per_second_x64 = r.emissions_per_second_x64
      /\ s.reward_total_emitted = r.reward_total_emitted
      /\ s.reward_growth_global_x64 = r.reward_growth_global_x64
  BY DEF RewardInfo
<1> HIDE DEF s
<1> DEFINE latest == least(now, r.end_time)
           n == saturating_sub(latest, r.last_update_time)
<1>2. emitted(s, n, active).reward_growth_global_x64 = emitted(r, n, active).reward_growth_global_x64
  <2> HIDE DEF n
  <2> QED BY <1>1 DEF emitted, reward_delta, RewardInfo
<1>3. \A m \in {r, s} : [m EXCEPT !.last_update_time = latest].reward_growth_global_x64
                           = m.reward_growth_global_x64
  <2> HIDE DEF latest
  <2> QED BY <1>1 DEF RewardInfo
<1>4. \A m \in {r, s} : [emitted(m, n, active) EXCEPT !.last_update_time = latest].reward_growth_global_x64
                           = emitted(m, n, active).reward_growth_global_x64
  <2> HIDE DEF latest, n
  <2> QED BY <1>1 DEF emitted, RewardInfo
<1>5. updated_until(s, latest, active).reward_growth_global_x64
        = updated_until(r, latest, active).reward_growth_global_x64
  <2>1. CASE active # 0 /\ n = 0
    BY <1>1, <2>1 DEF updated_until
  <2>2. CASE ~(active # 0 /\ n = 0) /\ active = 0
    <3> HIDE DEF latest
    <3> QED BY <1>1, <1>3, <2>2 DEF updated_until
  <2>3. CASE ~(active # 0 /\ n = 0) /\ active # 0
    <3> HIDE DEF latest
    <3> QED BY <1>1, <1>2, <1>4, <2>3 DEF updated_until
  <2> QED BY <2>1, <2>2, <2>3
<1>6. Upd(s, now, active).reward_growth_global_x64 = Upd(r, now, active).reward_growth_global_x64
  BY <1>1, <1>5 DEF Upd
<1> QED BY <1>6 DEF s

\* Paying n lowers the claims, the vault and what is owed alike.
Payable(r, ps, ps2, out, out2, t, t2, v, d, n) ==
  /\ r \in RewardInfo /\ Positioned(ps) /\ Positioned(ps2) /\ out \in Outside /\ out2 \in Outside
  /\ t \in Int /\ t2 \in Int /\ v \in Nat /\ d \in Nat /\ n \in Nat /\ n <= v
  /\ Claims(r, ps, out, t) /\ Funded(r, ps, out, t, v, d)
  /\ Owes(ps2, r.reward_growth_global_x64, out2, t2) + n * Q64
        <= Owes(ps, r.reward_growth_global_x64, out, t)

\* A payment comes out of the total and out of the vault.
LEMMA Paying ==
  ASSUME NEW r, NEW ps, NEW ps2, NEW out, NEW out2, NEW t, NEW t2, NEW v, NEW d, NEW n,
         Payable(r, ps, ps2, out, out2, t, t2, v, d, n)
  PROVE  LET s == [r EXCEPT !.reward_claimed = @ + n]
         IN  Claims(s, ps2, out2, t2) /\ Funded(s, ps2, out2, t2, v - n, d)
<1>a. /\ r \in RewardInfo /\ Positioned(ps) /\ Positioned(ps2) /\ out \in Outside /\ out2 \in Outside
      /\ t \in Int /\ t2 \in Int /\ v \in Nat /\ d \in Nat /\ n \in Nat /\ n <= v
      /\ Claims(r, ps, out, t) /\ Funded(r, ps, out, t, v, d)
      /\ Owes(ps2, r.reward_growth_global_x64, out2, t2) + n * Q64
        <= Owes(ps, r.reward_growth_global_x64, out, t)
  BY DEF Payable
<1> USE <1>a
<1> DEFINE s == [r EXCEPT !.reward_claimed = @ + n]
           g == r.reward_growth_global_x64
           O == Owes(ps, g, out, t)
           O2 == Owes(ps2, g, out2, t2)
           em == r.reward_total_emitted
           cl == r.reward_claimed
           rest == rest_of_period(r)
<1>0. g \in 0 .. (Growth - 1) /\ em \in Nat /\ cl \in Nat /\ Q64 \in Nat /\ U64Max \in Nat
      /\ em <= U64Max
  BY RewardAssumption DEF RewardInfo
<1>1. /\ s.reward_growth_global_x64 = g /\ s.reward_total_emitted = em /\ s.reward_claimed = cl + n
      /\ s.end_time = r.end_time /\ s.last_update_time = r.last_update_time
      /\ s.emissions_per_second_x64 = r.emissions_per_second_x64
  BY DEF RewardInfo
<1> HIDE DEF s
<1>2. rest_of_period(s) = rest
  BY <1>1 DEF rest_of_period
<1>3. rest \in Int
  <2> DEFINE a == saturating_sub(r.end_time, r.last_update_time)
             b == r.emissions_per_second_x64
             c == U64Max - em
  <2>1. a \in Nat /\ b \in Nat /\ c \in Nat
    BY <1>0 DEF RewardInfo, saturating_sub
  <2>2. rest = least(a * b, c * Q64)
    BY DEF rest_of_period
  <2> HIDE DEF a, b, c, rest
  <2>3. a * b \in Nat /\ c * Q64 \in Nat
    BY <1>0, <2>1, ProductOfNat
  <2> QED BY <2>2, <2>3 DEF least
<1>4. O \in Nat /\ O2 \in Nat
  BY <1>0, ShareType
<1>5. (em - cl) * Q64 >= O /\ v * Q64 + d >= O + rest /\ O2 + n * Q64 <= O
  BY DEF Claims, Funded
<1> HIDE DEF O, O2, g, em, cl, rest
<1>6. (em - (cl + n)) * Q64 = (em - cl) * Q64 - n * Q64 /\ (v - n) * Q64 = v * Q64 - n * Q64
      /\ n * Q64 \in Nat /\ v * Q64 \in Nat /\ (em - cl) * Q64 \in Int
  <2>1. em - (cl + n) = (em - cl) - n /\ em - cl \in Int
    BY <1>0
  <2> DEFINE y == em - cl
  <2> HIDE DEF y
  <2>2. (y - n) * Q64 = y * Q64 - n * Q64 /\ (v - n) * Q64 = v * Q64 - n * Q64 /\ y * Q64 \in Int
    BY <1>0, <2>1, MulParts DEF y
  <2> QED BY <1>0, <2>1, <2>2, ProductOfNat DEF y
<1>7. (em - (cl + n)) * Q64 >= O2 /\ (v - n) * Q64 + d >= O2 + rest
  <2> DEFINE a == (em - cl) * Q64
             b == v * Q64
             c == n * Q64
  <2>1. a \in Int /\ b \in Nat /\ c \in Nat /\ a >= O /\ b + d >= O + rest /\ O2 + c <= O
    BY <1>5, <1>6
  <2> HIDE DEF a, b, c
  <2>2. a - c >= O2 /\ (b - c) + d >= O2 + rest
    BY <1>3, <1>4, <2>1
  <2> QED BY <1>6, <2>2 DEF a, b, c
<1>8. Claims(s, ps2, out2, t2) /\ Funded(s, ps2, out2, t2, v - n, d)
  BY <1>1, <1>2, <1>7 DEF Claims, Funded, O2, g, em, cl, rest
<1> QED BY <1>8 DEF s

EarnedNow(q) == Earned(position[q], current.reward_growth_global_x64, outside, tick_current)

\* A step pays at most one position and leaves what the others earned alone.
PaysOnly ==
  \E n \in Nat :
    /\ reward'.reward_claimed = reward.reward_claimed + n
    /\ \/ n = 0 /\ \A q \in Positions : EarnedNow(q)' = EarnedNow(q)
       \/ \E p \in Positions : \A q \in Positions :
            EarnedNow(q)' = IF q = p THEN EarnedNow(q) - n ELSE EarnedNow(q)

\* The reward brought up to date in the next state.
LEMMA NextCurrent == current' = Upd(reward', time', liquidity')
BY DEF current, update_reward_infos, Upd

\* An instruction that updates the reward and then changes one position.
UpdatesAndPays(p, n, outA, r) ==
  /\ p \in Positions /\ n \in Nat /\ n <= vault /\ outA \in Outside /\ r = update_reward_infos(reward)
  /\ reward' = [r EXCEPT !.reward_claimed = @ + n] /\ (n > 0 => r.initialized)
  /\ vault' = vault - n /\ outside' \in Outside /\ Positioned(position')
  /\ tick_current' = tick_current /\ time' = time /\ dust' = dust
  /\ \A q \in Positions : q # p => position'[q] = position[q]
  /\ \A b \in Ticks : liquidity_gross(position, b) > 0 => outA[b] = outside[b]
  /\ \A b \in Ticks : liquidity_gross(position', b) > 0 => outside'[b] = outA[b]
  /\ Share(position'[p], r.reward_growth_global_x64, outA, tick_current) + n * Q64
        <= Share(position[p], r.reward_growth_global_x64, outA, tick_current)
  /\ Earned(position'[p], r.reward_growth_global_x64, outA, tick_current)
        = Earned(position[p], r.reward_growth_global_x64, outA, tick_current) - n

\* Instructions that update the reward and then change one position.
LEMMA TouchStep ==
  ASSUME NEW p, NEW n, NEW outA, NEW r, IInv, UpdatesAndPays(p, n, outA, r)
  PROVE  IInv' /\ PaysOnly
<1>a. /\ p \in Positions /\ n \in Nat /\ n <= vault /\ outA \in Outside /\ r = update_reward_infos(reward)
      /\ reward' = [r EXCEPT !.reward_claimed = @ + n] /\ (n > 0 => r.initialized)
      /\ vault' = vault - n /\ outside' \in Outside /\ Positioned(position')
      /\ tick_current' = tick_current /\ time' = time /\ dust' = dust
      /\ \A q \in Positions : q # p => position'[q] = position[q]
      /\ \A b \in Ticks : liquidity_gross(position, b) > 0 => outA[b] = outside[b]
      /\ \A b \in Ticks : liquidity_gross(position', b) > 0 => outside'[b] = outA[b]
      /\ Share(position'[p], r.reward_growth_global_x64, outA, tick_current) + n * Q64
        <= Share(position[p], r.reward_growth_global_x64, outA, tick_current)
      /\ Earned(position'[p], r.reward_growth_global_x64, outA, tick_current)
        = Earned(position[p], r.reward_growth_global_x64, outA, tick_current) - n
  BY DEF UpdatesAndPays
<1> USE <1>a
<1> DEFINE g == r.reward_growth_global_x64
           s == [r EXCEPT !.reward_claimed = @ + n]
<1>0. /\ r \in RewardInfo /\ Timing(r, time) /\ Settled(r, time)
      /\ r.reward_claimed = reward.reward_claimed /\ (~r.initialized => r = NoReward)
      /\ Claims(r, position, outside, tick_current)
      /\ Funded(r, position, outside, tick_current, vault, dust)
      /\ g \in 0 .. (Growth - 1)
  BY CurrentFacts
<1>1. /\ Positioned(position) /\ outside \in Outside /\ tick_current \in Int /\ vault \in Nat
      /\ dust \in Nat /\ time \in Nat
  BY DEF IInv, Types, Outside
<1>2. /\ Owes(position', g, outside', tick_current) + n * Q64 <= Owes(position, g, outside, tick_current)
      /\ \A q \in Positions :
           Earned(position'[q], g, outside', tick_current)
             = IF q = p THEN Earned(position[q], g, outside, tick_current) - n
               ELSE Earned(position[q], g, outside, tick_current)
  <2> DEFINE ps2 == position'
             out2 == outside'
  <2>1. /\ Positioned(ps2) /\ out2 \in Outside /\ (\A q \in Positions : q # p => ps2[q] = position[q])
        /\ (\A b \in Ticks : liquidity_gross(ps2, b) > 0 => out2[b] = outA[b])
        /\ Share(ps2[p], g, outA, tick_current) + n * Q64 <= Share(position[p], g, outA, tick_current)
        /\ Earned(ps2[p], g, outA, tick_current) = Earned(position[p], g, outA, tick_current) - n
    OBVIOUS
  <2> HIDE DEF g, ps2, out2
  <2>2. /\ Owes(ps2, g, out2, tick_current) + n * Q64 <= Owes(position, g, outside, tick_current)
        /\ \A q \in Positions :
             Earned(ps2[q], g, out2, tick_current)
               = IF q = p THEN Earned(position[q], g, outside, tick_current) - n
                 ELSE Earned(position[q], g, outside, tick_current)
    <3>1. OneChanges(position, ps2, p, outside, outA, out2, g, tick_current, n)
      BY <1>0, <1>1, <2>1 DEF OneChanges
    <3> QED BY <3>1, Touching
  <2> QED BY <2>2 DEF g, ps2, out2
<1>3. /\ s \in RewardInfo /\ s.initialized = r.initialized /\ s.open_time = r.open_time
      /\ s.end_time = r.end_time /\ s.last_update_time = r.last_update_time
      /\ s.reward_total_emitted = r.reward_total_emitted
      /\ s.reward_growth_global_x64 = g /\ s.reward_claimed = r.reward_claimed + n
  BY <1>0 DEF RewardInfo
<1>4. reward' = s
  OBVIOUS
<1> HIDE DEF s
<1>5. Claims(s, position', outside', tick_current) /\ Funded(s, position', outside', tick_current, vault - n, dust)
  <2> DEFINE ps2 == position'
             out2 == outside'
  <2>1. /\ Positioned(ps2) /\ out2 \in Outside
        /\ Owes(ps2, r.reward_growth_global_x64, out2, tick_current) + n * Q64
             <= Owes(position, r.reward_growth_global_x64, outside, tick_current)
    BY <1>2
  <2> HIDE DEF ps2, out2
  <2>2. Claims(s, ps2, out2, tick_current) /\ Funded(s, ps2, out2, tick_current, vault - n, dust)
    <3>1. Payable(r, position, ps2, outside, out2, tick_current, tick_current, vault, dust, n)
      BY <1>0, <1>1, <2>1 DEF Payable
    <3> QED BY <3>1, Paying DEF s
  <2> QED BY <2>2 DEF ps2, out2
<1>6. Timing(s, time) /\ Settled(s, time)
  BY <1>0, <1>3 DEF Timing, Settled
<1>7. ~s.initialized => s = NoReward
  <2> SUFFICES ASSUME ~s.initialized PROVE s = NoReward
    OBVIOUS
  <2>1. n = 0 /\ r = NoReward
    BY <1>0, <1>3
  <2>2. s = r
    BY <1>0, <2>1 DEF s, RewardInfo
  <2> QED BY <2>1, <2>2
<1>8. vault - n \in Nat
  BY <1>1
<1>9. IInv'
  BY <1>1, <1>3, <1>4, <1>5, <1>6, <1>7, <1>8 DEF IInv, Types, Outside
<1>10. current = r
  BY DEF current
<1>11. current'.reward_growth_global_x64 = g
  BY <1>1, <1>3, <1>4, <1>6, NextCurrent, Quiet
<1>12. \A q \in Positions : EarnedNow(q)' = IF q = p THEN EarnedNow(q) - n ELSE EarnedNow(q)
  BY <1>2, <1>10, <1>11 DEF EarnedNow
<1>13. reward'.reward_claimed = reward.reward_claimed + n
  BY <1>0, <1>3, <1>4
<1> QED BY <1>9, <1>12, <1>13 DEF PaysOnly

\* An instruction that changes one position and does not update the reward.
Pays(p, n) ==
  /\ p \in Positions /\ n \in Nat /\ n <= vault
  /\ reward' = [reward EXCEPT !.reward_claimed = @ + n] /\ (n > 0 => reward.initialized)
  /\ vault' = vault - n /\ outside' = outside /\ Positioned(position')
  /\ tick_current' = tick_current /\ time' = time /\ dust' = dust /\ liquidity' = liquidity
  /\ \A q \in Positions : q # p => position'[q] = position[q]
  /\ \A g \in 0 .. (Growth - 1) :
        /\ Share(position'[p], g, outside, tick_current) + n * Q64
             <= Share(position[p], g, outside, tick_current)
        /\ Earned(position'[p], g, outside, tick_current)
             = Earned(position[p], g, outside, tick_current) - n

\* Instructions that change or pay one position and do not update the reward.
LEMMA StillStep ==
  ASSUME NEW p, NEW n, IInv, Pays(p, n)
  PROVE  IInv' /\ PaysOnly
<1>a. /\ p \in Positions /\ n \in Nat /\ n <= vault
      /\ reward' = [reward EXCEPT !.reward_claimed = @ + n] /\ (n > 0 => reward.initialized)
      /\ vault' = vault - n /\ outside' = outside /\ Positioned(position')
      /\ tick_current' = tick_current /\ time' = time /\ dust' = dust /\ liquidity' = liquidity
      /\ \A q \in Positions : q # p => position'[q] = position[q]
      /\ \A g \in 0 .. (Growth - 1) :
        /\ Share(position'[p], g, outside, tick_current) + n * Q64
             <= Share(position[p], g, outside, tick_current)
        /\ Earned(position'[p], g, outside, tick_current)
             = Earned(position[p], g, outside, tick_current) - n
  BY DEF Pays
<1> USE <1>a
<1> DEFINE s == [reward EXCEPT !.reward_claimed = @ + n]
           gc == current.reward_growth_global_x64
           g == reward.reward_growth_global_x64
<1>0. /\ reward \in RewardInfo /\ Timing(reward, time) /\ (~reward.initialized => reward = NoReward)
      /\ Claims(reward, position, outside, tick_current)
      /\ Funded(reward, position, outside, tick_current, vault, dust)
      /\ g \in 0 .. (Growth - 1)
  BY DEF IInv, Types, RewardInfo
<1>1. /\ Positioned(position) /\ outside \in Outside /\ tick_current \in Int /\ vault \in Nat
      /\ dust \in Nat /\ time \in Nat
  BY DEF IInv, Types, Outside
<1>2. gc \in 0 .. (Growth - 1)
  BY CurrentFacts DEF current
<1>3. \A h \in 0 .. (Growth - 1) :
        /\ Owes(position', h, outside, tick_current) + n * Q64 <= Owes(position, h, outside, tick_current)
        /\ \A q \in Positions :
             Earned(position'[q], h, outside, tick_current)
               = IF q = p THEN Earned(position[q], h, outside, tick_current) - n
                 ELSE Earned(position[q], h, outside, tick_current)
  <2> TAKE h \in 0 .. (Growth - 1)
  <2>1. OneChanges(position, position', p, outside, outside, outside, h, tick_current, n)
    BY <1>1 DEF OneChanges
  <2> QED BY <2>1, Touching
<1>4. /\ s \in RewardInfo /\ s.initialized = reward.initialized /\ s.open_time = reward.open_time
      /\ s.end_time = reward.end_time /\ s.last_update_time = reward.last_update_time
      /\ s.reward_claimed = reward.reward_claimed + n
      /\ s = [reward EXCEPT !.reward_claimed = reward.reward_claimed + n]
  BY <1>0 DEF RewardInfo
<1>5. reward' = s
  OBVIOUS
<1>6. reward.reward_claimed + n \in Nat
  BY <1>0 DEF RewardInfo
<1> HIDE DEF s
<1>7. Claims(s, position', outside, tick_current) /\ Funded(s, position', outside, tick_current, vault - n, dust)
  <2> DEFINE ps2 == position'
  <2>1. /\ Positioned(ps2)
        /\ Owes(ps2, reward.reward_growth_global_x64, outside, tick_current) + n * Q64
             <= Owes(position, reward.reward_growth_global_x64, outside, tick_current)
    BY <1>0, <1>3
  <2> HIDE DEF ps2
  <2>2. Claims(s, ps2, outside, tick_current) /\ Funded(s, ps2, outside, tick_current, vault - n, dust)
    <3>1. Payable(reward, position, ps2, outside, outside, tick_current, tick_current, vault, dust, n)
      BY <1>0, <1>1, <2>1 DEF Payable
    <3> QED BY <3>1, Paying DEF s
  <2> QED BY <2>2 DEF ps2
<1>8. Timing(s, time)
  BY <1>0, <1>4 DEF Timing
<1>9. ~s.initialized => s = NoReward
  <2> SUFFICES ASSUME ~s.initialized PROVE s = NoReward
    OBVIOUS
  <2>1. n = 0 /\ reward = NoReward
    BY <1>0, <1>4
  <2>2. s = reward
    BY <1>0, <2>1 DEF s, RewardInfo
  <2> QED BY <2>1, <2>2
<1>10. vault - n \in Nat
  BY <1>1
<1>11. IInv'
  BY <1>1, <1>4, <1>5, <1>7, <1>8, <1>9, <1>10 DEF IInv, Types, Outside
<1>12. current'.reward_growth_global_x64 = gc
  <2>1. current = Upd(reward, time, liquidity)
    BY UpdateIs DEF current
  <2>2. current' = Upd(s, time, liquidity)
    BY <1>5, NextCurrent
  <2>3. Upd(s, time, liquidity).reward_growth_global_x64 = Upd(reward, time, liquidity).reward_growth_global_x64
    BY <1>0, <1>4, <1>6, ClaimedApart
  <2> QED BY <2>1, <2>2, <2>3
<1>13. \A q \in Positions : EarnedNow(q)' = IF q = p THEN EarnedNow(q) - n ELSE EarnedNow(q)
  BY <1>2, <1>3, <1>12 DEF EarnedNow
<1>14. reward'.reward_claimed = reward.reward_claimed + n
  BY <1>4, <1>5
<1> QED BY <1>11, <1>13, <1>14 DEF PaysOnly

(***************************************************************************)
(* One step lemma for each operation.                                      *)
(***************************************************************************)
LEMMA OutsideUpdated ==
  ASSUME NEW r \in RewardInfo, outside \in Outside, NEW range, NEW delta
  PROVE  /\ outside_updated(r, range, delta) \in Outside
         /\ \A b \in Ticks : liquidity_gross(position, b) > 0
                               => outside_updated(r, range, delta)[b] = outside[b]
<1>1. \A b \in Ticks : tick_updated(r, b) \in 0 .. (Growth - 1)
  BY DEF tick_updated, RewardInfo, Outside
<1>2. \A b \in Ticks : liquidity_gross(position, b) > 0 => tick_updated(r, b) = outside[b]
  BY DEF tick_updated
<1> QED BY <1>1, <1>2 DEF outside_updated, Outside

\* Ticks are cleared only where no liquidity is left.
LEMMA Cleared ==
  ASSUME NEW out \in Outside, NEW ps
  PROVE  /\ cleared(out, ps) \in Outside
         /\ \A b \in Ticks : liquidity_gross(ps, b) > 0 => cleared(out, ps)[b] = out[b]
<1>1. 0 \in 0 .. (Growth - 1)
  BY RewardAssumption
<1> QED BY <1>1 DEF cleared, Outside

\* A position begins with nothing: what grew before is not its own.
LEMMA OpenStep ==
  ASSUME IInv, NEW p \in Positions, NEW range \in Ranges, NEW delta \in Deltas,
         open_position(p, range, delta)
  PROVE  IInv' /\ PaysOnly
<1> DEFINE r == update_reward_infos(reward)
           g == r.reward_growth_global_x64
           out == outside_updated(r, range, delta)
           i == get_reward_growths_inside(r, out, range)
           pos == [open |-> TRUE, range |-> range, liquidity |-> delta,
                   growth_inside_last_x64 |-> i, reward_amount_owed |-> 0]
           n == 0
<1>0. /\ r \in RewardInfo /\ g \in 0 .. (Growth - 1)
      /\ Positioned(position) /\ outside \in Outside /\ tick_current \in Int /\ vault \in Nat
      /\ Growth \in Nat /\ Growth > 0 /\ Q64 \in Nat /\ Q64 > 0 /\ delta \in Nat
      /\ range[1] \in Int /\ range[2] \in Int /\ range[1] < range[2]
      /\ range[1] \in Ticks /\ range[2] \in Ticks
  BY CurrentFacts, RewardAssumption DEF IInv, Types, Outside, Ticks
<1>1. /\ ~position[p].open /\ reward' = r /\ outside' = out
      /\ position' = [position EXCEPT ![p] = pos]
      /\ tick_current' = tick_current /\ vault' = vault /\ time' = time /\ dust' = dust
  BY DEF open_position
<1>2. out \in Outside /\ \A b \in Ticks : liquidity_gross(position, b) > 0 => out[b] = outside[b]
  BY <1>0, OutsideUpdated
<1> HIDE DEF r, out
<1>3. i = Inside(g, out, tick_current, range) /\ i \in 0 .. (Growth - 1)
  <2> DEFINE a == Below(g, out, tick_current, range[2])
             b == Below(g, out, tick_current, range[1])
  <2>1. out[range[1]] \in 0 .. (Growth - 1) /\ out[range[2]] \in 0 .. (Growth - 1)
    BY <1>0, <1>2 DEF Outside
  <2>2. i = Inside(g, out, tick_current, range)
    BY <1>0, <2>1, InsideIs
  <2>3. a \in 0 .. (Growth - 1) /\ b \in 0 .. (Growth - 1)
    BY <1>0, <2>1, BelowType
  <2>4. i = wrapping_sub(a, b)
    BY <2>2 DEF Inside
  <2> HIDE DEF a, b
  <2>5. a \in Int /\ b \in Int
    BY <1>0, <2>3
  <2>6. wrapping_sub(a, b) \in 0 .. (Growth - 1)
    BY <2>5, WrapNested
  <2> QED BY <2>2, <2>4, <2>6
<1> HIDE DEF i
<1>4. pos \in PositionInfo /\ pos.open /\ pos.range = range /\ pos.liquidity = delta
      /\ pos.growth_inside_last_x64 = i /\ pos.reward_amount_owed = 0
  BY <1>0, <1>3 DEF PositionInfo
<1> HIDE DEF pos
<1>5. Positioned(position') /\ position'[p] = pos /\ \A q \in Positions : q # p => position'[q] = position[q]
  BY <1>0, <1>1, <1>4 DEF Positioned
<1>6. Share(pos, g, out, tick_current) = 0 /\ Earned(pos, g, out, tick_current) = 0
  <2>1. Unseen(pos, g, out, tick_current) = wrapping_sub(i, i)
    BY <1>3, <1>4 DEF Unseen
  <2>2. wrapping_sub(i, i) = 0 % Growth
    BY <1>0, <1>3 DEF wrapping_sub
  <2>3. 0 % Growth = 0
    BY <1>0, ModSmall
  <2>4. Share(pos, g, out, tick_current) = 0 * Q64 + delta * 0
    BY <1>4, <2>1, <2>2, <2>3 DEF Share
  <2>5. Earned(pos, g, out, tick_current) = 0 + ((0 * delta) \div Q64)
    BY <1>4, <2>1, <2>2, <2>3 DEF Earned, mul_div_floor
  <2>6. 0 * Q64 = 0 /\ delta * 0 = 0 /\ 0 * delta = 0 /\ 0 \div Q64 = 0
    BY <1>0, DivOfZero
  <2> QED BY <2>4, <2>5, <2>6
<1>7. Share(position[p], g, out, tick_current) = 0 /\ Earned(position[p], g, out, tick_current) = 0
  BY <1>1 DEF Share, Earned
<1>8. 0 * Q64 = 0
  BY <1>0
<1>9. reward' = [r EXCEPT !.reward_claimed = @ + n]
  BY <1>0, <1>1 DEF RewardInfo
<1>10. /\ Share(position'[p], g, out, tick_current) + n * Q64 <= Share(position[p], g, out, tick_current)
       /\ Earned(position'[p], g, out, tick_current) = Earned(position[p], g, out, tick_current) - n
  BY <1>5, <1>6, <1>7, <1>8
<1>11. r = update_reward_infos(reward) /\ vault' = vault - n /\ n <= vault /\ n \in Nat /\ (n > 0 => r.initialized)
  BY <1>0, <1>1 DEF r
<1>12. outside' \in Outside /\ \A b \in Ticks : liquidity_gross(position', b) > 0 => outside'[b] = out[b]
  BY <1>1, <1>2
<1> HIDE DEF n
<1>15. UpdatesAndPays(p, n, out, r)
  BY <1>1, <1>2, <1>5, <1>9, <1>10, <1>11, <1>12 DEF UpdatesAndPays
<1> QED BY <1>15, TouchStep

\* More liquidity settles what the position has earned with less.
LEMMA IncreaseStep ==
  ASSUME IInv, NEW p \in Positions, NEW delta \in Deltas, increase_liquidity(p, delta)
  PROVE  IInv' /\ PaysOnly
<1> DEFINE r == update_reward_infos(reward)
           g == r.reward_growth_global_x64
           range == position[p].range
           out == outside_updated(r, range, delta)
           i == Inside(g, out, tick_current, range)
           upd == update_rewards(position[p], i)
           pos == [upd EXCEPT !.liquidity = @ + delta]
           n == 0
<1>0. /\ r \in RewardInfo /\ g \in 0 .. (Growth - 1)
      /\ Positioned(position) /\ outside \in Outside /\ tick_current \in Int /\ vault \in Nat
      /\ Growth \in Nat /\ Growth > 0 /\ Q64 \in Nat /\ Q64 > 0 /\ delta \in Nat
      /\ position[p].open
  BY CurrentFacts, RewardAssumption DEF IInv, Types, Outside, increase_liquidity
<1>1. out \in Outside /\ \A b \in Ticks : liquidity_gross(position, b) > 0 => out[b] = outside[b]
  BY <1>0, OutsideUpdated
<1>2. get_reward_growths_inside(r, out, range) = i
  <2> HIDE DEF r, out
  <2> QED BY <1>0, <1>1, OpenPosition, InsideIs
<1>3. /\ reward' = r /\ outside' = out /\ position' = [position EXCEPT ![p] = pos]
      /\ tick_current' = tick_current /\ vault' = vault /\ time' = time /\ dust' = dust
  BY <1>2 DEF increase_liquidity
<1> HIDE DEF r, out
<1>4. /\ range \in Ranges /\ position[p].liquidity \in Nat /\ position[p] \in PositionInfo
  BY <1>0, OpenPosition DEF Positioned
<1> HIDE DEF g, i, upd
<1>5. /\ i \in 0 .. (Growth - 1) /\ upd.reward_amount_owed \in Nat
      /\ upd \in PositionInfo /\ upd.open /\ upd.range = range
      /\ upd.liquidity = position[p].liquidity /\ upd.growth_inside_last_x64 = i
  <2> DEFINE j == Inside(g, out, tick_current, position[p].range)
             v == update_rewards(position[p], j)
  <2>1. g \in 0 .. (Growth - 1)
    BY <1>0 DEF g
  <2>2. /\ j \in 0 .. (Growth - 1) /\ v.reward_amount_owed \in Nat
        /\ v \in PositionInfo /\ v.open /\ v.range = position[p].range
        /\ v.liquidity = position[p].liquidity /\ v.growth_inside_last_x64 = j
    BY <1>0, <1>1, <2>1, UpdatedPosition
  <2>3. j = i /\ v = upd
    BY DEF i, upd
  <2> HIDE DEF j, v
  <2> QED BY <2>2, <2>3
<1>6. pos = [upd EXCEPT !.liquidity = @ + delta]
  OBVIOUS
<1>7. pos \in PositionInfo /\ pos.open /\ pos.range = range
      /\ pos.liquidity = position[p].liquidity + delta
      /\ pos.growth_inside_last_x64 = i /\ pos.reward_amount_owed = upd.reward_amount_owed
      /\ pos.liquidity \in Nat
  BY <1>0, <1>4, <1>5, <1>6 DEF PositionInfo
<1> HIDE DEF pos
<1>8. /\ Share(pos, g, out, tick_current) + n * Q64 <= Share(position[p], g, out, tick_current)
      /\ Earned(pos, g, out, tick_current) = Earned(position[p], g, out, tick_current) - n
  <2>1. pos.reward_amount_owed = upd.reward_amount_owed - n /\ n <= upd.reward_amount_owed /\ n \in Nat
    BY <1>5, <1>7
  <2>2. upd = update_rewards(position[p], Inside(g, out, tick_current, position[p].range))
        /\ pos.growth_inside_last_x64 = Inside(g, out, tick_current, position[p].range)
        /\ pos.range = position[p].range /\ g \in 0 .. (Growth - 1)
    BY <1>0, <1>7 DEF upd, i, g
  <2>3. UpToDate(position, p, out, g, tick_current, pos, upd, n)
    BY <1>0, <1>1, <1>7, <2>1, <2>2 DEF UpToDate
  <2> HIDE DEF n
  <2> QED BY <2>3, Touched
<1>10. Positioned(position') /\ position'[p] = pos /\ \A q \in Positions : q # p => position'[q] = position[q]
  BY <1>0, <1>3, <1>4, <1>7 DEF Positioned
<1>11. reward' = [r EXCEPT !.reward_claimed = @ + n]
  BY <1>0, <1>3 DEF RewardInfo
<1>12. r = update_reward_infos(reward) /\ vault' = vault - n /\ n <= vault /\ n \in Nat /\ (n > 0 => r.initialized)
  BY <1>0, <1>3 DEF r
<1>13. outside' \in Outside /\ \A b \in Ticks : liquidity_gross(position', b) > 0 => outside'[b] = out[b]
  BY <1>1, <1>3
<1>14. /\ Share(position'[p], r.reward_growth_global_x64, out, tick_current) + n * Q64
            <= Share(position[p], r.reward_growth_global_x64, out, tick_current)
       /\ Earned(position'[p], r.reward_growth_global_x64, out, tick_current)
            = Earned(position[p], r.reward_growth_global_x64, out, tick_current) - n
  BY <1>8, <1>10 DEF g
<1> HIDE DEF n
<1>15. UpdatesAndPays(p, n, out, r)
  BY <1>1, <1>3, <1>10, <1>11, <1>12, <1>13, <1>14 DEF UpdatesAndPays
<1> QED BY <1>15, TouchStep

\* The liquidity of a tick depends on ranges and liquidities only.
LEMMA GrossSame ==
  ASSUME NEW ps, NEW ps2,
         \A q \in Positions : ps2[q].range = ps[q].range /\ ps2[q].liquidity = ps[q].liquidity,
         NEW b
  PROVE  liquidity_gross(ps2, b) = liquidity_gross(ps, b)
<1> DEFINE A == [q \in Positions |-> IF b \in {ps[q].range[1], ps[q].range[2]} THEN ps[q].liquidity ELSE 0]
           B == [q \in Positions |-> IF b \in {ps2[q].range[1], ps2[q].range[2]} THEN ps2[q].liquidity ELSE 0]
<1>1. A = B
  OBVIOUS
<1> QED BY <1>1 DEF liquidity_gross

\* So does the liquidity in range, whatever the range of an empty position.
LEMMA ActiveSame ==
  ASSUME NEW ps, NEW ps2, NEW t,
         \A q \in Positions : /\ ps2[q].liquidity = ps[q].liquidity
                              /\ ps2[q].range = ps[q].range \/ ps[q].liquidity = 0
  PROVE  active_at(ps2, t) = active_at(ps, t)
<1> DEFINE A == [q \in Positions |-> IF in_range(ps[q].range, t) THEN ps[q].liquidity ELSE 0]
           B == [q \in Positions |-> IF in_range(ps2[q].range, t) THEN ps2[q].liquidity ELSE 0]
<1>1. ASSUME NEW q \in Positions PROVE A[q] = B[q]
  <2>1. CASE ps2[q].range = ps[q].range
    BY <2>1
  <2>2. CASE ps[q].liquidity = 0
    <3>1. ps2[q].liquidity = 0
      BY <2>2
    <3> QED BY <2>2, <3>1
  <2> QED BY <2>1, <2>2
<1>2. A = B
  BY <1>1
<1> QED BY <1>2 DEF active_at

\* Withdrawing settles what the position has earned and pays it as far as the vault goes.
LEMMA DecreaseStep ==
  ASSUME IInv, NEW p \in Positions, NEW delta \in Deltas \cup {0}, decrease_liquidity(p, delta)
  PROVE  IInv' /\ PaysOnly
<1> DEFINE r == update_reward_infos(reward)
           g == r.reward_growth_global_x64
           range == position[p].range
           out == outside_updated(r, range, delta)
           i == Inside(g, out, tick_current, range)
           upd == update_rewards(position[p], i)
           less == [upd EXCEPT !.liquidity = @ - delta]
           n == transfer_amount(less)
           pos == [less EXCEPT !.reward_amount_owed = @ - n]
           mid == [position EXCEPT ![p] = less]
           out2 == cleared(out, mid)
<1>0. /\ r \in RewardInfo /\ g \in 0 .. (Growth - 1) /\ (~r.initialized => r = NoReward)
      /\ Positioned(position) /\ outside \in Outside /\ tick_current \in Int /\ vault \in Nat
      /\ Growth \in Nat /\ Growth > 0 /\ Q64 \in Nat /\ Q64 > 0 /\ delta \in Nat
      /\ position[p].open /\ delta <= position[p].liquidity
      /\ tick_current' = tick_current /\ time' = time /\ dust' = dust
  BY CurrentFacts, RewardAssumption DEF IInv, Types, Outside, decrease_liquidity
<1>1. out \in Outside /\ \A b \in Ticks : liquidity_gross(position, b) > 0 => out[b] = outside[b]
  BY <1>0, OutsideUpdated
<1>2. /\ range \in Ranges /\ position[p].liquidity \in Nat /\ position[p] \in PositionInfo
      /\ position[p].reward_amount_owed \in Nat
  BY <1>0, OpenPosition DEF Positioned
<1>3. CASE "DecreaseLiquidity" \in status
  <2>1. get_reward_growths_inside(r, out, range) = i
    <3> HIDE DEF r, out
    <3> QED BY <1>0, <1>1, OpenPosition, InsideIs
  <2>2. /\ check_unclaimed_reward(r, less)
        /\ reward' = [r EXCEPT !.reward_claimed = @ + n]
        /\ outside' = out2 /\ position' = [position EXCEPT ![p] = pos]
        /\ vault' = vault - n
    BY <1>3, <2>1 DEF decrease_liquidity, collect_rewards
  <2> HIDE DEF r, out
  <2>3. /\ i \in 0 .. (Growth - 1) /\ upd.reward_amount_owed \in Nat
        /\ upd \in PositionInfo /\ upd.open /\ upd.range = range
        /\ upd.liquidity = position[p].liquidity /\ upd.growth_inside_last_x64 = i
    <3> HIDE DEF g
    <3> DEFINE j == Inside(g, out, tick_current, position[p].range)
               v == update_rewards(position[p], j)
    <3>1. /\ j \in 0 .. (Growth - 1) /\ v.reward_amount_owed \in Nat
          /\ v \in PositionInfo /\ v.open /\ v.range = position[p].range
          /\ v.liquidity = position[p].liquidity /\ v.growth_inside_last_x64 = j
      <4>1. /\ Positioned(position) /\ position[p].open /\ out \in Outside
            /\ g \in 0 .. (Growth - 1) /\ tick_current \in Int
        BY <1>0, <1>1
      <4> QED BY <4>1, UpdatedPosition, SMTT(60)
    <3>2. j = i /\ v = upd
      OBVIOUS
    <3> HIDE DEF j, v
    <3> QED BY <3>1, <3>2
  <2> HIDE DEF i, upd, g
  <2>4. /\ less \in PositionInfo /\ less.open /\ less.range = range
        /\ less.liquidity = position[p].liquidity - delta /\ less.liquidity \in Nat
        /\ less.growth_inside_last_x64 = i /\ less.reward_amount_owed = upd.reward_amount_owed
    BY <1>0, <1>2, <2>3 DEF PositionInfo
  <2> HIDE DEF less
  <2>5. n \in Nat /\ n <= vault /\ n <= upd.reward_amount_owed
    BY <1>0, <2>3, <2>4 DEF transfer_amount, least
  <2>6. n > 0 => r.initialized
    <3> SUFFICES ASSUME n > 0, ~r.initialized PROVE FALSE
      OBVIOUS
    <3>1. "CollectReward" \in status /\ less.reward_amount_owed >= n
      BY <1>0, <2>3, <2>4, <2>5 DEF transfer_amount
    <3>2. r.reward_total_emitted - r.reward_claimed >= less.reward_amount_owed
      BY <2>2, <2>3, <2>4, <2>5, <3>1 DEF check_unclaimed_reward
    <3>3. r.reward_total_emitted = 0 /\ r.reward_claimed = 0
      BY <1>0 DEF NoReward
    <3> QED BY <2>3, <2>4, <2>5, <3>1, <3>2, <3>3
  <2> HIDE DEF n
  <2>7. /\ pos \in PositionInfo /\ pos.open /\ pos.range = range /\ pos.liquidity = less.liquidity
        /\ pos.growth_inside_last_x64 = i
        /\ pos.reward_amount_owed = upd.reward_amount_owed - n
    BY <2>3, <2>4, <2>5 DEF PositionInfo
  <2> HIDE DEF pos
  <2>8. Positioned(position') /\ position'[p] = pos /\ \A q \in Positions : q # p => position'[q] = position[q]
    BY <1>0, <1>2, <2>2, <2>7 DEF Positioned
  <2>9. out2 \in Outside /\ \A b \in Ticks : liquidity_gross(mid, b) > 0 => out2[b] = out[b]
    <3> HIDE DEF mid
    <3> QED BY <1>1, Cleared
  <2>10. \A b : liquidity_gross(position', b) = liquidity_gross(mid, b)
    <3> TAKE b
    <3>1. \A q \in Positions : position'[q].range = mid[q].range /\ position'[q].liquidity = mid[q].liquidity
      BY <1>0, <2>2, <2>4, <2>7 DEF Positioned
    <3> HIDE DEF mid
    <3> DEFINE ps2 == position'
    <3>2. \A q \in Positions : ps2[q].range = mid[q].range /\ ps2[q].liquidity = mid[q].liquidity
      BY <3>1
    <3> HIDE DEF ps2
    <3>3. liquidity_gross(ps2, b) = liquidity_gross(mid, b)
      BY <3>2, GrossSame
    <3> QED BY <3>3 DEF ps2
  <2> HIDE DEF out2, mid
  <2>11. UpToDate(position, p, out, g, tick_current, pos, upd, n)
    BY <1>0, <1>1, <2>3, <2>4, <2>5, <2>7 DEF UpToDate, upd, i, g
  <2>12. /\ Share(pos, g, out, tick_current) + n * Q64 <= Share(position[p], g, out, tick_current)
         /\ Earned(pos, g, out, tick_current) = Earned(position[p], g, out, tick_current) - n
    BY <2>11, Touched
  <2>13. r = update_reward_infos(reward)
    BY DEF r
  <2>14. UpdatesAndPays(p, n, out, r)
    BY <1>0, <1>1, <2>2, <2>5, <2>6, <2>8, <2>9, <2>10, <2>12, <2>13 DEF UpdatesAndPays, g
  <2> QED BY <2>14, TouchStep
<1>4. CASE "DecreaseLiquidity" \notin status
  <2> DEFINE m == transfer_amount(position[p])
             pos2 == [position[p] EXCEPT !.reward_amount_owed = @ - m]
  <2>1. /\ check_unclaimed_reward(reward, position[p])
        /\ reward' = [reward EXCEPT !.reward_claimed = @ + m]
        /\ outside' = outside /\ position' = [position EXCEPT ![p] = pos2]
        /\ vault' = vault - m
    BY <1>4 DEF decrease_liquidity, collect_rewards
  <2> DEFINE o == position[p].reward_amount_owed
             l == position[p].liquidity
  <2>2. o \in Nat /\ l \in Nat
    BY <1>2
  <2>3. m \in Nat /\ m <= vault /\ m <= o
    BY <1>0, <1>2 DEF transfer_amount, least
  <2>4. m > 0 => reward.initialized
    <3> SUFFICES ASSUME m > 0, ~reward.initialized PROVE FALSE
      OBVIOUS
    <3>1. "CollectReward" \in status
      BY <1>0, <2>3 DEF transfer_amount
    <3>2. reward.reward_total_emitted - reward.reward_claimed >= o
      BY <2>1, <2>2, <2>3, <3>1 DEF check_unclaimed_reward
    <3>3. reward.reward_total_emitted = 0 /\ reward.reward_claimed = 0
      BY DEF IInv, NoReward
    <3> QED BY <2>2, <2>3, <3>2, <3>3
  <2> HIDE DEF m
  <2>5. /\ pos2 \in PositionInfo /\ pos2.open /\ pos2.range = range /\ pos2.liquidity = l
        /\ pos2.growth_inside_last_x64 = position[p].growth_inside_last_x64
        /\ pos2.reward_amount_owed = o - m
    BY <1>0, <1>2, <2>2, <2>3 DEF PositionInfo
  <2> HIDE DEF pos2
  <2>6. Positioned(position') /\ position'[p] = pos2 /\ \A q \in Positions : q # p => position'[q] = position[q]
    BY <1>0, <1>2, <2>1, <2>5 DEF Positioned
  <2>7. ASSUME NEW h \in 0 .. (Growth - 1)
        PROVE  /\ Share(pos2, h, outside, tick_current) + m * Q64
                    <= Share(position[p], h, outside, tick_current)
               /\ Earned(pos2, h, outside, tick_current) = Earned(position[p], h, outside, tick_current) - m
    <3> DEFINE w == Unseen(position[p], h, outside, tick_current)
               f == (w * l) \div Q64
    <3>1. Unseen(pos2, h, outside, tick_current) = w
      BY <2>5 DEF Unseen
    <3>2. w \in 0 .. (Growth - 1)
      BY <1>0, ShareType
    <3>3. /\ Share(pos2, h, outside, tick_current) = (o - m) * Q64 + l * w
          /\ Share(position[p], h, outside, tick_current) = o * Q64 + l * w
          /\ Earned(pos2, h, outside, tick_current) = (o - m) + f
          /\ Earned(position[p], h, outside, tick_current) = o + f
      BY <1>0, <2>5, <3>1 DEF Share, Earned, mul_div_floor
    <3> HIDE DEF w, l, o
    <3>4. l * w \in Nat /\ w * l \in Nat
      BY <1>0, <2>2, <3>2, ProductOfNat
    <3>5. f \in Nat
      BY <1>0, <3>4, DivNat
    <3>6. (o - m) * Q64 = o * Q64 - m * Q64 /\ o * Q64 \in Nat /\ m * Q64 \in Nat
      BY <1>0, <2>2, <2>3, MulParts, ProductOfNat
    <3> HIDE DEF f
    <3> QED BY <2>2, <2>3, <3>3, <3>4, <3>5, <3>6
  <2>8. liquidity' = liquidity
    <3> DEFINE ps2 == position'
    <3>1. \A q \in Positions : /\ ps2[q].liquidity = position[q].liquidity
                               /\ ps2[q].range = position[q].range \/ position[q].liquidity = 0
      BY <2>5, <2>6
    <3>2. liquidity' = active_at(ps2, tick_current)
      BY <1>0 DEF liquidity, active_at
    <3> HIDE DEF ps2
    <3>3. active_at(ps2, tick_current) = active_at(position, tick_current)
      BY <3>1, ActiveSame
    <3> QED BY <3>2, <3>3, UpdateIs
  <2>9. Pays(p, m)
    BY <1>0, <2>1, <2>3, <2>4, <2>6, <2>7, <2>8 DEF Pays
  <2> QED BY <2>9, StillStep
<1> QED BY <1>3, <1>4

\* A position that is closed is owed nothing.
LEMMA CloseStep ==
  ASSUME IInv, NEW p \in Positions, close_position(p)
  PROVE  IInv' /\ PaysOnly
<1> DEFINE n == 0
<1>0. /\ Positioned(position) /\ outside \in Outside /\ tick_current \in Int /\ vault \in Nat
      /\ Growth \in Nat /\ Growth > 0 /\ Q64 \in Nat /\ reward \in RewardInfo
      /\ position[p].open /\ position[p].liquidity = 0 /\ position[p].reward_amount_owed = 0
      /\ position' = [position EXCEPT ![p] = NoPosition]
      /\ reward' = reward /\ vault' = vault /\ outside' = outside
      /\ tick_current' = tick_current /\ time' = time /\ dust' = dust
  BY RewardAssumption DEF IInv, Types, Outside, close_position
<1>1. ~NoPosition.open /\ NoPosition.liquidity = 0 /\ NoPosition \in PositionInfo
  BY <1>0 DEF NoPosition, PositionInfo
<1>2. Positioned(position') /\ position'[p] = NoPosition
      /\ \A q \in Positions : q # p => position'[q] = position[q]
  BY <1>0, <1>1 DEF Positioned
<1>3. ASSUME NEW h \in 0 .. (Growth - 1)
      PROVE  /\ Share(NoPosition, h, outside, tick_current) + n * Q64
                  <= Share(position[p], h, outside, tick_current)
             /\ Earned(NoPosition, h, outside, tick_current)
                  = Earned(position[p], h, outside, tick_current) - n
  <2>1. Share(NoPosition, h, outside, tick_current) = 0 /\ Earned(NoPosition, h, outside, tick_current) = 0
    BY <1>1 DEF Share, Earned
  <2>2. Unseen(position[p], h, outside, tick_current) \in Int
    <3>1. Unseen(position[p], h, outside, tick_current) \in 0 .. (Growth - 1)
      BY <1>0, ShareType
    <3> QED BY <1>0, <3>1
  <2>3. Share(position[p], h, outside, tick_current) = 0 * Q64 /\ Earned(position[p], h, outside, tick_current) = 0
    BY <1>0, <2>2, Idle
  <2>4. 0 * Q64 = 0
    BY <1>0
  <2> QED BY <2>1, <2>3, <2>4
<1>4. liquidity' = liquidity
  <2> DEFINE ps2 == position'
  <2>1. \A q \in Positions : /\ ps2[q].liquidity = position[q].liquidity
                             /\ ps2[q].range = position[q].range \/ position[q].liquidity = 0
    BY <1>0, <1>1, <1>2
  <2>2. liquidity' = active_at(ps2, tick_current)
    BY <1>0 DEF liquidity, active_at
  <2> HIDE DEF ps2
  <2>3. active_at(ps2, tick_current) = active_at(position, tick_current)
    BY <2>1, ActiveSame
  <2> QED BY <2>2, <2>3, UpdateIs
<1>5. reward' = [reward EXCEPT !.reward_claimed = @ + n]
  BY <1>0 DEF RewardInfo
<1>6. vault' = vault - n /\ n \in Nat /\ n <= vault /\ ~ (n > 0)
  BY <1>0
<1> HIDE DEF n
<1>7. Pays(p, n)
  BY <1>0, <1>2, <1>3, <1>4, <1>5, <1>6 DEF Pays
<1> QED BY <1>7, StillStep

\* The rest of a period is an amount, at most that of the time left at the rate.
LEMMA RestType ==
  ASSUME NEW r \in RewardInfo
  PROVE  /\ rest_of_period(r) \in Nat
         /\ rest_of_period(r) <= saturating_sub(r.end_time, r.last_update_time) * r.emissions_per_second_x64
         /\ saturating_sub(r.end_time, r.last_update_time) * r.emissions_per_second_x64 \in Nat
<1> DEFINE a == saturating_sub(r.end_time, r.last_update_time)
           b == r.emissions_per_second_x64
           c == U64Max - r.reward_total_emitted
<1>1. a \in Nat /\ b \in Nat /\ c \in Nat /\ Q64 \in Nat
  BY RewardAssumption DEF RewardInfo, saturating_sub
<1>2. rest_of_period(r) = least(a * b, c * Q64)
  BY DEF rest_of_period
<1> HIDE DEF a, b, c
<1>3. a * b \in Nat /\ c * Q64 \in Nat
  BY <1>1, ProductOfNat
<1> QED BY <1>2, <1>3 DEF least, a, b

\* An instruction that changes no position and leaves the reward settled.
Restates(s) ==
  /\ reward' = s /\ s \in RewardInfo /\ Timing(s, time) /\ Settled(s, time)
  /\ s.initialized \/ s = NoReward
  /\ s.reward_growth_global_x64 = current.reward_growth_global_x64
  /\ s.reward_claimed = reward.reward_claimed
  /\ position' = position /\ time' = time /\ outside' \in Outside /\ tick_current' \in Int
  /\ vault' \in Nat /\ dust' \in Nat
  /\ \A q \in Positions :
       Earned(position[q], s.reward_growth_global_x64, outside', tick_current')
         = Earned(position[q], s.reward_growth_global_x64, outside, tick_current)
  /\ Claims(s, position, outside', tick_current')
  /\ Funded(s, position, outside', tick_current', vault', dust')

\* Instructions of the funder, the administrator and swaps: nobody is paid.
LEMMA RestatedStep ==
  ASSUME IInv, NEW s, Restates(s)
  PROVE  IInv' /\ PaysOnly
<1>1. /\ Positioned(position) /\ time \in Nat /\ reward \in RewardInfo
  BY DEF IInv, Types
<1>2. IInv'
  BY <1>1 DEF IInv, Types, Restates, Outside
<1>3. current'.reward_growth_global_x64 = current.reward_growth_global_x64
  BY <1>1, NextCurrent, Quiet DEF Restates
<1>4. \A q \in Positions : EarnedNow(q)' = EarnedNow(q)
  BY <1>3 DEF EarnedNow, Restates
<1>5. reward'.reward_claimed = reward.reward_claimed + 0 /\ 0 \in Nat
  BY <1>1 DEF Restates, RewardInfo
<1> QED BY <1>2, <1>4, <1>5 DEF PaysOnly

\* The price crosses the ticks on its way and carries what grew inside every range along.
LEMMA SwapStep ==
  ASSUME IInv, NEW t \in TickRange, swap(t)
  PROVE  IInv' /\ PaysOnly
<1> DEFINE r == update_reward_infos(reward)
           g == r.reward_growth_global_x64
           out2 == outside'
           passed(b) == \/ tick_current < b /\ b <= t
                        \/ t < b /\ b <= tick_current
<1>0. /\ r \in RewardInfo /\ Timing(r, time) /\ Settled(r, time) /\ (~r.initialized => r = NoReward)
      /\ r.reward_claimed = reward.reward_claimed /\ g \in 0 .. (Growth - 1)
      /\ Claims(r, position, outside, tick_current)
      /\ Funded(r, position, outside, tick_current, vault, dust)
  BY CurrentFacts
<1>1. /\ Positioned(position) /\ outside \in Outside /\ tick_current \in Int /\ vault \in Nat /\ dust \in Nat
      /\ Growth \in Nat /\ Growth > 0 /\ t \in Int
      /\ \A b \in Ticks : b \in Int
  BY RewardAssumption DEF IInv, Types, Outside, Ticks
<1>2. /\ reward' = r /\ tick_current' = t /\ position' = position /\ vault' = vault /\ time' = time /\ dust' = dust
      /\ out2 = [b \in Ticks |-> IF passed(b) /\ liquidity_gross(position, b) > 0
                                 THEN wrapping_sub(g, outside[b]) ELSE outside[b]]
  BY DEF swap
<1> HIDE DEF r, out2
<1>3. out2 \in Outside
  <2>1. \A b \in Ticks : wrapping_sub(g, outside[b]) \in 0 .. (Growth - 1)
    <3> TAKE b \in Ticks
    <3> HIDE DEF g
    <3>1. g \in Int /\ outside[b] \in Int
      BY <1>0, <1>1 DEF Outside, g
    <3> QED BY <3>1, WrapNested
  <2> QED BY <1>1, <1>2, <2>1 DEF Outside
<1>4. ASSUME NEW b \in Ticks, liquidity_gross(position, b) > 0
      PROVE  Below(g, out2, t, b) = Below(g, outside, tick_current, b)
  <2>1. out2[b] = IF (tick_current < b /\ b <= t) \/ (t < b /\ b <= tick_current)
                  THEN wrapping_sub(g, outside[b]) ELSE outside[b]
    BY <1>2, <1>4
  <2>2. outside[b] \in 0 .. (Growth - 1) /\ b \in Int
    BY <1>1 DEF Outside
  <2> HIDE DEF g
  <2>3. g \in 0 .. (Growth - 1)
    BY <1>0 DEF g
  <2> QED BY <1>1, <2>1, <2>2, <2>3, BelowCrossed
<1>5. \A q \in Positions : /\ Share(position[q], g, out2, t) = Share(position[q], g, outside, tick_current)
                           /\ Earned(position[q], g, out2, t) = Earned(position[q], g, outside, tick_current)
  <2>1. g \in 0 .. (Growth - 1)
    BY <1>0
  <2> HIDE DEF g
  <2> QED BY <1>1, <1>3, <1>4, <2>1, Elsewhere
<1>6. Owes(position, g, out2, t) = Owes(position, g, outside, tick_current)
  <2>1. Shares(position, g, out2, t) = Shares(position, g, outside, tick_current)
    BY <1>5 DEF Shares
  <2> QED BY <2>1 DEF Owes
<1>7. Claims(r, position, out2, t) /\ Funded(r, position, out2, t, vault, dust)
  BY <1>0, <1>6 DEF Claims, Funded
<1>8. current = r
  BY DEF current, r
<1>9. Restates(r)
  BY <1>0, <1>1, <1>2, <1>3, <1>5, <1>7, <1>8 DEF Restates, out2
<1> QED BY <1>9, RestatedStep

\* The whole period is deposited when the reward begins.
LEMMA InitializeStep ==
  ASSUME IInv, NEW rate \in Rates, NEW open_time \in Times, NEW end_time \in Times,
         initialize_reward(rate, open_time, end_time)
  PROVE  IInv' /\ PaysOnly
<1> DEFINE s == [NoReward EXCEPT !.initialized = TRUE, !.open_time = open_time,
                                 !.end_time = end_time, !.last_update_time = open_time,
                                 !.emissions_per_second_x64 = rate]
           amount == mul_div_ceil(end_time - open_time, rate, Q64)
           length == end_time - open_time
           O == Owes(position, 0, outside, tick_current)
           E == length * rate
           c == amount * Q64
           v == vault * Q64
<1>0. /\ Positioned(position) /\ outside \in Outside /\ tick_current \in Int /\ vault \in Nat /\ dust \in Nat
      /\ time \in Nat /\ Growth \in Nat /\ Growth > 0 /\ Q64 \in Nat /\ Q64 > 0 /\ U64Max \in Nat
      /\ rate \in Nat /\ open_time \in Nat /\ end_time \in Nat
      /\ ~reward.initialized /\ open_time >= time /\ open_time < end_time
      /\ reward' = s /\ vault' = vault + amount
      /\ tick_current' = tick_current /\ outside' = outside /\ position' = position
      /\ time' = time /\ dust' = dust
  BY RewardAssumption DEF IInv, Types, Outside, initialize_reward
<1>1. reward = NoReward /\ NoReward \in RewardInfo /\ NoReward.reward_growth_global_x64 = 0
      /\ NoReward.reward_claimed = 0 /\ NoReward.reward_total_emitted = 0
  BY <1>0 DEF IInv, NoReward, RewardInfo
<1>2. current = NoReward
  BY <1>1 DEF current, update_reward_infos, NoReward
<1>3. /\ s \in RewardInfo /\ s.initialized /\ s.open_time = open_time /\ s.end_time = end_time
      /\ s.last_update_time = open_time /\ s.emissions_per_second_x64 = rate
      /\ s.reward_growth_global_x64 = 0 /\ s.reward_claimed = 0 /\ s.reward_total_emitted = 0
  BY <1>0, <1>1 DEF NoReward, RewardInfo
<1> HIDE DEF s
<1>4. Timing(s, time) /\ Settled(s, time)
  BY <1>0, <1>3 DEF Timing, Settled
<1>5. amount \in Nat /\ E \in Nat /\ E <= c
  <2>1. length \in Nat
    BY <1>0
  <2>2. E \in Nat
    <3> HIDE DEF length
    <3> QED BY <1>0, <2>1, ProductOfNat
  <2>3. amount = (E + Q64 - 1) \div Q64
    BY DEF mul_div_ceil
  <2> HIDE DEF amount, E
  <2>4. amount \in Nat /\ E <= Q64 * amount
    BY <1>0, <2>2, <2>3, CeilBounds
  <2>5. Q64 * amount = amount * Q64
    BY <1>0, <2>4
  <2> QED BY <2>2, <2>4, <2>5
<1>6. rest_of_period(s) \in Nat /\ rest_of_period(s) <= E
  <2>1. saturating_sub(s.end_time, s.last_update_time) = length
    BY <1>0, <1>3 DEF saturating_sub
  <2> HIDE DEF length
  <2> QED BY <1>3, <2>1, RestType
<1>7. Claims(s, position, outside, tick_current)
  <2>1. Claims(NoReward, position, outside, tick_current)
    BY <1>1 DEF IInv
  <2> QED BY <1>1, <1>3, <2>1 DEF Claims
<1>8. v + dust >= O + rest_of_period(NoReward)
  BY <1>1 DEF IInv, Funded
<1>9. O \in Nat /\ rest_of_period(NoReward) \in Nat
  <2>1. 0 \in 0 .. (Growth - 1)
    BY <1>0
  <2> QED BY <1>0, <1>1, <2>1, ShareType, RestType
<1> HIDE DEF amount
<1>10. (vault + amount) * Q64 = v + c /\ v \in Nat /\ c \in Nat
  BY <1>0, <1>5, MulParts, ProductOfNat
<1>11. Funded(s, position, outside, tick_current, vault + amount, dust)
  <2> DEFINE x == rest_of_period(s)
             y == rest_of_period(NoReward)
  <2>1. /\ x \in Nat /\ y \in Nat /\ v \in Nat /\ c \in Nat /\ O \in Nat /\ dust \in Nat
        /\ x <= E /\ E <= c /\ E \in Nat /\ v + dust >= O + y
    BY <1>0, <1>5, <1>6, <1>8, <1>9, <1>10
  <2> HIDE DEF x, y, v, c, O, E
  <2>2. v + c + dust >= O + x
    BY <2>1
  <2> QED BY <1>3, <1>10, <2>2 DEF Funded, O, x
<1>12. vault + amount \in Nat
  BY <1>0, <1>5
<1>13. Restates(s)
  BY <1>0, <1>1, <1>2, <1>3, <1>4, <1>7, <1>11, <1>12 DEF Restates
<1> QED BY <1>13, RestatedStep

\* Anybody may bring the reward up to date.
LEMMA UpdateOnlyStep ==
  ASSUME IInv, update_rewards_only
  PROVE  IInv' /\ PaysOnly
<1> DEFINE r == update_reward_infos(reward)
<1>0. /\ r \in RewardInfo /\ Timing(r, time) /\ Settled(r, time) /\ (~r.initialized => r = NoReward)
      /\ r.reward_claimed = reward.reward_claimed
      /\ Claims(r, position, outside, tick_current)
      /\ Funded(r, position, outside, tick_current, vault, dust)
  BY CurrentFacts
<1>1. /\ outside \in Outside /\ tick_current \in Int /\ vault \in Nat /\ dust \in Nat
  BY DEF IInv, Types, Outside
<1>2. /\ reward' = r /\ tick_current' = tick_current /\ outside' = outside
      /\ position' = position /\ vault' = vault /\ time' = time /\ dust' = dust
  BY DEF update_rewards_only
<1>3. current = r
  BY DEF current
<1> HIDE DEF r
<1>4. Restates(r)
  BY <1>0, <1>1, <1>2, <1>3 DEF Restates
<1> QED BY <1>4, RestatedStep

\* The funder leaves what positions may still claim.
LEMMA CollectRemainingStep ==
  ASSUME IInv, collect_remaining_rewards
  PROVE  IInv' /\ PaysOnly
<1> DEFINE r == update_reward_infos(reward)
           O == Owes(position, r.reward_growth_global_x64, outside, tick_current)
           u == unclaimed(r)
<1>0. /\ r \in RewardInfo /\ Timing(r, time) /\ Settled(r, time) /\ (~r.initialized => r = NoReward)
      /\ r.reward_claimed = reward.reward_claimed /\ r.reward_growth_global_x64 \in 0 .. (Growth - 1)
      /\ Claims(r, position, outside, tick_current)
  BY CurrentFacts
<1>1. /\ outside \in Outside /\ tick_current \in Int /\ vault \in Nat /\ dust \in Nat /\ Positioned(position)
      /\ Q64 \in Nat
  BY RewardAssumption DEF IInv, Types, Outside
<1>2. /\ reward' = r /\ tick_current' = tick_current /\ outside' = outside
      /\ position' = position /\ vault' = u /\ time' = time /\ dust' = dust
      /\ r.last_update_time = r.end_time /\ u >= 0
  BY DEF collect_remaining_rewards
<1>3. current = r
  BY DEF current
<1> HIDE DEF r
<1>4. u \in Nat
  BY <1>0, <1>2 DEF unclaimed, RewardInfo
<1>5. u * Q64 >= O
  BY <1>0 DEF Claims, unclaimed
<1>6. rest_of_period(r) <= 0 /\ rest_of_period(r) \in Nat
  <2>1. saturating_sub(r.end_time, r.last_update_time) * r.emissions_per_second_x64 = 0
    <3>1. saturating_sub(r.end_time, r.last_update_time) = 0
      BY <1>0, <1>2 DEF saturating_sub, RewardInfo
    <3>2. 0 * r.emissions_per_second_x64 = 0
      BY <1>0 DEF RewardInfo
    <3> QED BY <3>1, <3>2
  <2> QED BY <1>0, <2>1, RestType
<1>7. O \in Nat /\ u * Q64 \in Nat
  BY <1>0, <1>1, <1>4, ShareType, ProductOfNat
<1>8. Funded(r, position, outside, tick_current, u, dust)
  <2> DEFINE x == u * Q64
             y == rest_of_period(r)
  <2>1. x \in Nat /\ y = 0 /\ x >= O
    BY <1>5, <1>6, <1>7
  <2> HIDE DEF x, y, O
  <2>2. x + dust >= O + y
    BY <1>1, <1>7, <2>1
  <2> QED BY <2>2 DEF Funded, x, y, O
<1> HIDE DEF u
<1>9. Restates(r)
  BY <1>0, <1>1, <1>2, <1>3, <1>4, <1>8 DEF Restates
<1> QED BY <1>9, RestatedStep

\* Stopping instructions changes nothing that is owed.
LEMMA StatusStep ==
  ASSUME IInv, NEW s, update_pool_status(s)
  PROVE  IInv' /\ PaysOnly
<1>1. /\ reward' = reward /\ tick_current' = tick_current /\ outside' = outside
      /\ position' = position /\ vault' = vault /\ time' = time /\ dust' = dust
  BY DEF update_pool_status
<1>2. IInv'
  BY <1>1 DEF IInv, Types
<1>3. liquidity' = liquidity
  BY <1>1 DEF liquidity
<1>4. current' = current
  BY <1>1, <1>3, NextCurrent, UpdateIs DEF current
<1>5. \A q \in Positions : EarnedNow(q)' = EarnedNow(q)
  BY <1>1, <1>4 DEF EarnedNow
<1>6. reward'.reward_claimed = reward.reward_claimed + 0 /\ 0 \in Nat
  BY <1>1 DEF IInv, Types, RewardInfo
<1> QED BY <1>2, <1>5, <1>6 DEF PaysOnly

\* Time passes and nothing else changes.
LEMMA TimeStep ==
  ASSUME IInv, advance_time
  PROVE  IInv'
<1>1. /\ reward' = reward /\ tick_current' = tick_current /\ outside' = outside
      /\ position' = position /\ vault' = vault /\ time' = time + 1 /\ dust' = dust
  BY DEF advance_time
<1>2. time \in Nat /\ time' \in Nat /\ reward \in RewardInfo /\ Timing(reward, time)
  BY <1>1 DEF IInv, Types
<1>3. Timing(reward, time')
  BY <1>1, <1>2 DEF Timing, RewardInfo
<1> QED BY <1>1, <1>2, <1>3 DEF IInv, Types

\* A higher rate for the time left and a longer period are charged in full,
\* but for what is rounded down.
LEMMA ExtensionArith ==
  ASSUME NEW left \in Nat, NEW rate \in Nat, NEW old \in Nat, NEW longer \in Nat, NEW n \in Nat,
         n <= left + longer
  PROVE  LET higher == saturating_sub(rate, old)
         IN  /\ left * higher \in Nat /\ longer * rate \in Nat /\ n * rate \in Nat /\ left * old \in Nat
             /\ n * rate <= left * old + left * higher + longer * rate
<1> DEFINE higher == saturating_sub(rate, old)
<1>1. higher \in Nat /\ rate <= old + higher
  BY DEF saturating_sub
<1> HIDE DEF higher
<1>2. left * higher \in Nat /\ longer * rate \in Nat /\ n * rate \in Nat /\ left * old \in Nat /\ left * rate \in Nat
  BY <1>1, ProductOfNat
<1>3. n * rate <= (left + longer) * rate
  <2>1. rate * n <= rate * (left + longer) /\ left + longer \in Nat
    BY MulMono
  <2>2. rate * n = n * rate /\ rate * (left + longer) = (left + longer) * rate
    OBVIOUS
  <2> QED BY <2>1, <2>2
<1>4. (left + longer) * rate = left * rate + longer * rate
  OBVIOUS
<1>5. left * rate <= left * (old + higher)
  BY <1>1, MulMono
<1>6. left * (old + higher) = left * old + left * higher
  BY <1>1
<1> DEFINE a == n * rate
           b == left * rate
           c == longer * rate
           d == left * old
           e == left * higher
<1>7. /\ a \in Nat /\ b \in Nat /\ c \in Nat /\ d \in Nat /\ e \in Nat
      /\ a <= b + c /\ b <= d + e
  BY <1>2, <1>3, <1>4, <1>5, <1>6
<1> HIDE DEF a, b, c, d, e
<1>8. a <= d + e + c
  BY <1>7
<1> QED BY <1>2, <1>8 DEF a, c, d, e, higher

\* What rounding down leaves out is what the remainder keeps.
LEMMA FloorAndRest ==
  ASSUME NEW a \in Nat, NEW b \in Nat
  PROVE  /\ mul_div_floor(a, b, Q64) \in Nat /\ ((a * b) % Q64) \in Nat
         /\ mul_div_floor(a, b, Q64) * Q64 + ((a * b) % Q64) = a * b
<1> DEFINE m == a * b
           q == m \div Q64
           r == m % Q64
<1>1. m \in Nat /\ Q64 \in Nat /\ Q64 > 0
  BY RewardAssumption, ProductOfNat
<1>2. mul_div_floor(a, b, Q64) = q
  BY DEF mul_div_floor
<1> HIDE DEF m
<1>3. q \in Nat /\ r \in 0 .. (Q64 - 1) /\ r = m - Q64 * q
  BY <1>1, DivBounds, DivNat
<1>4. Q64 * q = q * Q64 /\ q * Q64 \in Nat
  BY <1>1, <1>3, ProductOfNat
<1> HIDE DEF q, r
<1>5. q \in Nat /\ r \in Nat /\ q * Q64 + r = m
  <2> DEFINE k == q * Q64
  <2>1. k \in Nat /\ r = m - k /\ r \in 0 .. (Q64 - 1)
    BY <1>3, <1>4
  <2> HIDE DEF k
  <2>2. k + r = m
    BY <1>1, <2>1
  <2> QED BY <1>1, <1>3, <2>2 DEF k
<1> QED BY <1>2, <1>5 DEF m, r

\* A new period is charged at least what it hands out, whatever it replaces.
LEMMA NewPeriodStated ==
  ASSUME NEW r \in RewardInfo, NEW rate \in Nat, NEW open_time \in Nat, NEW end_time \in Nat,
         open_time < end_time
  PROVE  LET u == new_period(r, rate, open_time, end_time)
         IN  /\ u.info \in RewardInfo /\ u.amount \in Nat /\ u.rounded_down = 0
             /\ u.info.initialized = r.initialized /\ u.info.open_time = open_time
             /\ u.info.last_update_time = open_time /\ u.info.end_time = end_time
             /\ u.info.reward_growth_global_x64 = r.reward_growth_global_x64
             /\ u.info.reward_total_emitted = r.reward_total_emitted
             /\ u.info.reward_claimed = r.reward_claimed
             /\ rest_of_period(u.info) \in Nat
             /\ rest_of_period(u.info) <= u.amount * Q64
<1> DEFINE u == new_period(r, rate, open_time, end_time)
           length == end_time - open_time
           E == length * rate
           amount == mul_div_ceil(end_time - open_time, rate, Q64)
           s == u.info
<1>0. Q64 \in Nat /\ Q64 > 0
  BY RewardAssumption
<1>1. /\ s = [r EXCEPT !.open_time = open_time, !.last_update_time = open_time,
                       !.end_time = end_time, !.emissions_per_second_x64 = rate]
      /\ u.amount = amount /\ u.rounded_down = 0
  BY DEF new_period
<1> HIDE DEF u, s
<1>2. /\ s \in RewardInfo /\ s.initialized = r.initialized /\ s.open_time = open_time
      /\ s.last_update_time = open_time /\ s.end_time = end_time
      /\ s.emissions_per_second_x64 = rate
      /\ s.reward_growth_global_x64 = r.reward_growth_global_x64
      /\ s.reward_total_emitted = r.reward_total_emitted /\ s.reward_claimed = r.reward_claimed
  BY <1>1 DEF RewardInfo
<1>3. amount \in Nat /\ E \in Nat /\ E <= amount * Q64
  <2>1. length \in Nat
    OBVIOUS
  <2>2. E \in Nat
    <3> HIDE DEF length
    <3> QED BY <2>1, ProductOfNat
  <2>3. amount = (E + Q64 - 1) \div Q64
    BY DEF mul_div_ceil
  <2> HIDE DEF amount, E
  <2>4. amount \in Nat /\ E <= Q64 * amount
    BY <1>0, <2>2, <2>3, CeilBounds
  <2>5. Q64 * amount = amount * Q64
    BY <1>0, <2>4
  <2> QED BY <2>2, <2>4, <2>5
<1>4. rest_of_period(s) \in Nat /\ rest_of_period(s) <= E
  <2>1. saturating_sub(s.end_time, s.last_update_time) = length
    BY <1>2 DEF saturating_sub
  <2> HIDE DEF length
  <2> QED BY <1>2, <2>1, RestType
<1> HIDE DEF amount, E
<1>5. amount * Q64 \in Nat
  BY <1>0, <1>3, ProductOfNat
<1>6. rest_of_period(s) <= amount * Q64
  <2> DEFINE x == rest_of_period(s)
             y == amount * Q64
  <2>1. x \in Nat /\ y \in Nat /\ x <= E /\ E <= y /\ E \in Nat
    BY <1>3, <1>4, <1>5
  <2> HIDE DEF x, y
  <2>2. x <= y
    BY <2>1
  <2> QED BY <2>2 DEF x, y
<1> QED BY <1>1, <1>2, <1>3, <1>4, <1>6 DEF s, u

\* An extension of a period in progress is charged what it adds to the rest,
\* but for what the two charges are rounded down by.
LEMMA ExtensionStated ==
  ASSUME NEW r \in RewardInfo, NEW rate \in Nat, NEW end_time \in Nat, NEW now \in Nat, now = time,
         now < end_time, r.end_time >= now,
         r.last_update_time = now \/ r.reward_total_emitted = U64Max
  PROVE  LET u == extension(r, rate, end_time)
         IN  /\ u.info = [r EXCEPT !.end_time = end_time, !.emissions_per_second_x64 = rate]
             /\ u.info \in RewardInfo /\ u.amount \in Nat /\ u.rounded_down \in Nat
             /\ rest_of_period(u.info) \in Nat
             /\ rest_of_period(u.info) <= rest_of_period(r) + u.amount * Q64 + u.rounded_down
<1> DEFINE u == extension(r, rate, end_time)
           s == [r EXCEPT !.end_time = end_time, !.emissions_per_second_x64 = rate]
           left == r.end_time - now
           old == r.emissions_per_second_x64
           higher == saturating_sub(rate, old)
           longer == saturating_sub(end_time, r.end_time)
           f1 == mul_div_floor(left, higher, Q64)
           f2 == mul_div_floor(longer, rate, Q64)
           m1 == (left * higher) % Q64
           m2 == (longer * rate) % Q64
           n == end_time - now
           cap == (U64Max - r.reward_total_emitted) * Q64
<1>0. /\ Q64 \in Nat /\ U64Max \in Nat
      /\ r.reward_total_emitted \in 0 .. U64Max /\ r.end_time \in Nat /\ r.last_update_time \in Nat /\ old \in Nat
  BY RewardAssumption DEF RewardInfo
<1>1. u.info = s /\ u.amount = f1 + f2 /\ u.rounded_down = m1 + m2
  BY DEF extension
<1> HIDE DEF u, f1, f2, m1, m2
<1>2. /\ s \in RewardInfo /\ s.end_time = end_time /\ s.last_update_time = r.last_update_time
      /\ s.emissions_per_second_x64 = rate /\ s.reward_total_emitted = r.reward_total_emitted
  BY DEF RewardInfo
<1> HIDE DEF s
<1>3. left \in Nat /\ longer \in Nat /\ higher \in Nat /\ n \in Nat /\ n <= left + longer
  BY <1>0 DEF saturating_sub
<1>4. rest_of_period(s) \in Nat /\ rest_of_period(r) \in Nat
  BY <1>2, RestType
<1>5. /\ rest_of_period(s) = least(saturating_sub(end_time, r.last_update_time) * rate, cap)
      /\ rest_of_period(r) = least(saturating_sub(r.end_time, r.last_update_time) * old, cap)
  BY <1>2 DEF rest_of_period
<1> HIDE DEF left, longer, higher, n, old
<1>6. /\ left * higher \in Nat /\ longer * rate \in Nat /\ n * rate \in Nat /\ left * old \in Nat
      /\ n * rate <= left * old + left * higher + longer * rate
  BY <1>0, <1>3, ExtensionArith DEF higher
<1>7. /\ f1 \in Nat /\ m1 \in Nat /\ f1 * Q64 + m1 = left * higher
      /\ f2 \in Nat /\ m2 \in Nat /\ f2 * Q64 + m2 = longer * rate
  BY <1>3, FloorAndRest DEF f1, f2, m1, m2
<1>8. (f1 + f2) * Q64 = f1 * Q64 + f2 * Q64 /\ f1 * Q64 \in Nat /\ f2 * Q64 \in Nat /\ (f1 + f2) * Q64 \in Nat
  BY <1>0, <1>7, MulParts, ProductOfNat
<1>9. cap \in Nat
  <2>1. U64Max - r.reward_total_emitted \in Nat
    BY <1>0
  <2> QED BY <1>0, <2>1, ProductOfNat
<1>10. rest_of_period(s) <= rest_of_period(r) + (f1 + f2) * Q64 + (m1 + m2)
  <2> DEFINE x == rest_of_period(s)
             y == rest_of_period(r)
             a == (f1 + f2) * Q64
             a1 == f1 * Q64
             a2 == f2 * Q64
             c1 == left * higher
             c2 == longer * rate
             c3 == n * rate
             c4 == left * old
  <2>1. /\ x \in Nat /\ y \in Nat /\ a \in Nat /\ a1 \in Nat /\ a2 \in Nat /\ c1 \in Nat /\ c2 \in Nat
        /\ c3 \in Nat /\ c4 \in Nat /\ m1 \in Nat /\ m2 \in Nat /\ cap \in Nat
        /\ c3 <= c4 + c1 + c2 /\ a = a1 + a2 /\ a1 + m1 = c1 /\ a2 + m2 = c2
    BY <1>4, <1>6, <1>7, <1>8, <1>9
  <2>2. CASE r.reward_total_emitted = U64Max
    <3>1. cap = 0
      <4>1. U64Max - r.reward_total_emitted = 0 /\ 0 * Q64 = 0
        BY <1>0, <2>2
      <4> QED BY <4>1
    <3>2. x <= 0
      <4> DEFINE k == saturating_sub(end_time, r.last_update_time) * rate
      <4>1. x = least(k, cap)
        BY <1>5
      <4>2. k \in Nat
        <5>1. saturating_sub(end_time, r.last_update_time) \in Nat
          BY <1>0 DEF saturating_sub
        <5> QED BY <5>1, ProductOfNat
      <4> HIDE DEF k, x, cap
      <4> QED BY <3>1, <4>1, <4>2 DEF least
    <3> HIDE DEF x, y, a, a1, a2, c1, c2, c3, c4, cap
    <3>3. x <= y + a + (m1 + m2)
      BY <2>1, <3>2
    <3> QED BY <3>3 DEF x, y, a
  <2>3. CASE r.last_update_time = now
    <3>1. x = least(c3, cap) /\ y = least(c4, cap)
      <4>1. saturating_sub(end_time, r.last_update_time) = n
        BY <1>0, <2>3 DEF n, saturating_sub
      <4>2. saturating_sub(r.end_time, r.last_update_time) = left
        BY <1>0, <2>3 DEF left, saturating_sub
      <4> QED BY <1>5, <4>1, <4>2
    <3> HIDE DEF x, y, a, a1, a2, c1, c2, c3, c4, cap
    <3>2. x <= y + a + (m1 + m2)
      BY <2>1, <3>1 DEF least
    <3> QED BY <3>2 DEF x, y, a
  <2> QED BY <2>2, <2>3
<1>11. f1 + f2 \in Nat /\ m1 + m2 \in Nat
  BY <1>7
<1> QED BY <1>1, <1>2, <1>4, <1>10, <1>11 DEF u, s

\* The past is settled at the old rate before the parameters change, and the
\* change is charged.
LEMMA SetParamsStep ==
  ASSUME IInv, NEW admin_operator \in BOOLEAN, NEW rate \in Rates, NEW open_time \in Times, NEW end_time \in Times,
         set_reward_params(admin_operator, rate, open_time, end_time)
  PROVE  IInv' /\ PaysOnly
<1> DEFINE r == update_reward_infos(reward)
           u == params_updated(r, admin_operator, rate, open_time, end_time)
           s == u.info
           g == r.reward_growth_global_x64
           O == Owes(position, g, outside, tick_current)
<1>0. /\ r \in RewardInfo /\ Timing(r, time) /\ Settled(r, time) /\ (~r.initialized => r = NoReward)
      /\ r.reward_claimed = reward.reward_claimed /\ g \in 0 .. (Growth - 1)
      /\ Claims(r, position, outside, tick_current)
      /\ Funded(r, position, outside, tick_current, vault, dust)
  BY CurrentFacts
<1>1. /\ outside \in Outside /\ tick_current \in Int /\ vault \in Nat /\ dust \in Nat /\ Positioned(position)
      /\ Q64 \in Nat /\ time \in Nat /\ rate \in Nat /\ open_time \in Nat /\ end_time \in Nat
  BY RewardAssumption DEF IInv, Types, Outside
<1>2. /\ reward' = s /\ tick_current' = tick_current /\ outside' = outside
      /\ position' = position /\ vault' = vault + u.amount /\ time' = time /\ dust' = dust + u.rounded_down
      /\ end_time > open_time /\ open_time > time /\ r.initialized
      /\ admin_operator \/ time > r.open_time
      /\ starts_anew(r, admin_operator) \/ r.end_time >= time
  BY DEF set_reward_params, before_update
<1>3. current = r
  BY DEF current
<1> HIDE DEF r
<1>4. /\ s \in RewardInfo /\ s.initialized /\ Timing(s, time) /\ Settled(s, time)
      /\ s.reward_growth_global_x64 = g /\ s.reward_claimed = r.reward_claimed
      /\ s.reward_total_emitted = r.reward_total_emitted
      /\ u.amount \in Nat /\ u.rounded_down \in Nat /\ rest_of_period(s) \in Nat
      /\ rest_of_period(s) <= rest_of_period(r) + u.amount * Q64 + u.rounded_down
  <2>0. rest_of_period(r) \in Nat
    BY <1>0, RestType
  <2>1. CASE starts_anew(r, admin_operator)
    <3>1. u = new_period(r, rate, open_time, end_time)
      BY <2>1 DEF params_updated
    <3> HIDE DEF u
    <3>2. /\ s \in RewardInfo /\ u.amount \in Nat /\ u.rounded_down = 0
          /\ s.initialized = r.initialized /\ s.open_time = open_time
          /\ s.last_update_time = open_time /\ s.end_time = end_time
          /\ s.reward_growth_global_x64 = g /\ s.reward_total_emitted = r.reward_total_emitted
          /\ s.reward_claimed = r.reward_claimed
          /\ rest_of_period(s) \in Nat /\ rest_of_period(s) <= u.amount * Q64
      <4>1. /\ r \in RewardInfo /\ rate \in Nat /\ open_time \in Nat /\ end_time \in Nat
            /\ open_time < end_time
        BY <1>0, <1>1, <1>2
      <4> HIDE DEF s
      <4>2. LET w == new_period(r, rate, open_time, end_time)
            IN  /\ w.info \in RewardInfo /\ w.amount \in Nat /\ w.rounded_down = 0
                /\ w.info.initialized = r.initialized /\ w.info.open_time = open_time
                /\ w.info.last_update_time = open_time /\ w.info.end_time = end_time
                /\ w.info.reward_growth_global_x64 = r.reward_growth_global_x64
                /\ w.info.reward_total_emitted = r.reward_total_emitted
                /\ w.info.reward_claimed = r.reward_claimed
                /\ rest_of_period(w.info) \in Nat
                /\ rest_of_period(w.info) <= w.amount * Q64
        BY <4>1, NewPeriodStated
      <4> QED BY <3>1, <4>2 DEF s
    <3> HIDE DEF s
    <3>3. Timing(s, time) /\ Settled(s, time)
      BY <1>1, <1>2, <3>2 DEF Timing, Settled
    <3>4. rest_of_period(s) <= rest_of_period(r) + u.amount * Q64 + u.rounded_down
      <4> DEFINE x == rest_of_period(s)
                 y == rest_of_period(r)
                 a == u.amount * Q64
                 b == u.rounded_down
      <4>1. x \in Nat /\ y \in Nat /\ a \in Nat /\ b = 0 /\ x <= a
        BY <1>1, <2>0, <3>2, ProductOfNat
      <4> HIDE DEF x, y, a, b
      <4>2. x <= y + a + b
        BY <4>1
      <4> QED BY <4>2 DEF x, y, a, b
    <3> QED BY <1>2, <3>2, <3>3, <3>4
  <2>2. CASE ~starts_anew(r, admin_operator)
    <3>1. u = extension(r, rate, end_time)
      BY <2>2 DEF params_updated
    <3> HIDE DEF u
    <3>2. r.open_time <= time /\ r.end_time >= time /\ time < end_time
      BY <1>0, <1>1, <1>2, <2>2 DEF starts_anew, RewardInfo
    <3>3. r.last_update_time = time \/ r.reward_total_emitted = U64Max
      BY <1>0, <1>1, <1>2, <3>2 DEF Settled, Timing, RewardInfo, least
    <3>4. /\ s = [r EXCEPT !.end_time = end_time, !.emissions_per_second_x64 = rate]
          /\ s \in RewardInfo /\ u.amount \in Nat /\ u.rounded_down \in Nat
          /\ rest_of_period(s) \in Nat
          /\ rest_of_period(s) <= rest_of_period(r) + u.amount * Q64 + u.rounded_down
      BY <1>0, <1>1, <3>1, <3>2, <3>3, ExtensionStated
    <3> HIDE DEF s
    <3>5. /\ s.initialized = r.initialized /\ s.open_time = r.open_time
          /\ s.last_update_time = r.last_update_time /\ s.end_time = end_time
          /\ s.reward_growth_global_x64 = g /\ s.reward_total_emitted = r.reward_total_emitted
          /\ s.reward_claimed = r.reward_claimed
      BY <1>0, <3>4 DEF RewardInfo, g
    <3>6. r.last_update_time <= time \/ r.last_update_time <= r.open_time
      BY <1>0, <1>2 DEF Timing
    <3>7. Timing(s, time)
      BY <1>0, <1>1, <1>2, <3>2, <3>5, <3>6 DEF Timing, RewardInfo
    <3>8. Settled(s, time)
      BY <1>0, <1>1, <3>2, <3>3, <3>5 DEF Settled, least, RewardInfo
    <3> QED BY <1>2, <3>4, <3>5, <3>7, <3>8
  <2> QED BY <2>1, <2>2
<1> HIDE DEF s, u
<1>5. O \in Nat /\ vault * Q64 \in Nat /\ u.amount * Q64 \in Nat /\ rest_of_period(r) \in Nat
      /\ (vault + u.amount) * Q64 = vault * Q64 + u.amount * Q64
  BY <1>0, <1>1, <1>4, ShareType, ProductOfNat, RestType, MulParts
<1>6. Claims(s, position, outside, tick_current)
  BY <1>0, <1>4 DEF Claims
<1>7. Funded(s, position, outside, tick_current, vault + u.amount, dust + u.rounded_down)
  <2> DEFINE x == rest_of_period(s)
             y == rest_of_period(r)
             v == vault * Q64
             a == u.amount * Q64
             b == u.rounded_down
             w == (vault + u.amount) * Q64
  <2>1. /\ x \in Nat /\ y \in Nat /\ v \in Nat /\ a \in Nat /\ b \in Nat /\ O \in Nat /\ dust \in Nat
        /\ w = v + a /\ x <= y + a + b
    BY <1>1, <1>4, <1>5
  <2>2. v + dust >= O + y
    BY <1>0 DEF Funded
  <2> HIDE DEF x, y, v, a, b, w, O
  <2>3. w + (dust + b) >= O + x
    BY <2>1, <2>2
  <2> QED BY <1>4, <2>3 DEF Funded, x, w, b, O
<1>8. vault + u.amount \in Nat /\ dust + u.rounded_down \in Nat
  BY <1>1, <1>4
<1>9. Restates(s)
  BY <1>0, <1>1, <1>2, <1>3, <1>4, <1>6, <1>7, <1>8 DEF Restates
<1> QED BY <1>9, RestatedStep

\* Every step but that of the clock pays at most one position.
LEMMA NextStep ==
  ASSUME IInv, Next
  PROVE  IInv' /\ (PaysOnly \/ advance_time)
<1>1. ASSUME NEW p \in Positions, NEW range \in Ranges, NEW delta \in Deltas, open_position(p, range, delta)
      PROVE  IInv' /\ PaysOnly
  BY <1>1, OpenStep
<1>2. ASSUME NEW p \in Positions, NEW delta \in Deltas, increase_liquidity(p, delta)
      PROVE  IInv' /\ PaysOnly
  BY <1>2, IncreaseStep
<1>3. ASSUME NEW p \in Positions, NEW delta \in Deltas \cup {0}, decrease_liquidity(p, delta)
      PROVE  IInv' /\ PaysOnly
  BY <1>3, DecreaseStep
<1>4. ASSUME NEW p \in Positions, close_position(p) PROVE IInv' /\ PaysOnly
  BY <1>4, CloseStep
<1>5. ASSUME NEW t \in TickRange, swap(t) PROVE IInv' /\ PaysOnly
  BY <1>5, SwapStep
<1>6. ASSUME NEW rate \in Rates, NEW open_time \in Times, NEW end_time \in Times,
             initialize_reward(rate, open_time, end_time)
      PROVE  IInv' /\ PaysOnly
  BY <1>6, InitializeStep
<1>7. ASSUME NEW admin_operator \in BOOLEAN, NEW rate \in Rates, NEW open_time \in Times,
             NEW end_time \in Times, set_reward_params(admin_operator, rate, open_time, end_time)
      PROVE  IInv' /\ PaysOnly
  BY <1>7, SetParamsStep
<1>8. CASE collect_remaining_rewards
  BY <1>8, CollectRemainingStep
<1>9. CASE update_rewards_only
  BY <1>9, UpdateOnlyStep
<1>10. ASSUME NEW s \in Statuses, update_pool_status(s) PROVE IInv' /\ PaysOnly
  BY <1>10, StatusStep
<1>11. CASE advance_time
  BY <1>11, TimeStep
<1> QED BY <1>1, <1>2, <1>3, <1>4, <1>5, <1>6, <1>7, <1>8, <1>9, <1>10, <1>11 DEF Next

\* The invariant is about the variables of the specification.
LEMMA StutterStep ==
  ASSUME IInv, UNCHANGED vars
  PROVE  IInv'
BY DEF vars, IInv, Types

(***************************************************************************)
(* What positions have earned.                                             *)
(***************************************************************************)
EarnedIsExpanded ==
  /\ earned = [p \in Positions |-> EarnedNow(p)]
  /\ \A p \in Positions : earned[p] \in Nat

\* What positions have earned, one by one.
LEMMA EarnedIsNow == IInv => EarnedIsExpanded
BY EarnedIs DEF EarnedNow, EarnedIsExpanded

\* The same in the next state.
LEMMA EarnedIsThen == IInv' => EarnedIsExpanded'
BY EarnedIsNow, PTL

\* A payment comes out of what the position paid had earned.
PaidFromEarned ==
  \A before \in {earned}, after \in {earned'} :
    LET paid == reward'.reward_claimed - reward.reward_claimed
    IN /\ \A p \in Positions : after[p] \in {before[p], before[p] - paid}
       /\ sum_over_positions(after) = sum_over_positions(before) - paid

\* A step that pays at most one position takes from what is earned what it pays.
LEMMA PaidStep ==
  ASSUME IInv, IInv', PaysOnly
  PROVE  PaidFromEarned
<1> DEFINE before == earned
           after == earned'
           paid == reward'.reward_claimed - reward.reward_claimed
<1>1. /\ before = [p \in Positions |-> EarnedNow(p)] /\ \A p \in Positions : before[p] \in Nat
      /\ \A p \in Positions : before[p] = EarnedNow(p)
  BY EarnedIsNow DEF EarnedIsExpanded
<1>2. /\ after = [p \in Positions |-> EarnedNow(p)'] /\ \A p \in Positions : after[p] \in Nat
      /\ \A p \in Positions : after[p] = EarnedNow(p)'
  BY EarnedIsThen DEF EarnedIsExpanded
<1>3. reward.reward_claimed \in Nat
  BY DEF IInv, Types, RewardInfo
<1> HIDE DEF before, after
<1>4. PICK n \in Nat :
        /\ reward'.reward_claimed = reward.reward_claimed + n
        /\ \/ n = 0 /\ \A q \in Positions : EarnedNow(q)' = EarnedNow(q)
           \/ \E p \in Positions : \A q \in Positions :
                EarnedNow(q)' = IF q = p THEN EarnedNow(q) - n ELSE EarnedNow(q)
  BY DEF PaysOnly
<1>5. paid = n
  BY <1>3, <1>4
<1>6. /\ \A p \in Positions : after[p] \in {before[p], before[p] - n}
      /\ sum_over_positions(after) = sum_over_positions(before) - n
  <2>0. sum_over_positions(before) \in Nat
    <3>1. IsFiniteSet(Positions) /\ before \in [Positions -> Nat]
      BY <1>1, RewardAssumption
    <3> QED BY <3>1, SumNat DEF sum_over_positions
  <2>1. CASE n = 0 /\ \A q \in Positions : EarnedNow(q)' = EarnedNow(q)
    <3>1. after = before
      BY <1>1, <1>2, <2>1
    <3>2. \A p \in Positions : before[p] \in Nat
      BY <1>1
    <3> QED BY <2>0, <2>1, <3>1, <3>2
  <2>2. CASE \E p \in Positions : \A q \in Positions :
               EarnedNow(q)' = IF q = p THEN EarnedNow(q) - n ELSE EarnedNow(q)
    <3>1. PICK p \in Positions : \A q \in Positions :
                 EarnedNow(q)' = IF q = p THEN EarnedNow(q) - n ELSE EarnedNow(q)
      BY <2>2
    <3>2. \A q \in Positions : after[q] = IF q = p THEN before[q] - n ELSE before[q]
      BY <1>1, <1>2, <3>1
    <3>3. /\ IsFiniteSet(Positions) /\ before \in [Positions -> Int] /\ after \in [Positions -> Int]
          /\ \A q \in Positions : before[q] \in Int /\ after[q] \in Int
          /\ \A q \in Positions : q # p => before[q] = after[q]
      BY <1>1, <1>2, <3>2, RewardAssumption
    <3>4. sum_over_positions(after) = (sum_over_positions(before) - before[p]) + after[p]
      BY <3>3, SumUpdate DEF sum_over_positions
    <3>5. after[p] = before[p] - n /\ before[p] \in Nat
      BY <1>1, <3>2
    <3> QED BY <2>0, <3>2, <3>4, <3>5
  <2> QED BY <1>4, <2>1, <2>2
<1> QED BY <1>5, <1>6 DEF PaidFromEarned, before, after

(***************************************************************************)
(* The theorems.                                                           *)
(***************************************************************************)
\* The shares of all positions stay covered by the total emitted and, with
\* the rest of the period, by the vault, whatever the funder, the
\* administrator, the swaps and the owners of positions do.
THEOREM RewardsInvariant == Spec => []IInv
<1>1. IInv /\ [Next]_vars => IInv'
  BY NextStep, StutterStep
<1> QED BY InitialInvariant, <1>1, PTL DEF Spec

\* All that positions have earned and the rest of the period is in the vault,
\* short of what set_reward_params rounded down, and
\* check_unclaimed_reward never refuses it.
THEOREM RewardsAreCovered == Spec => []RewardsCovered
BY RewardsInvariant, InvariantCovers, PTL

\* Rewards are earned by the passing of time only, whichever instruction
\* brings the reward up to date and however often; only being paid takes
\* them away.
THEOREM EarnedIsExact == Spec => EarnedExact
<1> DEFINE Exact == time' = time => PaidFromEarned
<1>1. IInv /\ IInv' /\ [Next]_vars => [Exact]_vars
  <2> SUFFICES ASSUME IInv, IInv', Next, time' = time PROVE PaidFromEarned
    OBVIOUS
  <2>1. ~advance_time
    BY DEF advance_time, IInv, Types
  <2>2. PaysOnly
    BY <2>1, NextStep
  <2> QED BY <2>2, PaidStep
<1>2. Spec => [][Exact]_vars
  BY RewardsInvariant, <1>1, PTL DEF Spec
<1> QED BY <1>2 DEF EarnedExact, PaidFromEarned
=============================================================================
