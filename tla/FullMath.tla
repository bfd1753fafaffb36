------------------------------ MODULE FullMath ------------------------------
(***************************************************************************)
(* The integer arithmetic of programs/amm/src/libraries/full_math.rs and   *)
(* unsafe_math.rs.  The products are computed at full width there, so      *)
(* unbounded integers are exact.                                           *)
(***************************************************************************)
EXTENDS Integers

mul_div_floor(a, b, d) == (a * b) \div d
mul_div_ceil(a, b, d) == (a * b + d - 1) \div d
div_rounding_up(a, d) == (a + d - 1) \div d

saturating_sub(a, b) == IF a >= b THEN a - b ELSE 0
least(a, b) == IF a <= b THEN a ELSE b
=============================================================================
