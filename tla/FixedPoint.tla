----------------------------- MODULE FixedPoint -----------------------------
(***************************************************************************)
(* The i128 fixed-point arithmetic every strategy computes with.           *)
(*                                                                         *)
(* strategy-blend calls soroban_fixed_point_math (fixed_mul_floor,         *)
(* fixed_mul_ceil, fixed_div_floor); strategy-neko writes the same         *)
(* computations out with checked_mul, checked_add and checked_div.  All of *)
(* them multiply first, in 128 bits, and divide after: the product can     *)
(* overflow where the quotient would not, and the call then returns None.  *)
(* Values here are the non-negative amounts the strategies handle.         *)
(***************************************************************************)
EXTENDS Integers

CONSTANT MaxI128   \* i128::MAX; a run gives it a small value, so that products do overflow

ASSUME MaxI128Assumption == MaxI128 \in Nat \ {0}

\* checked_add returns Some
AddFits(x, y) == x + y <= MaxI128

\* x.fixed_mul_floor(y, z) and x.fixed_mul_ceil(y, z) return Some
MulDivFits(x, y, z) == z > 0 /\ x * y <= MaxI128

\* x.fixed_mul_floor(y, z), and x.fixed_div_floor(z, y) with the roles of y and z swapped
MulDivFloor(x, y, z) == (x * y) \div z

\* x.fixed_mul_ceil(y, z)
MulDivCeil(x, y, z) == (x * y + z - 1) \div z

=============================================================================
