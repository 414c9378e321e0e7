--------------------------- MODULE ConstantProduct --------------------------
(***************************************************************************)
(* A constant-product pair and its router, as the strategies that provide  *)
(* liquidity use them.  The contracts are binaries; what is modelled is    *)
(* the market soroswap_pool.rs computes with: a swap keeps the product of  *)
(* the reserves after a fee, liquidity is added in the ratio of the        *)
(* reserves and removed in proportion to the LP tokens.                    *)
(***************************************************************************)
EXTENDS FixedPoint

CONSTANTS FeeNum, FeeDen   \* the fee of a swap is FeeNum / FeeDen of what comes in

ASSUME ConstantProductAssumption ==
  FeeNum \in Nat /\ FeeDen \in Nat \ {0} /\ FeeNum < FeeDen

AfterFee(amountIn) == amountIn - MulDivCeil(amountIn, FeeNum, FeeDen)

\* what a swap of amountIn pays out of reserveOut; the router refuses to swap for nothing
SwapOut(amountIn, reserveIn, reserveOut) ==
  MulDivFloor(AfterFee(amountIn), reserveOut, reserveIn + AfterFee(amountIn))

\* the amount of the other token that matches amount, in the ratio of the reserves
Matching(amount, reserve, otherReserve) == MulDivFloor(amount, otherReserve, reserve)

\* the amounts add_liquidity transfers from the provider, when it offers a and b
Pulled(a, b, reserveA, reserveB) ==
  IF Matching(a, reserveA, reserveB) <= b THEN <<a, Matching(a, reserveA, reserveB)>>
  ELSE <<Matching(b, reserveB, reserveA), b>>

\* the LP tokens minted for amounts a and b
Liquidity(a, b, reserveA, reserveB, totalLp) ==
  LET forA == MulDivFloor(a, totalLp, reserveA)
      forB == MulDivFloor(b, totalLp, reserveB)
  IN  IF forA <= forB THEN forA ELSE forB

\* the part of a reserve that lp LP tokens redeem
Redeemed(lp, reserve, totalLp) == MulDivFloor(lp, reserve, totalLp)
=============================================================================
