------------------------- MODULE MCAquariusStrategy -------------------------
(***************************************************************************)
(* Instances of AquariusStrategy for TLC.  The fee is 3/1000, rounded up.  *)
(***************************************************************************)
EXTENDS AquariusStrategy, TLC

CONSTANTS v1, v2, deployer, self

TwoVaults == {v1, v2}

\* The vaults play the same part in every definition.
TwoVaultSymmetry == Permutations(TwoVaults)

\* the vaults and the account that deployed the strategy
SomeAccounts == {v1, v2, deployer}

\* deposits that move a small pool, after which the pool refunds one token or the other
SomeAmounts == {11, 14}
SomeTrades == {15}
OneReward == {3}
\* the strictest minimums
NoSlippage == {0}
\* a deposit small beside the reserves, and one that is not
SmallAndLarge == {40, 4000}
HalfPercent == {50}
\* a swap that halves what the pool pays for the deposit token, or doubles it
LargeTrade == {4000}
Nothing == {}
=============================================================================
