-------------------------- MODULE MCSoroswapStrategy ------------------------
(***************************************************************************)
(* Instances of SoroswapStrategy for TLC.  The fee is the pair's, 3/1000   *)
(* rounded up.                                                             *)
(***************************************************************************)
EXTENDS SoroswapStrategy, TLC

CONSTANTS v1, v2

TwoVaults == {v1, v2}

\* The vaults play the same part in every definition.
TwoVaultSymmetry == Permutations(TwoVaults)

\* deposits that move a small pair: some leave token_b over, some are refused
SomeAmounts == {7, 16}
SomeTrades == {20}
\* a deposit small beside the reserves, and one that is not
SmallAndLarge == {40, 4000}
NoTrades == {}
=============================================================================
