---------------------------- MODULE MCNekoStrategy --------------------------
(***************************************************************************)
(* Instances of NekoStrategy for TLC, scaled down like MCBlendStrategy.    *)
(***************************************************************************)
EXTENDS NekoStrategy, TLC

CONSTANTS v1, v2

TwoVaults == {v1, v2}

\* The vaults play the same part in every definition.
TwoVaultSymmetry == Permutations(TwoVaults)

\* 7 is the balance of 3 b_tokens at the rate 5, and beyond what withdraw can compute with
AmountsTo4And7 == 0..4 \cup {7}

\* the b_rate starts at par and grows, for a scale of 2
Growing == {2, 3, 5}
=============================================================================
