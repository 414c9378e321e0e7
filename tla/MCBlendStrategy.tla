--------------------------- MODULE MCBlendStrategy --------------------------
(***************************************************************************)
(* Instances of BlendStrategy for TLC.  The scale and the locked shares    *)
(* are small so that every rounding case is reached with small amounts:    *)
(* what matters is the order SCALAR_12 <=> b_rate and total_shares <=>     *)
(* total_b_tokens, and remainders of every size in the divisions.          *)
(***************************************************************************)
EXTENDS BlendStrategy, TLC

CONSTANTS v1, v2, v3, k1, k2

TwoVaults == {v1, v2}
ThreeVaults == {v1, v2, v3}
OneKeeper == {k1}
TwoKeepers == {k1, k2}

\* The vaults play the same part in every definition; not used where liveness is checked.
ThreeVaultSymmetry == Permutations(ThreeVaults)

\* every balance there can be in the run that checks liveness, among them
AmountsTo30 == 0..30
SomeAmounts == {1, 3, 4}

\* b_rates at par and above, for a scale of 2
Growing == {2, 3, 5}
\* b_rates below par, at par and above, for a scale of 3
AroundPar == {2, 3, 5}

Outs == {1, 3}
Minimums == {0, 2}
Emissions == {1, 2}
OneEmission == {2}
=============================================================================
