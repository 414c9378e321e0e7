--------------------------- MODULE MCVaultStorage ---------------------------
(***************************************************************************)
(* Instances of VaultStorage for TLC.  Lifetimes are a few ledgers long;   *)
(* what matters is their order.                                            *)
(***************************************************************************)
EXTENDS VaultStorage, TLC

CONSTANTS v1, v2

TwoVaults == {v1, v2}

\* The vaults play the same part in every definition; used in the run without liveness.
TwoVaultSymmetry == Permutations(TwoVaults)
=============================================================================
