--------------------------- MODULE MCBlendStorage ---------------------------
(***************************************************************************)
(* Instances of BlendStorage for TLC.  Lifetimes are a few ledgers long;   *)
(* what matters is their order.                                            *)
(***************************************************************************)
EXTENDS BlendStorage

CONSTANTS v1, v2

TwoVaults == {v1, v2}
=============================================================================
