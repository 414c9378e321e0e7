----------------------------- MODULE ShareLedger ----------------------------
(***************************************************************************)
(* What a strategy promises the vaults that share it, whatever market it   *)
(* invests in.  A holder owns claims on a common pot of assets.  Joining   *)
(* pays at least the current price for the claims issued, leaving takes at *)
(* most the current price for the claims given up, yield raises assets and *)
(* touches nobody's claims.  The price of a claim is assets / issued; the  *)
(* comparisons are cross-multiplied, so no rounding is hidden in them.     *)
(***************************************************************************)
EXTENDS Integers, Functions

CONSTANT Holders

VARIABLES
  claims,   \* claims[h]: the claims holder h can redeem
  issued,   \* every claim issued and not given up, those locked away included
  assets    \* the units of the market the claims are redeemed in

ledger == <<claims, issued, assets>>

Init == /\ claims = [h \in Holders |-> 0]
        /\ issued = 0
        /\ assets = 0

\* Nobody's claims but h's change.
OnlyClaimsOf(h) == \A g \in Holders \ {h} : claims'[g] = claims[g]

\* h pays for new claims; part of what is issued may be locked away from everybody.
\* While nothing is issued the pot is nobody's, and there is no price to be fair to.
Join(h) ==
  /\ OnlyClaimsOf(h)
  /\ claims'[h] > claims[h]
  /\ assets' > assets
  /\ issued' - issued >= claims'[h] - claims[h]
  /\ issued > 0 => (assets' - assets) * issued >= (issued' - issued) * assets

\* h gives up claims it has for assets.
Leave(h) ==
  /\ OnlyClaimsOf(h)
  /\ claims'[h] < claims[h]
  /\ claims'[h] >= 0
  /\ assets' < assets
  /\ issued - issued' = claims[h] - claims'[h]
  /\ (assets - assets') * issued <= (issued - issued') * assets

Yield == /\ assets' > assets
         /\ UNCHANGED <<claims, issued>>

Next == Yield \/ \E h \in Holders : Join(h) \/ Leave(h)

Spec == Init /\ [][Next]_ledger
=============================================================================
