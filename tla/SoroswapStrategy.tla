-------------------------- MODULE SoroswapStrategy --------------------------
(***************************************************************************)
(* The strategy-soroswap contract: vaults deposit token_a, the strategy    *)
(* swaps half of it for token_b, provides both to a Soroswap pair, and     *)
(* attributes the LP tokens to the vaults.                                 *)
(*                                                                         *)
(* As in strategy-neko a vault first transfers the amount to the strategy, *)
(* then calls deposit, and the contract does not check that it did: a      *)
(* deposit for any vault may use whatever token_a the strategy holds.  A   *)
(* call is one action and one that fails changes nothing; inside a call    *)
(* the pair moves with every step the strategy takes, and between two      *)
(* calls other traders move it.  harvest and balance change no state.      *)
(***************************************************************************)
EXTENDS ConstantProduct, FiniteSets, Functions

CONSTANTS
  Vaults,      \* the DeFindex vaults that share the strategy
  Amounts,     \* amounts a vault transfers, deposits and withdraws
  Trades,      \* amounts other traders swap, in either direction
  ReserveA,    \* the pair's reserves and LP supply before the first deposit,
  ReserveB,    \*   all owned by other providers
  OtherLp,
  Endowment,   \* token_a each vault starts with
  MaxTrades    \* bound on the number of other traders' swaps

ASSUME SoroswapStrategyAssumption ==
  /\ IsFiniteSet(Vaults)
  /\ Amounts \subseteq Nat
  /\ Trades \subseteq Nat
  /\ ReserveA \in Nat \ {0} /\ ReserveB \in Nat \ {0} /\ OtherLp \in Nat \ {0}
  /\ Endowment \in Nat
  /\ MaxTrades \in Nat

VARIABLES
  lpTokens,   \* storage: StorageKey::LpTokens(v) for every vault v
  heldA,      \* token_a held by the strategy
  heldB,      \* token_b held by the strategy
  wallet,     \* wallet[v]: token_a held by v
  reserveA,   \* the pair's reserves ...
  reserveB,
  totalLp,    \* ... its LP supply ...
  strategyLp, \* ... and the strategy's balance of it
  trades      \* swaps of other traders so far

market == <<reserveA, reserveB, totalLp, strategyLp>>
vars == <<lpTokens, heldA, heldB, wallet, market, trades>>

TypeOK ==
  /\ lpTokens \in [Vaults -> Nat]
  /\ heldA \in Nat
  /\ heldB \in Nat
  /\ wallet \in [Vaults -> Nat]
  /\ reserveA \in Nat \ {0}
  /\ reserveB \in Nat \ {0}
  /\ totalLp \in Nat \ {0}
  /\ strategyLp \in 0..totalLp - 1
  /\ trades \in 0..MaxTrades

Init ==
  /\ lpTokens = [v \in Vaults |-> 0]
  /\ heldA = 0
  /\ heldB = 0
  /\ wallet = [v \in Vaults |-> Endowment]
  /\ reserveA = ReserveA
  /\ reserveB = ReserveB
  /\ totalLp = OtherLp
  /\ strategyLp = 0
  /\ trades = 0

-----------------------------------------------------------------------------
(* The valuation. *)

\* Mutant of the next definition: rounded up, so that parts are worth more than the whole.
OrZeroRoundedUp(x, y, z) == IF MulDivFits(x, y, z) THEN MulDivCeil(x, y, z) ELSE 0

\* checked_mul, unwrap_or(0), checked_div, unwrap_or(0): an overflow reads as 0.  What is
\* added below is then at most MaxI128 \div totalLp and MaxI128 \div reserveB: with two LP
\* tokens or more the sum itself never overflows.
OrZero(x, y, z) == IF MulDivFits(x, y, z) THEN MulDivFloor(x, y, z) ELSE 0

LpValueInA(lp) ==
  IF lp = 0 THEN 0
  ELSE OrZero(reserveA, lp, totalLp) +
         OrZero(OrZero(reserveB, lp, totalLp), reserveA, reserveB)

Balance(v) == LpValueInA(lpTokens[v])

-----------------------------------------------------------------------------
(* deposit: swap half, then add liquidity at the ratio the swap has left. *)

SwapAmount(amount) == amount \div 2
RemainingA(amount) == amount - SwapAmount(amount)
BReceived(amount) == SwapOut(SwapAmount(amount), reserveA, reserveB)

\* the reserves after the swap
AfterSwapA(amount) == reserveA + SwapAmount(amount)
AfterSwapB(amount) == reserveB - BReceived(amount)

BOptimal(amount) == OrZero(RemainingA(amount), AfterSwapB(amount), AfterSwapA(amount))
BToAdd(amount) ==
  IF BOptimal(amount) <= BReceived(amount) THEN BOptimal(amount) ELSE BReceived(amount)

\* The transfers the strategy has authorised are those the router makes.
Authorised(amount) ==
  Pulled(RemainingA(amount), BToAdd(amount), AfterSwapA(amount), AfterSwapB(amount))
    = <<RemainingA(amount), BToAdd(amount)>>

LpMinted(amount) ==
  Liquidity(RemainingA(amount), BToAdd(amount), AfterSwapA(amount), AfterSwapB(amount), totalLp)

\* Mutant of the next definition: the vault is attributed the strategy's whole balance of LP.
TotalLpReturned(amount) == strategyLp + LpMinted(amount)

\* lp_after - lp_before
LpReturned(amount) == LpMinted(amount)

SwapOk(amount) == SwapAmount(amount) > 0 /\ BReceived(amount) > 0

\* deposit(amount, v); the amount comes out of what the strategy holds, whoever sent it
DepositCall(v, amount) ==
  /\ amount > 0
  /\ amount <= heldA
  /\ SwapOk(amount)
  /\ Authorised(amount)
  /\ LpMinted(amount) > 0
  /\ AddFits(lpTokens[v], LpReturned(amount))
  /\ lpTokens' = [lpTokens EXCEPT ![v] = @ + LpReturned(amount)]
  /\ heldA' = heldA - amount
  /\ heldB' = heldB + BReceived(amount) - BToAdd(amount)
  /\ reserveA' = AfterSwapA(amount) + RemainingA(amount)
  /\ reserveB' = AfterSwapB(amount) + BToAdd(amount)
  /\ totalLp' = totalLp + LpMinted(amount)
  /\ strategyLp' = strategyLp + LpMinted(amount)
  /\ UNCHANGED <<wallet, trades>>

Deposit(v) == \E amount \in Amounts : DepositCall(v, amount)

-----------------------------------------------------------------------------
(* withdraw: burn in proportion to the value, swap token_b back. *)

\* Mutant of the next definition: asking for more than the value burns more than the vault has.
LpToBurnUncapped(v, amount) == MulDivFloor(lpTokens[v], amount, Balance(v))

LpToBurn(v, amount) ==
  IF amount >= Balance(v) THEN lpTokens[v] ELSE MulDivFloor(lpTokens[v], amount, Balance(v))

AOut(lp) == Redeemed(lp, reserveA, totalLp)
BOut(lp) == Redeemed(lp, reserveB, totalLp)

\* what the router pays for the redeemed token_b, at the reserves the redemption has left
SwappedBack(lp) ==
  IF BOut(lp) = 0 THEN 0 ELSE SwapOut(BOut(lp), reserveB - BOut(lp), reserveA - AOut(lp))

\* Mutant of the next definition: what the swap returned is not forwarded.
TotalAWithoutSwap(lp) == AOut(lp)

TotalA(lp) == AOut(lp) + SwappedBack(lp)

WithdrawOk(v, amount) ==
  /\ amount > 0
  /\ lpTokens[v] # 0
  /\ Balance(v) # 0
  /\ amount < Balance(v) => lpTokens[v] * amount <= MaxI128
  /\ LpToBurn(v, amount) # 0
  /\ LpToBurn(v, amount) <= strategyLp
  /\ LET lp == LpToBurn(v, amount)
     IN  BOut(lp) > 0 => SwappedBack(lp) > 0

\* withdraw(amount, v, to)
WithdrawCall(v, to, amount) ==
  LET lp == LpToBurn(v, amount)
  IN  /\ WithdrawOk(v, amount)
      /\ lpTokens' = [lpTokens EXCEPT ![v] = @ - lp]
      /\ heldA' = heldA + AOut(lp) + SwappedBack(lp) - TotalA(lp)
      /\ wallet' = [wallet EXCEPT ![to] = @ + TotalA(lp)]
      /\ reserveA' = reserveA - AOut(lp) - SwappedBack(lp)
      /\ reserveB' = reserveB            \* token_b redeemed is swapped back in
      /\ totalLp' = totalLp - lp
      /\ strategyLp' = strategyLp - lp
      /\ UNCHANGED <<heldB, trades>>

Withdraw(v) == \E to \in Vaults, amount \in Amounts : WithdrawCall(v, to, amount)

-----------------------------------------------------------------------------
(* Around the contract. *)

\* token_a.transfer(vault, strategy, amount), the pre-condition of deposit
Transfer(v) ==
  \E amount \in Amounts \ {0} :
    /\ amount <= wallet[v]
    /\ wallet' = [wallet EXCEPT ![v] = @ - amount]
    /\ heldA' = heldA + amount
    /\ UNCHANGED <<lpTokens, heldB, market, trades>>

\* somebody else swaps
Trade(amount) ==
  /\ trades < MaxTrades
  /\ trades' = trades + 1
  /\ \/ /\ reserveA' = reserveA + amount
        /\ reserveB' = reserveB - SwapOut(amount, reserveA, reserveB)
        /\ reserveB' < reserveB
     \/ /\ reserveB' = reserveB + amount
        /\ reserveA' = reserveA - SwapOut(amount, reserveB, reserveA)
        /\ reserveA' < reserveA
  /\ UNCHANGED <<lpTokens, heldA, heldB, wallet, totalLp, strategyLp>>

Next ==
  \/ \E v \in Vaults : Transfer(v) \/ Deposit(v) \/ Withdraw(v)
  \/ \E amount \in Trades : Trade(amount)

Spec == Init /\ [][Next]_vars

-----------------------------------------------------------------------------
(* Properties. *)

\* The LP tokens attributed to the vaults are the LP tokens the strategy holds: deposits
\* attribute what they minted, never what was there before, and a withdrawal burns its own.
AttributionExact == SumFunction(lpTokens) = strategyLp

\* The strategy's LP tokens, valued as one holding.
PositionInA ==
  MulDivFloor(reserveA, strategyLp, totalLp)
    + MulDivFloor(MulDivFloor(reserveB, strategyLp, totalLp), reserveA, reserveB)

\* What balance() tells all the vaults together is within the valuation of the LP tokens the
\* strategy holds, wherever deposits, withdrawals and other traders have moved the pair.
Solvent == SumFunction([v \in Vaults |-> Balance(v)]) <= PositionInA

\* No product of the valuation of v's LP tokens overflows.
ValuationFits(v) ==
  /\ reserveA * lpTokens[v] <= MaxI128
  /\ reserveB * lpTokens[v] <= MaxI128
  /\ MulDivFloor(reserveB, lpTokens[v], totalLp) * reserveA <= MaxI128

\* What swapping back the token_b that lp LP tokens redeem costs, at the price of before: the
\* fee and the unit of token_b that redeeming rounds off, and the impact on the price.
SwapCost(lp) ==
  MulDivCeil(BOut(lp) - AfterFee(BOut(lp)) + 1, reserveA, reserveB)
    + MulDivCeil(BOut(lp), AOut(lp), reserveB)

\* A withdrawal pays what was asked, or the balance if that is less, but for the cost of the swap
\* back, the worth of the LP token the burn rounds off, and a unit.  A vault that asks for less
\* than its balance is not paid more either, but for the unit that its balance is rounded down
\* by; one that asks for its balance or more gives up all of its LP tokens.  Where the valuation
\* has overflowed, the balance is less than the LP tokens are worth and the burn for a part of
\* it larger: the vault is then paid more than it asked, never less.
PaidAsAsked ==
  \A v \in Vaults, amount \in Amounts :
    WithdrawOk(v, amount) =>
      LET lp   == LpToBurn(v, amount)
          paid == TotalA(lp)
      IN  IF amount < Balance(v)
          THEN /\ amount <= paid + SwapCost(lp) + MulDivCeil(2, reserveA, totalLp) + 1
               /\ ValuationFits(v) => paid <= amount + 1
          ELSE /\ lp = lpTokens[v]
               /\ Balance(v) <= paid + SwapCost(lp) + 1

\* What a deposit is credited is worth, at the reserves it leaves behind, at most what the vault
\* put in (the odd unit is on the side that is not swapped): swap, fee and leftovers are paid
\* by the depositor, never by the vaults that are there.
DepositNotOvervalued ==
  \A amount \in Amounts :
    SwapOk(amount) /\ Authorised(amount) /\ LpMinted(amount) > 0 =>
      LET a  == AfterSwapA(amount) + RemainingA(amount)
          b  == AfterSwapB(amount) + BToAdd(amount)
          lp == totalLp + LpMinted(amount)
          inA == MulDivFloor(LpReturned(amount), a, lp)
          inB == MulDivFloor(LpReturned(amount), b, lp)
      IN  inA + MulDivFloor(inB, a, b) <= 2 * RemainingA(amount)

FairShares == INSTANCE ShareLedger WITH
  Holders <- Vaults, claims <- lpTokens, issued <- SumFunction(lpTokens), assets <- strategyLp

\* The attribution is a share ledger whose claims are the pair's LP tokens themselves.
ImplementsShareLedger == FairShares!Spec

\* storage.rs of token_b: "Held transiently during deposit/withdraw."
HeldTransiently == heldB = 0

\* soroswap_pool.rs of add_liquidity: "Pre-authorize with the exact amount the router will
\* pull." (for every deposit a vault can make next)
ExactPreauthorisation ==
  \A amount \in Amounts :
    amount <= heldA /\ SwapOk(amount) => Authorised(amount)
=============================================================================
