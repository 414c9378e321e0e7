------------------------ MODULE SoroswapStrategyProofs ----------------------
(***************************************************************************)
(* strategy-soroswap attributes its LP tokens exactly, values them within  *)
(* what it holds and pays its vaults what they ask for, but for the cost   *)
(* of the swap back, for every set of vaults, every amount, every fee, and *)
(* whatever other traders do to the pair.                                  *)
(***************************************************************************)
EXTENDS SoroswapStrategy, ConstantProductTheorems

Attribution == TypeOK /\ AttributionExact

-----------------------------------------------------------------------------
(* What a deposit does to the pair, and what a withdrawal burns and pays. *)

LEMMA DepositMoves ==
  ASSUME TypeOK, NEW amount \in Nat
  PROVE  /\ RemainingA(amount) \in Nat
         /\ AfterSwapA(amount) \in Nat \ {0} /\ AfterSwapB(amount) \in Nat \ {0}
         /\ BReceived(amount) \in Nat
         /\ BToAdd(amount) \in Nat /\ BToAdd(amount) <= BReceived(amount)
         /\ LpMinted(amount) \in Nat
<1> DEFINE swap == SwapAmount(amount)
<1>1. swap \in Nat /\ RemainingA(amount) \in Nat
  BY DEF SwapAmount, RemainingA
<1>2. /\ reserveA \in Nat \ {0} /\ reserveB \in Nat \ {0} /\ totalLp \in Nat \ {0}
  BY DEF TypeOK
<1>3. BReceived(amount) \in Nat /\ BReceived(amount) < reserveB
  BY <1>1, <1>2, SwapBounds DEF BReceived
<1>4. AfterSwapA(amount) \in Nat \ {0} /\ AfterSwapB(amount) \in Nat \ {0}
  BY <1>1, <1>2, <1>3 DEF AfterSwapA, AfterSwapB
<1>5. BOptimal(amount) \in Nat
  BY <1>1, <1>4, FloorBounds DEF BOptimal, OrZero
<1>6. BToAdd(amount) \in Nat /\ BToAdd(amount) <= BReceived(amount)
  BY <1>3, <1>5 DEF BToAdd
<1>7. LpMinted(amount) \in Nat
  BY <1>1, <1>2, <1>4, <1>6, LiquidityIsNatural DEF LpMinted
<1> QED
  BY <1>1, <1>3, <1>4, <1>6, <1>7

\* A balance is at most what the vault's LP tokens are worth, whichever of its products overflow.
LEMMA BalanceWithinValuation ==
  ASSUME TypeOK, NEW v \in Vaults
  PROVE  /\ Balance(v) \in Nat
         /\ Balance(v) <= MulDivFloor(reserveA, lpTokens[v], totalLp)
              + MulDivFloor(MulDivFloor(reserveB, lpTokens[v], totalLp), reserveA, reserveB)
<1> DEFINE inA == MulDivFloor(reserveA, lpTokens[v], totalLp)
           inB == MulDivFloor(reserveB, lpTokens[v], totalLp)
<1>1. /\ lpTokens[v] \in Nat /\ reserveA \in Nat \ {0} /\ reserveB \in Nat \ {0}
      /\ totalLp \in Nat \ {0}
  BY DEF TypeOK
<1>2. inA \in Nat /\ inB \in Nat /\ MulDivFloor(inB, reserveA, reserveB) \in Nat
  <2>1. inA \in Nat /\ inB \in Nat
    BY <1>1, FloorBounds
  <2> HIDE DEF inB
  <2>2. MulDivFloor(inB, reserveA, reserveB) \in Nat
    BY <1>1, <2>1, FloorBounds
  <2> QED
    BY <2>1, <2>2
<1>3. MulDivFloor(0, reserveA, reserveB) = 0
  BY <1>1, ZeroIsZero
<1>4. /\ OrZero(reserveA, lpTokens[v], totalLp) \in {0, inA}
      /\ OrZero(reserveB, lpTokens[v], totalLp) \in {0, inB}
  BY DEF OrZero
<1>5. \A x \in {0, inB} :
        OrZero(x, reserveA, reserveB) \in {0, MulDivFloor(inB, reserveA, reserveB)}
  BY <1>3 DEF OrZero
<1> QED
  BY <1>2, <1>4, <1>5 DEF Balance, LpValueInA

\* A withdrawal burns LP tokens of the vault's own.
LEMMA WithdrawBurns ==
  ASSUME TypeOK, NEW v \in Vaults, NEW amount \in Nat, WithdrawOk(v, amount)
  PROVE  /\ LpToBurn(v, amount) \in Nat \ {0}
         /\ LpToBurn(v, amount) <= lpTokens[v]
         /\ LpToBurn(v, amount) <= strategyLp
         /\ lpTokens[v] \in Nat
<1> DEFINE own   == lpTokens[v]
           value == Balance(v)
           q     == MulDivFloor(own, amount, value)
<1>1. own \in Nat /\ value \in Nat \ {0}
  BY BalanceWithinValuation DEF TypeOK, WithdrawOk
<1>2. /\ LpToBurn(v, amount) = (IF amount >= value THEN own ELSE q)
      /\ LpToBurn(v, amount) # 0 /\ LpToBurn(v, amount) <= strategyLp
  BY DEF LpToBurn, WithdrawOk
<1> HIDE DEF own, value
<1>3. q \in Nat /\ q * value <= own * amount
  BY <1>1, FloorBounds
<1> HIDE DEF q
<1>4. amount < value => q <= own
  <2> SUFFICES ASSUME amount < value
               PROVE  q <= own
    OBVIOUS
  <2>1. own * amount <= own * value
    BY <1>1
  <2>2. q * value \in Int /\ own * amount \in Int /\ own * value \in Int
    BY <1>1, <1>3
  <2>3. q * value <= own * value
    BY <1>3, <2>1, <2>2
  <2> QED
    BY <1>1, <1>3, <2>3, CancelFactor
<1> QED
  BY <1>1, <1>2, <1>3, <1>4 DEF own

\* It redeems less than the reserves: other providers' LP tokens stay.
LEMMA WithdrawPays ==
  ASSUME TypeOK, NEW lp \in Nat, lp <= strategyLp
  PROVE  /\ AOut(lp) \in Nat /\ SwappedBack(lp) \in Nat
         /\ TotalA(lp) = AOut(lp) + SwappedBack(lp)
         /\ reserveA - AOut(lp) - SwappedBack(lp) \in Nat \ {0}
<1>1. /\ reserveA \in Nat \ {0} /\ reserveB \in Nat \ {0} /\ totalLp \in Nat
      /\ lp < totalLp
  BY DEF TypeOK
<1>2. /\ AOut(lp) \in Nat /\ AOut(lp) < reserveA
      /\ BOut(lp) \in Nat /\ BOut(lp) < reserveB
  BY <1>1, RedeemBounds DEF AOut, BOut
<1>3. reserveA - AOut(lp) \in Nat \ {0} /\ reserveB - BOut(lp) \in Nat \ {0}
  BY <1>1, <1>2
<1>4. SwappedBack(lp) \in Nat /\ SwappedBack(lp) < reserveA - AOut(lp)
  <2>1. CASE BOut(lp) = 0
    BY <1>3, <2>1 DEF SwappedBack
  <2>2. CASE BOut(lp) # 0
    BY <1>2, <1>3, <2>2, SwapBounds DEF SwappedBack
  <2> QED
    BY <2>1, <2>2
<1> QED
  BY <1>1, <1>2, <1>3, <1>4 DEF TotalA

-----------------------------------------------------------------------------
(* The inductive invariant, action by action. *)

LEMMA DepositAttributes ==
  ASSUME Attribution, NEW v \in Vaults, NEW amount \in Amounts, DepositCall(v, amount)
  PROVE  Attribution'
<1> DEFINE minted == LpMinted(amount)
           got    == BReceived(amount)
           added  == BToAdd(amount)
<1>1. TypeOK /\ AttributionExact /\ amount \in Nat
  BY SoroswapStrategyAssumption DEF Attribution
<1>2. /\ minted \in Nat /\ got \in Nat /\ added \in Nat /\ added <= got
      /\ RemainingA(amount) \in Nat
      /\ AfterSwapA(amount) \in Nat \ {0} /\ AfterSwapB(amount) \in Nat \ {0}
  BY <1>1, DepositMoves
<1>3. /\ amount <= heldA
      /\ lpTokens' = [lpTokens EXCEPT ![v] = @ + minted]
      /\ heldA' = heldA - amount
      /\ heldB' = heldB + got - added
      /\ reserveA' = AfterSwapA(amount) + RemainingA(amount)
      /\ reserveB' = AfterSwapB(amount) + added
      /\ totalLp' = totalLp + minted /\ strategyLp' = strategyLp + minted
      /\ wallet' = wallet /\ trades' = trades
  BY <1>1 DEF DepositCall, LpReturned, TypeOK
<1> HIDE DEF minted, got, added
<1>4. /\ lpTokens \in [Vaults -> Nat] /\ lpTokens[v] \in Nat /\ heldA \in Nat
      /\ heldB \in Nat /\ totalLp \in Nat \ {0} /\ strategyLp \in 0..totalLp - 1
  BY <1>1 DEF TypeOK
<1>5. /\ lpTokens' \in [Vaults -> Nat]
      /\ SumFunction(lpTokens') = SumFunction(lpTokens) + minted
  <2>1. /\ lpTokens' \in [Vaults -> Nat] /\ lpTokens'[v] = lpTokens[v] + minted
        /\ \A u \in Vaults \ {v} : lpTokens'[u] = lpTokens[u]
        /\ IsFiniteSet(Vaults) /\ lpTokens \in [Vaults -> Nat] /\ minted \in Nat
    BY <1>2, <1>3, <1>4, SoroswapStrategyAssumption
  <2> QED
    BY <2>1, SumChanges
<1>6. heldA' \in Nat /\ heldB' \in Nat
  BY <1>1, <1>2, <1>3, <1>4
<1>7. reserveA' \in Nat \ {0} /\ reserveB' \in Nat \ {0}
  BY <1>2, <1>3
<1>8. totalLp' \in Nat \ {0} /\ strategyLp' \in 0..totalLp' - 1
  BY <1>2, <1>3, <1>4
<1>9. TypeOK'
  BY <1>1, <1>3, <1>5, <1>6, <1>7, <1>8 DEF TypeOK
<1>10. AttributionExact'
  BY <1>1, <1>3, <1>5 DEF AttributionExact
<1> QED
  BY <1>9, <1>10 DEF Attribution

LEMMA WithdrawAttributes ==
  ASSUME Attribution, NEW v \in Vaults, NEW to \in Vaults, NEW amount \in Amounts,
         WithdrawCall(v, to, amount)
  PROVE  Attribution'
<1> DEFINE burnt == LpToBurn(v, amount)
           out   == AOut(burnt)
           back  == SwappedBack(burnt)
           paid  == TotalA(burnt)
<1>1. TypeOK /\ AttributionExact /\ amount \in Nat
  BY SoroswapStrategyAssumption DEF Attribution
<1>2. burnt \in Nat /\ burnt <= lpTokens[v] /\ burnt <= strategyLp /\ lpTokens[v] \in Nat
  BY <1>1, WithdrawBurns DEF WithdrawCall
<1>3. /\ out \in Nat /\ back \in Nat /\ paid = out + back
      /\ reserveA - out - back \in Nat \ {0}
  BY <1>1, <1>2, WithdrawPays
<1>4. /\ lpTokens' = [lpTokens EXCEPT ![v] = @ - burnt]
      /\ heldA' = heldA + out + back - paid
      /\ wallet' = [wallet EXCEPT ![to] = @ + paid]
      /\ reserveA' = reserveA - out - back /\ reserveB' = reserveB
      /\ totalLp' = totalLp - burnt /\ strategyLp' = strategyLp - burnt
      /\ heldB' = heldB /\ trades' = trades
  BY DEF WithdrawCall
<1> HIDE DEF burnt, out, back, paid
<1>5. /\ lpTokens \in [Vaults -> Nat] /\ heldA \in Nat /\ wallet \in [Vaults -> Nat]
      /\ totalLp \in Nat \ {0} /\ strategyLp \in 0..totalLp - 1
  BY <1>1 DEF TypeOK
<1>6. /\ lpTokens' \in [Vaults -> Nat]
      /\ SumFunction(lpTokens') = SumFunction(lpTokens) - burnt
  <2>1. /\ lpTokens' \in [Vaults -> Nat] /\ lpTokens'[v] = lpTokens[v] - burnt
        /\ \A u \in Vaults \ {v} : lpTokens'[u] = lpTokens[u]
        /\ IsFiniteSet(Vaults) /\ lpTokens \in [Vaults -> Nat] /\ burnt \in Nat
    BY <1>2, <1>4, <1>5, SoroswapStrategyAssumption
  <2> QED
    BY <2>1, SumChanges
<1>7. heldA' = heldA
  BY <1>3, <1>4, <1>5
<1>8. totalLp' \in Nat \ {0} /\ strategyLp' \in 0..totalLp' - 1
  BY <1>2, <1>4, <1>5
<1>9. wallet' \in [Vaults -> Nat]
  <2>1. paid \in Nat /\ wallet[to] \in Nat
    BY <1>3, <1>5
  <2> QED
    BY <1>4, <1>5, <2>1
<1>10. TypeOK'
  BY <1>1, <1>3, <1>4, <1>6, <1>7, <1>8, <1>9 DEF TypeOK
<1>11. AttributionExact'
  BY <1>1, <1>4, <1>6 DEF AttributionExact
<1> QED
  BY <1>10, <1>11 DEF Attribution

LEMMA TransferAttributes ==
  ASSUME Attribution, NEW v \in Vaults, Transfer(v)
  PROVE  Attribution'
<1>1. PICK amount \in Amounts \ {0} :
        /\ amount <= wallet[v]
        /\ wallet' = [wallet EXCEPT ![v] = @ - amount]
        /\ heldA' = heldA + amount
        /\ UNCHANGED <<lpTokens, heldB, market, trades>>
  BY DEF Transfer
<1>2. amount \in Nat /\ heldA \in Nat /\ wallet \in [Vaults -> Nat]
  BY SoroswapStrategyAssumption DEF Attribution, TypeOK
<1> QED
  BY <1>1, <1>2 DEF Attribution, TypeOK, AttributionExact, market

\* Other traders move the reserves and cannot empty them.
LEMMA TradesAttribute ==
  ASSUME Attribution, NEW amount \in Trades, Trade(amount)
  PROVE  Attribution'
<1>1. TypeOK /\ AttributionExact /\ amount \in Nat
  BY SoroswapStrategyAssumption DEF Attribution
<1>2. /\ reserveA \in Nat \ {0} /\ reserveB \in Nat \ {0} /\ trades \in 0..MaxTrades
      /\ MaxTrades \in Nat
  BY <1>1, SoroswapStrategyAssumption DEF TypeOK
<1>3. /\ SwapOut(amount, reserveA, reserveB) \in 0..reserveB - 1
      /\ SwapOut(amount, reserveB, reserveA) \in 0..reserveA - 1
  BY <1>1, <1>2, SwapBounds
<1>4. reserveA' \in Nat \ {0} /\ reserveB' \in Nat \ {0}
  BY <1>1, <1>2, <1>3 DEF Trade
<1>5. trades' \in 0..MaxTrades
  BY <1>2 DEF Trade
<1>6. UNCHANGED <<lpTokens, heldA, heldB, wallet, totalLp, strategyLp>>
  BY DEF Trade
<1> QED
  BY <1>1, <1>4, <1>5, <1>6 DEF Attribution, TypeOK, AttributionExact

-----------------------------------------------------------------------------

\* Every LP token the strategy holds is attributed to one vault, in every reachable state,
\* whichever transfers a deposit has used.
THEOREM AttributionHolds == Spec => []Attribution
<1>1. Init => Attribution
  <2> SUFFICES ASSUME Init
               PROVE  Attribution
    OBVIOUS
  <2>1. TypeOK
    BY SoroswapStrategyAssumption DEF Init, TypeOK
  <2>2. SumFunction(lpTokens) = 0
    BY SumOfZeros, SoroswapStrategyAssumption DEF Init
  <2> QED
    BY <2>1, <2>2 DEF Init, Attribution, AttributionExact
<1>2. Attribution /\ [Next]_vars => Attribution'
  <2> SUFFICES ASSUME Attribution, [Next]_vars
               PROVE  Attribution'
    OBVIOUS
  <2>1. ASSUME NEW v \in Vaults, Deposit(v)
        PROVE  Attribution'
    BY <2>1, DepositAttributes DEF Deposit
  <2>2. ASSUME NEW v \in Vaults, Withdraw(v)
        PROVE  Attribution'
    BY <2>2, WithdrawAttributes DEF Withdraw
  <2>3. ASSUME NEW v \in Vaults, Transfer(v)
        PROVE  Attribution'
    BY <2>3, TransferAttributes
  <2>4. ASSUME NEW amount \in Trades, Trade(amount)
        PROVE  Attribution'
    BY <2>4, TradesAttribute
  <2>5. CASE UNCHANGED vars
    BY <2>5 DEF vars, market, Attribution, TypeOK, AttributionExact
  <2> QED
    BY <2>1, <2>2, <2>3, <2>4, <2>5 DEF Next
<1> QED
  BY <1>1, <1>2, PTL DEF Spec

\* The vaults' LP tokens add up to those the strategy holds in the pair.
THEOREM AttributionIsExact == Spec => []AttributionExact
  BY AttributionHolds, PTL DEF Attribution

\* No vault's LP tokens and no balance turns negative, and the pair is never emptied.
THEOREM TypesHold == Spec => []TypeOK
  BY AttributionHolds, PTL DEF Attribution

-----------------------------------------------------------------------------
(* What a deposit is credited. *)

\* A deposit adds at most the token_b that matches the token_a it adds.
LEMMA AddedMatches ==
  ASSUME TypeOK, NEW amount \in Nat
  PROVE  BToAdd(amount) * AfterSwapA(amount) <= RemainingA(amount) * AfterSwapB(amount)
<1> DEFINE rem   == RemainingA(amount)
           ra    == AfterSwapA(amount)
           rb    == AfterSwapB(amount)
           added == BToAdd(amount)
           floor == MulDivFloor(rem, rb, ra)
<1>1. rem \in Nat /\ ra \in Nat \ {0} /\ rb \in Nat \ {0} /\ added \in Nat
  BY DepositMoves
<1>2. BOptimal(amount) = floor \/ BOptimal(amount) = 0
  BY DEF BOptimal, OrZero
<1> HIDE DEF rem, ra, rb, added
<1>3. floor \in Nat /\ floor * ra <= rem * rb
  BY <1>1, FloorBounds
<1> HIDE DEF floor
<1>4. added <= BOptimal(amount)
  <2>1. BReceived(amount) \in Nat
    BY DepositMoves
  <2>2. BOptimal(amount) \in Nat
    BY <1>2, <1>3
  <2> QED
    BY <2>1, <2>2 DEF BToAdd, added
<1>5. added <= floor
  BY <1>1, <1>2, <1>3, <1>4
<1>6. added * ra <= floor * ra
  BY <1>1, <1>3, <1>5, ScaleFactor
<1>7. added * ra \in Int /\ floor * ra \in Int /\ rem * rb \in Int
  BY <1>1, <1>3
<1>8. added * ra <= rem * rb
  BY <1>3, <1>6, <1>7
<1> QED
  BY <1>8 DEF added, ra, rem, rb

\* Whatever the pair's reserves, the fee and the amount, what a deposit is credited is worth no
\* more than the vault put in: swap, fee and leftovers are paid by the depositor.
THEOREM DepositsAreNotOvervalued == Spec => []DepositNotOvervalued
<1>1. ASSUME TypeOK, NEW amount \in Amounts
      PROVE  LET a   == AfterSwapA(amount) + RemainingA(amount)
                 b   == AfterSwapB(amount) + BToAdd(amount)
                 lp  == totalLp + LpMinted(amount)
                 inA == MulDivFloor(LpReturned(amount), a, lp)
                 inB == MulDivFloor(LpReturned(amount), b, lp)
             IN  inA + MulDivFloor(inB, a, b) <= 2 * RemainingA(amount)
  <2>1. amount \in Nat /\ totalLp \in Nat \ {0}
    BY <1>1, SoroswapStrategyAssumption DEF TypeOK
  <2>2. /\ RemainingA(amount) \in Nat /\ BToAdd(amount) \in Nat
        /\ AfterSwapA(amount) \in Nat \ {0} /\ AfterSwapB(amount) \in Nat \ {0}
        /\ BToAdd(amount) * AfterSwapA(amount) <= RemainingA(amount) * AfterSwapB(amount)
        /\ RemainingA(amount) <= RemainingA(amount)
    BY <1>1, <2>1, DepositMoves, AddedMatches
  <2> QED
    BY <2>1, <2>2, CreditWithinAdded DEF LpReturned, LpMinted
<1>2. TypeOK => DepositNotOvervalued
  BY <1>1 DEF DepositNotOvervalued
<1> QED
  BY <1>2, TypesHold, PTL

-----------------------------------------------------------------------------
(* What a withdrawal pays. *)

\* A withdrawal of less than the balance redeems and swaps back at most one unit more.
LEMMA PartIsPaid ==
  ASSUME FeeNum > 0, TypeOK, AttributionExact, NEW v \in Vaults, NEW amount \in Nat,
         amount < Balance(v), ValuationFits(v)
  PROVE  TotalA(LpToBurn(v, amount)) <= amount + 1
<1> DEFINE own   == lpTokens[v]
           inA   == MulDivFloor(reserveA, own, totalLp)
           inB   == MulDivFloor(MulDivFloor(reserveB, own, totalLp), reserveA, reserveB)
           value == inA + inB
<1>1. /\ reserveA \in Nat \ {0} /\ reserveB \in Nat \ {0} /\ totalLp \in Nat \ {0}
      /\ own \in Nat /\ strategyLp \in Nat /\ strategyLp < totalLp
  BY DEF TypeOK
<1>2. own < totalLp
  <2>1. own <= SumFunction(lpTokens) /\ SumFunction(lpTokens) = strategyLp
    BY SumBoundsEach, SoroswapStrategyAssumption DEF TypeOK, AttributionExact
  <2> HIDE DEF own
  <2> QED
    BY <1>1, <2>1
<1>3. own # 0
  BY DEF Balance, LpValueInA
<1>4. Balance(v) = value
  <2>1. /\ OrZero(reserveA, own, totalLp) = inA
        /\ OrZero(reserveB, own, totalLp) = MulDivFloor(reserveB, own, totalLp)
        /\ OrZero(MulDivFloor(reserveB, own, totalLp), reserveA, reserveB) = inB
    BY <1>1 DEF ValuationFits, OrZero, MulDivFits
  <2> QED
    BY <1>3, <2>1 DEF Balance, LpValueInA
<1>5. LpToBurn(v, amount) = MulDivFloor(own, amount, value)
  <2>1. Balance(v) \in Nat
    BY BalanceWithinValuation
  <2> QED
    BY <1>4, <2>1 DEF LpToBurn
<1> DEFINE lp == MulDivFloor(own, amount, value)
           ao == Redeemed(lp, reserveA, totalLp)
           bo == Redeemed(lp, reserveB, totalLp)
<1>6. TotalA(lp) = ao + (IF bo = 0 THEN 0 ELSE SwapOut(bo, reserveB - bo, reserveA - ao))
  BY DEF TotalA, AOut, BOut, SwappedBack
<1>7. ao + (IF bo = 0 THEN 0 ELSE SwapOut(bo, reserveB - bo, reserveA - ao)) <= amount + 1
  <2>1. amount < value /\ totalLp \in Nat
    BY <1>1, <1>4
  <2> HIDE DEF own
  <2> QED
    BY <1>1, <1>2, <2>1, WithdrawalWithinRequest
<1> HIDE DEF lp, ao, bo
<1> QED
  BY <1>5, <1>6, <1>7 DEF lp

\* What a withdrawal pays and what its swap back costs, in terms of the two reserves.
LEMMA PaymentAndCost ==
  ASSUME NEW lp
  PROVE  /\ TotalA(lp) = PaidFor(lp, reserveA, reserveB, totalLp)
         /\ SwapCost(lp) = CostOf(lp, reserveA, reserveB, totalLp)
  BY DEF TotalA, AOut, BOut, SwappedBack, SwapCost, PaidFor, CostOf, SecondOf

\* No withdrawal pays less than was asked, or than the balance, but for the cost of the swap
\* back, the LP token the burn rounds off, and a unit.
LEMMA IsPaidInFull ==
  ASSUME TypeOK, AttributionExact, NEW v \in Vaults, NEW amount \in Nat, WithdrawOk(v, amount)
  PROVE  LET lp == LpToBurn(v, amount)
         IN  IF amount < Balance(v)
             THEN amount <= TotalA(lp) + SwapCost(lp) + MulDivCeil(2, reserveA, totalLp) + 1
             ELSE lp = lpTokens[v] /\ Balance(v) <= TotalA(lp) + SwapCost(lp) + 1
<1> DEFINE own   == lpTokens[v]
           value == Balance(v)
           lp    == LpToBurn(v, amount)
           paid  == TotalA(lp)
           cost  == SwapCost(lp)
<1>1. /\ reserveA \in Nat \ {0} /\ reserveB \in Nat \ {0} /\ totalLp \in Nat \ {0}
      /\ strategyLp \in Nat /\ strategyLp < totalLp
  BY DEF TypeOK
<1>2. own \in Nat \ {0} /\ own < totalLp
  <2>1. /\ own \in Nat /\ own <= SumFunction(lpTokens)
        /\ SumFunction(lpTokens) = strategyLp
    BY SumBoundsEach, SoroswapStrategyAssumption DEF TypeOK, AttributionExact
  <2>2. own # 0
    BY DEF WithdrawOk
  <2> HIDE DEF own
  <2> QED
    BY <1>1, <2>1, <2>2
<1>3. value \in Nat \ {0} /\ value * totalLp <= 2 * (own * reserveA)
  <2>1. /\ value \in Nat
        /\ value <= MulDivFloor(reserveA, own, totalLp)
                      + MulDivFloor(MulDivFloor(reserveB, own, totalLp), reserveA, reserveB)
    BY BalanceWithinValuation
  <2>2. value # 0
    BY DEF WithdrawOk
  <2> HIDE DEF own, value
  <2> QED
    BY <1>1, <1>2, <2>1, <2>2, ValuationWithinPart
<1>4. lp = (IF amount >= value THEN own ELSE MulDivFloor(own, amount, value))
  BY DEF LpToBurn
<1>5. /\ paid = PaidFor(lp, reserveA, reserveB, totalLp)
      /\ cost = CostOf(lp, reserveA, reserveB, totalLp)
  BY PaymentAndCost
<1>6. lp \in Nat /\ lp < totalLp
  <2>1. lp \in Nat /\ lp <= strategyLp
    BY WithdrawBurns
  <2> HIDE DEF lp
  <2> QED
    BY <1>1, <2>1
<1> HIDE DEF own, value, lp, paid, cost
<1>7. CASE amount < value
  <2>1. lp = MulDivFloor(own, amount, value)
    BY <1>3, <1>4, <1>7
  <2>2. own * amount < lp * value + value
    BY <1>2, <1>3, <2>1, FloorBounds
  <2>3. amount <= paid + cost + MulDivCeil(2, reserveA, totalLp) + 1
    BY <1>1, <1>2, <1>3, <1>5, <1>6, <2>2, PartPays
  <2> QED
    BY <1>7, <2>3 DEF value, lp, paid, cost
<1>8. CASE ~(amount < value)
  <2>1. lp = own
    BY <1>3, <1>4, <1>8
  <2>2. value <= paid + cost + 1
    BY <1>1, <1>2, <1>3, <1>5, <2>1, WholeIsPaid
  <2> QED
    BY <1>8, <2>1, <2>2 DEF own, value, lp, paid, cost
<1> QED
  BY <1>7, <1>8

\* Given a fee, however small, every withdrawal pays what was asked, or the balance: no less but
\* for the cost of the swap back and the roundings, whichever products have overflowed, and no
\* more than a unit more where none has.
THEOREM WithdrawalsArePaidAsAsked ==
  ASSUME FeeNum > 0
  PROVE  Spec => []PaidAsAsked
<1>1. ASSUME TypeOK, AttributionExact
      PROVE  PaidAsAsked
  <2>1. ASSUME NEW v \in Vaults, NEW amount \in Amounts, WithdrawOk(v, amount),
               amount < Balance(v), ValuationFits(v)
        PROVE  TotalA(LpToBurn(v, amount)) <= amount + 1
    BY <1>1, <2>1, PartIsPaid, SoroswapStrategyAssumption
  <2>2. ASSUME NEW v \in Vaults, NEW amount \in Amounts, WithdrawOk(v, amount)
        PROVE  LET lp == LpToBurn(v, amount)
               IN  IF amount < Balance(v)
                   THEN amount <= TotalA(lp) + SwapCost(lp) + MulDivCeil(2, reserveA, totalLp) + 1
                   ELSE lp = lpTokens[v] /\ Balance(v) <= TotalA(lp) + SwapCost(lp) + 1
    BY <1>1, <2>2, IsPaidInFull, SoroswapStrategyAssumption
  <2> QED
    BY <2>1, <2>2 DEF PaidAsAsked
<1>2. TypeOK /\ AttributionExact => PaidAsAsked
  BY <1>1
<1> QED
  BY <1>2, TypesHold, AttributionIsExact, PTL

-----------------------------------------------------------------------------
(* What the balances add up to. *)

\* What balance() tells all the vaults together is within the valuation of the LP tokens the
\* strategy holds, however many vaults there are and whichever of their valuations overflow.
THEOREM BalancesAreCovered == Spec => []Solvent
<1>1. ASSUME TypeOK, AttributionExact
      PROVE  Solvent
  <2> DEFINE bal == [v \in Vaults |-> Balance(v)]
  <2>1. /\ lpTokens \in [Vaults -> Nat] /\ IsFiniteSet(Vaults)
        /\ reserveA \in Nat \ {0} /\ reserveB \in Nat \ {0} /\ totalLp \in Nat \ {0}
        /\ SumFunction(lpTokens) = strategyLp
    BY <1>1, SoroswapStrategyAssumption DEF TypeOK, AttributionExact
  <2>2. ASSUME NEW v \in Vaults
        PROVE  /\ Balance(v) \in Nat
               /\ Balance(v) <= MulDivFloor(reserveA, lpTokens[v], totalLp)
                    + MulDivFloor(MulDivFloor(reserveB, lpTokens[v], totalLp), reserveA, reserveB)
    BY <1>1, BalanceWithinValuation
  <2>3. /\ bal \in [Vaults -> Nat]
        /\ \A v \in Vaults :
             bal[v] <= MulDivFloor(reserveA, lpTokens[v], totalLp)
               + MulDivFloor(MulDivFloor(reserveB, lpTokens[v], totalLp), reserveA, reserveB)
    BY <2>2
  <2> HIDE DEF bal
  <2>4. SumFunction(bal) <= MulDivFloor(reserveA, SumFunction(lpTokens), totalLp)
          + MulDivFloor(MulDivFloor(reserveB, SumFunction(lpTokens), totalLp), reserveA, reserveB)
    BY <2>1, <2>3, ValuationsAddUp
  <2> QED
    BY <2>1, <2>4 DEF bal, PositionInA, Solvent
<1>2. TypeOK /\ AttributionExact => Solvent
  BY <1>1
<1> QED
  BY <1>2, TypesHold, AttributionIsExact, PTL

-----------------------------------------------------------------------------
(* The share ledger. *)

\* The attribution implements the share ledger, at the constant price of one LP token a claim.
THEOREM ImplementsLedger == Spec => ImplementsShareLedger
<1>1. Init => FairShares!Init
  BY SumOfZeros, SoroswapStrategyAssumption DEF Init, FairShares!Init
<1>2. ASSUME Attribution, Attribution', [Next]_vars
      PROVE  [FairShares!Next]_(FairShares!ledger)
  <2>1. /\ lpTokens \in [Vaults -> Nat] /\ strategyLp \in Nat
        /\ SumFunction(lpTokens) = strategyLp /\ SumFunction(lpTokens') = strategyLp'
    BY <1>2 DEF Attribution, TypeOK, AttributionExact
  <2>2. ASSUME NEW v \in Vaults, NEW amount \in Amounts, DepositCall(v, amount)
        PROVE  [FairShares!Next]_(FairShares!ledger)
    <3> DEFINE minted == LpMinted(amount)
    <3>1. minted \in Nat /\ minted > 0
      BY <1>2, <2>2, DepositMoves, SoroswapStrategyAssumption DEF Attribution, DepositCall
    <3>2. lpTokens' = [lpTokens EXCEPT ![v] = @ + minted] /\ strategyLp' = strategyLp + minted
      BY <2>2 DEF DepositCall, LpReturned
    <3> HIDE DEF minted
    <3>3. FairShares!OnlyClaimsOf(v)
      BY <2>1, <3>2 DEF FairShares!OnlyClaimsOf
    <3>4. lpTokens'[v] = lpTokens[v] + minted /\ lpTokens[v] \in Nat
      BY <2>1, <3>2
    <3>5. (strategyLp' - strategyLp) * strategyLp >= (strategyLp' - strategyLp) * strategyLp
      BY <2>1, <3>1, <3>2
    <3>6. /\ lpTokens'[v] > lpTokens[v] /\ strategyLp' > strategyLp
          /\ strategyLp' - strategyLp >= lpTokens'[v] - lpTokens[v]
      BY <2>1, <3>1, <3>2, <3>4
    <3>7. FairShares!Join(v)
      BY <2>1, <3>3, <3>5, <3>6 DEF FairShares!Join
    <3> QED
      BY <3>7 DEF FairShares!Next
  <2>3. ASSUME NEW v \in Vaults, NEW to \in Vaults, NEW amount \in Amounts,
               WithdrawCall(v, to, amount)
        PROVE  [FairShares!Next]_(FairShares!ledger)
    <3> DEFINE burnt == LpToBurn(v, amount)
    <3>1. burnt \in Nat \ {0} /\ burnt <= lpTokens[v] /\ lpTokens[v] \in Nat
      BY <1>2, <2>3, WithdrawBurns, SoroswapStrategyAssumption DEF Attribution, WithdrawCall
    <3>2. lpTokens' = [lpTokens EXCEPT ![v] = @ - burnt] /\ strategyLp' = strategyLp - burnt
      BY <2>3 DEF WithdrawCall
    <3> HIDE DEF burnt
    <3>3. FairShares!OnlyClaimsOf(v)
      BY <2>1, <3>2 DEF FairShares!OnlyClaimsOf
    <3>4. lpTokens'[v] = lpTokens[v] - burnt
      BY <2>1, <3>2
    <3>5. /\ lpTokens'[v] < lpTokens[v] /\ lpTokens'[v] >= 0 /\ strategyLp' < strategyLp
          /\ strategyLp - strategyLp' = lpTokens[v] - lpTokens'[v]
      BY <2>1, <3>1, <3>2, <3>4
    <3>6. (strategyLp - strategyLp') * strategyLp <= (strategyLp - strategyLp') * strategyLp
      BY <2>1, <3>1, <3>2
    <3>7. FairShares!Leave(v)
      BY <2>1, <3>3, <3>5, <3>6 DEF FairShares!Leave
    <3> QED
      BY <3>7 DEF FairShares!Next
  <2>4. ASSUME lpTokens' = lpTokens, strategyLp' = strategyLp
        PROVE  [FairShares!Next]_(FairShares!ledger)
    BY <2>1, <2>4 DEF FairShares!ledger
  <2>5. ASSUME \/ \E v \in Vaults : Transfer(v)
               \/ \E amount \in Trades : Trade(amount)
               \/ UNCHANGED vars
        PROVE  [FairShares!Next]_(FairShares!ledger)
    BY <2>4, <2>5 DEF Transfer, Trade, vars, market
  <2> QED
    BY <1>2, <2>2, <2>3, <2>5 DEF Next, Deposit, Withdraw
<1>3. Attribution /\ Attribution' /\ [Next]_vars => [FairShares!Next]_(FairShares!ledger)
  BY <1>2
<1> QED
  BY <1>1, <1>3, AttributionHolds, PTL DEF Spec, ImplementsShareLedger, FairShares!Spec
=============================================================================
