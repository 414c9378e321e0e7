------------------------ MODULE AquariusStrategyProofs ----------------------
(***************************************************************************)
(* strategy-aquarius attributes its pool shares exactly, values them       *)
(* within what it holds, lets every vault out and pays it what it asks     *)
(* for, but for the cost of the swap back, for every set of vaults, every  *)
(* amount, fee and slippage, whichever token is the pool's first and       *)
(* whatever other traders do to the pool.                                  *)
(*                                                                         *)
(* The inductive invariant is Attribution: AttributionExact makes a burn   *)
(* the vault can pay one the strategy can pay, hence TypeOK.               *)
(***************************************************************************)
EXTENDS AquariusStrategy, ConstantProductTheorems

Attribution == TypeOK /\ AttributionExact

-----------------------------------------------------------------------------
(* The pool as a call sees it. *)

\* The two indices are the pool's two tokens, whichever comes first.
LEMMA Market ==
  ASSUME TypeOK
  PROVE  /\ config.depositIdx \in Idx /\ config.pairIdx \in Idx
         /\ config.depositIdx # config.pairIdx
         /\ \A i \in Idx : i = config.depositIdx \/ i = config.pairIdx
         /\ Idx = {0, 1}
         /\ reserves \in [Idx -> Nat \ {0}]
         /\ ReserveOfDeposit \in Nat \ {0} /\ ReserveOfPair \in Nat \ {0}
         /\ totalShares \in Nat \ {0}
         /\ strategyShares \in Nat /\ strategyShares < totalShares
  BY DEF TypeOK, Configs, Idx, ReserveOfDeposit, ReserveOfPair

\* An amount that may have overflowed is a natural all the same.
LEMMA OrZeroIsNatural ==
  ASSUME NEW limit \in Int, NEW x \in Nat, NEW y \in Nat, NEW z \in Nat \ {0}
  PROVE  /\ OrZero(limit, x, y, z) \in Nat
         /\ OrZero(limit, x, y, z) <= MulDivFloor(x, y, z)
  BY FloorBounds DEF OrZero

\* The slippage bound leaves a part of what is expected.
LEMMA LeftIsPart ==
  ASSUME TypeOK
  PROVE  BPS - config.maxSlippage \in Nat /\ BPS - config.maxSlippage <= BPS
<1>1. config \in Configs
  BY DEF TypeOK
<1>2. config.maxSlippage \in 0..MAX_SLIPPAGE_BPS
  BY <1>1 DEF Configs
<1> DEFINE slippage == config.maxSlippage
<1>3. slippage \in 0..1000
  BY <1>2 DEF MAX_SLIPPAGE_BPS
<1> HIDE DEF slippage
<1>4. 10000 - slippage \in Nat /\ 10000 - slippage <= 10000
  BY <1>3
<1> QED
  BY <1>4 DEF slippage, BPS

\* A minimum is at most what is expected.
LEMMA MinimumIsMet ==
  ASSUME TypeOK, NEW expected \in Nat
  PROVE  MinWithSlippage(expected) \in Nat /\ MinWithSlippage(expected) <= expected
<1> DEFINE left == BPS - config.maxSlippage
           q    == MulDivFloor(expected, left, BPS)
<1>1. left \in Nat /\ left <= BPS /\ BPS \in Nat \ {0} /\ MaxU128 \in Int
  <2>1. left \in Nat /\ left <= BPS
    BY LeftIsPart
  <2> HIDE DEF left
  <2>2. MaxU128 \in Int
    BY MaxI128Assumption DEF MaxU128
  <2>3. BPS \in Nat \ {0}
    BY DEF BPS
  <2> QED
    BY <2>1, <2>2, <2>3
<1>2. MinWithSlippage(expected) = OrZero(MaxU128, expected, left, BPS)
  BY DEF MinWithSlippage
<1> HIDE DEF left
<1>3. MinWithSlippage(expected) \in Nat /\ MinWithSlippage(expected) <= q
  <2> HIDE DEF q
  <2> QED
    BY <1>1, <1>2, OrZeroIsNatural DEF q
<1>4. q \in Nat /\ q * BPS <= expected * left
  BY <1>1, FloorBounds
<1> HIDE DEF q
<1>5. expected * left <= expected * BPS
  BY <1>1
<1>6. q * BPS \in Int /\ expected * left \in Int /\ expected * BPS \in Int
  BY <1>1, <1>4
<1>7. q * BPS <= expected * BPS
  BY <1>4, <1>5, <1>6
<1>8. q <= expected
  BY <1>1, <1>4, <1>7, CancelFactor
<1> QED
  BY <1>3, <1>4, <1>8

-----------------------------------------------------------------------------
(* What a deposit does to the pool, and what a withdrawal burns and pays. *)

LEMMA DepositMoves ==
  ASSUME TypeOK, NEW amount \in Nat
  PROVE  /\ SwapAmount(amount) \in Nat /\ Remaining(amount) \in Nat
         /\ SwapAmount(amount) + Remaining(amount) = amount
         /\ PairReceived(amount) \in Nat
         /\ AfterSwap(amount) \in [Idx -> Nat \ {0}]
         /\ PairToAdd(amount) \in Nat /\ PairToAdd(amount) <= PairReceived(amount)
         /\ Desired(amount) \in [Idx -> Nat]
         /\ Desired(amount)[config.depositIdx] = Remaining(amount)
         /\ Desired(amount)[config.pairIdx] = PairToAdd(amount)
<1>1. /\ SwapAmount(amount) \in Nat /\ Remaining(amount) \in Nat
      /\ SwapAmount(amount) + Remaining(amount) = amount
  BY DEF SwapAmount, Remaining
<1>2. PairReceived(amount) \in Nat /\ PairReceived(amount) < ReserveOfPair
  BY <1>1, Market, SwapBounds DEF PairReceived
<1>3. AfterSwap(amount) \in [Idx -> Nat \ {0}]
  <2>1. /\ ReserveOfDeposit + SwapAmount(amount) \in Nat \ {0}
        /\ ReserveOfPair - PairReceived(amount) \in Nat \ {0}
    BY <1>1, <1>2, Market
  <2> QED
    BY <2>1, Market DEF AfterSwap, ReserveOfDeposit, ReserveOfPair
<1>4. PairOptimal(amount) \in Nat
  <2>1. /\ AfterSwap(amount)[config.pairIdx] \in Nat
        /\ AfterSwap(amount)[config.depositIdx] \in Nat \ {0}
        /\ MaxI128 \in Int
    BY <1>3, Market, MaxI128Assumption
  <2> QED
    BY <1>1, <2>1, OrZeroIsNatural DEF PairOptimal
<1>5. PairToAdd(amount) \in Nat /\ PairToAdd(amount) <= PairReceived(amount)
  BY <1>2, <1>4 DEF PairToAdd
<1>6. /\ Desired(amount) \in [Idx -> Nat]
      /\ Desired(amount)[config.depositIdx] = Remaining(amount)
      /\ Desired(amount)[config.pairIdx] = PairToAdd(amount)
  BY <1>1, <1>5, Market DEF Desired, InPoolOrder
<1> QED
  BY <1>1, <1>2, <1>3, <1>5, <1>6

\* The pool keeps no more of either token than it was offered.
LEMMA PoolKeeps ==
  ASSUME TypeOK, NEW amount \in Nat
  PROVE  /\ Kept(amount) \in [Idx -> Nat]
         /\ Kept(amount)[config.depositIdx] <= Remaining(amount)
         /\ Kept(amount)[config.pairIdx] <= PairToAdd(amount)
         /\ PoolMints(amount) \in Nat
<1> DEFINE offer  == Desired(amount)
           after  == AfterSwap(amount)
           pulled == Pulled(offer[0], offer[1], after[0], after[1])
<1>1. /\ offer[0] \in Nat /\ offer[1] \in Nat
      /\ after[0] \in Nat \ {0} /\ after[1] \in Nat \ {0}
  <2>1. offer \in [Idx -> Nat] /\ after \in [Idx -> Nat \ {0}]
    BY DepositMoves
  <2>2. 0 \in Idx /\ 1 \in Idx
    BY DEF Idx
  <2> HIDE DEF offer, after
  <2> QED
    BY <2>1, <2>2
<1>2. /\ pulled[1] \in Nat /\ pulled[1] <= offer[0]
      /\ pulled[2] \in Nat /\ pulled[2] <= offer[1]
  BY <1>1, PulledBounds
<1>3. Kept(amount) = [i \in Idx |-> pulled[i + 1]]
  BY DEF Kept
<1> HIDE DEF pulled
<1>4. /\ Kept(amount)[0] = pulled[1] /\ Kept(amount)[1] = pulled[2]
      /\ Kept(amount) = [i \in Idx |-> Kept(amount)[i]]
  BY <1>3, Market
<1>5. Kept(amount) \in [Idx -> Nat] /\ \A i \in Idx : Kept(amount)[i] <= offer[i]
  <2> HIDE DEF offer
  <2>1. /\ Kept(amount)[0] \in Nat /\ Kept(amount)[0] <= offer[0]
        /\ Kept(amount)[1] \in Nat /\ Kept(amount)[1] <= offer[1]
    BY <1>2, <1>4
  <2>2. \A i \in Idx : i = 0 \/ i = 1
    BY Market
  <2> QED
    BY <1>4, <2>1, <2>2
<1>6. PoolMints(amount) \in Nat
  <2>1. /\ Kept(amount)[0] \in Nat /\ Kept(amount)[1] \in Nat /\ totalShares \in Nat
    BY <1>2, <1>4, Market
  <2> QED
    BY <1>1, <2>1, LiquidityIsNatural DEF PoolMints
<1>7. /\ offer[config.depositIdx] = Remaining(amount)
      /\ offer[config.pairIdx] = PairToAdd(amount)
      /\ config.depositIdx \in Idx /\ config.pairIdx \in Idx
  BY DepositMoves, Market
<1> HIDE DEF offer
<1> QED
  BY <1>5, <1>6, <1>7

\* A balance is at most what the vault's shares are worth, whichever of its products overflow.
LEMMA BalanceWithinValuation ==
  ASSUME TypeOK, NEW v \in Vaults
  PROVE  /\ Balance(v) \in Nat
         /\ Balance(v) <= MulDivFloor(ReserveOfDeposit, shares[v], totalShares)
              + MulDivFloor(MulDivFloor(ReserveOfPair, shares[v], totalShares),
                            ReserveOfDeposit, ReserveOfPair)
<1> DEFINE A   == ReserveOfDeposit
           B   == ReserveOfPair
           inA == MulDivFloor(A, shares[v], totalShares)
           inB == MulDivFloor(B, shares[v], totalShares)
<1>1. /\ shares[v] \in Nat /\ A \in Nat \ {0} /\ B \in Nat \ {0}
      /\ totalShares \in Nat \ {0}
  BY Market DEF TypeOK
<1>2. inA \in Nat /\ inB \in Nat /\ MulDivFloor(inB, A, B) \in Nat
  <2> HIDE DEF A, B
  <2>1. inA \in Nat /\ inB \in Nat
    BY <1>1, FloorBounds
  <2> HIDE DEF inB
  <2>2. MulDivFloor(inB, A, B) \in Nat
    BY <1>1, <2>1, FloorBounds
  <2> QED
    BY <2>1, <2>2
<1>3. MulDivFloor(0, A, B) = 0
  BY <1>1, ZeroIsZero
<1>4. /\ OrZero(MaxU128, A, shares[v], totalShares) \in {0, inA}
      /\ OrZero(MaxU128, B, shares[v], totalShares) \in {0, inB}
  BY DEF OrZero
<1>5. \A x \in {0, inB} : OrZero(MaxU128, x, A, B) \in {0, MulDivFloor(inB, A, B)}
  BY <1>3 DEF OrZero
<1> QED
  BY <1>2, <1>4, <1>5 DEF Balance, SharesValueInDeposit

\* A withdrawal burns shares of the vault's own.
LEMMA WithdrawBurns ==
  ASSUME TypeOK, NEW v \in Vaults, NEW amount \in Nat, WithdrawOk(v, amount)
  PROVE  /\ SharesToBurn(v, amount) \in Nat \ {0}
         /\ SharesToBurn(v, amount) <= shares[v]
         /\ SharesToBurn(v, amount) <= strategyShares
         /\ shares[v] \in Nat
<1> DEFINE own   == shares[v]
           value == Balance(v)
           q     == MulDivFloor(own, amount, value)
<1>1. own \in Nat /\ value \in Nat \ {0}
  BY BalanceWithinValuation DEF TypeOK, WithdrawOk
<1>2. /\ SharesToBurn(v, amount) = (IF amount >= value THEN own ELSE q)
      /\ SharesToBurn(v, amount) # 0 /\ SharesToBurn(v, amount) <= strategyShares
  BY DEF SharesToBurn, WithdrawOk
<1> HIDE DEF own, value
<1>3. q \in Nat /\ q * value <= own * amount
  BY <1>1, FloorBounds
<1> HIDE DEF q
<1>4. amount < value => q <= own
  <2> SUFFICES ASSUME amount < value
               PROVE  q <= own
    OBVIOUS
  <2>1. own * amount <= own * value
    BY <1>1
  <2>2. q * value \in Int /\ own * amount \in Int /\ own * value \in Int
    BY <1>1, <1>3
  <2>3. q * value <= own * value
    BY <1>3, <2>1, <2>2
  <2> QED
    BY <1>1, <1>3, <2>3, CancelFactor
<1> QED
  BY <1>1, <1>2, <1>3, <1>4 DEF own

\* It redeems less than the reserves: other providers' shares stay.  All of it is paid out.
LEMMA WithdrawPays ==
  ASSUME TypeOK, NEW lp \in Nat, lp <= strategyShares
  PROVE  /\ DepositOut(lp) \in Nat /\ PairOut(lp) \in Nat /\ Swapped(lp) \in Nat
         /\ TotalDeposit(lp) = DepositOut(lp) + Swapped(lp)
         /\ ReserveOfDeposit - DepositOut(lp) - Swapped(lp) \in Nat \ {0}
<1>1. totalShares \in Nat /\ lp < totalShares
  BY Market
<1>2. /\ DepositOut(lp) = Redeemed(lp, ReserveOfDeposit, totalShares)
      /\ PairOut(lp) = Redeemed(lp, ReserveOfPair, totalShares)
  BY Market DEF DepositOut, PairOut, AmountsOut, ReserveOfDeposit, ReserveOfPair
<1>3. /\ DepositOut(lp) \in Nat /\ DepositOut(lp) < ReserveOfDeposit
      /\ PairOut(lp) \in Nat /\ PairOut(lp) < ReserveOfPair
  <2>1. ReserveOfDeposit \in Nat \ {0} /\ ReserveOfPair \in Nat \ {0}
    BY Market
  <2> QED
    BY <1>1, <1>2, <2>1, RedeemBounds
<1>4. ReserveOfDeposit - DepositOut(lp) \in Nat \ {0} /\ ReserveOfPair - PairOut(lp) \in Nat \ {0}
  BY <1>3, Market
<1>5. Swapped(lp) \in Nat /\ Swapped(lp) < ReserveOfDeposit - DepositOut(lp)
  BY <1>3, <1>4, SwapBounds DEF Swapped
<1>6. PairOut(lp) = 0 => Swapped(lp) = 0
  BY <1>4, SwapOfNothing DEF Swapped
<1> QED
  BY <1>3, <1>4, <1>5, <1>6, Market DEF TotalDeposit

-----------------------------------------------------------------------------
(* The inductive invariant, action by action. *)

LEMMA DepositAttributes ==
  ASSUME Attribution, NEW v \in Vaults, NEW amount \in Amounts, DepositCall(v, amount)
  PROVE  Attribution' /\ totalShares' >= totalShares
<1> DEFINE swapped == SwapAmount(amount)
           left    == Remaining(amount)
           got     == PairReceived(amount)
           after   == AfterSwap(amount)
           kept    == Kept(amount)
           minted  == PoolMints(amount)
           d       == config.depositIdx
           p       == config.pairIdx
<1>1. TypeOK /\ AttributionExact /\ amount \in Nat
  BY AquariusStrategyAssumption DEF Attribution
<1>2. /\ swapped \in Nat /\ left \in Nat /\ swapped + left = amount /\ got \in Nat
      /\ after \in [Idx -> Nat \ {0}] /\ kept \in [Idx -> Nat]
      /\ kept[d] \in Nat /\ kept[d] <= left
      /\ kept[p] \in Nat /\ kept[p] <= got /\ minted \in Nat
  <2>1. PairToAdd(amount) \in Nat /\ PairToAdd(amount) <= got /\ got \in Nat
    BY <1>1, DepositMoves
  <2>2. kept \in [Idx -> Nat] /\ kept[p] <= PairToAdd(amount) /\ p \in Idx /\ d \in Idx
    BY <1>1, PoolKeeps, Market
  <2>3. kept[p] \in Nat /\ kept[p] <= got /\ kept[d] \in Nat
    BY <2>1, <2>2
  <2> QED
    BY <1>1, <2>1, <2>3, DepositMoves, PoolKeeps
<1>3. /\ amount <= heldDeposit
      /\ shares' = [shares EXCEPT ![v] = @ + minted]
      /\ heldDeposit' = heldDeposit - swapped - kept[d]
      /\ heldPair' = heldPair + got - kept[p]
      /\ reserves' = [i \in Idx |-> after[i] + kept[i]]
      /\ totalShares' = totalShares + minted /\ strategyShares' = strategyShares + minted
      /\ config' = config /\ wallet' = wallet /\ aqua' = aqua /\ claimable' = claimable
      /\ poolEvents' = poolEvents
  BY <1>1 DEF DepositCall, SharesMinted
<1> HIDE DEF swapped, left, got, after, kept, minted, d, p
<1>4. /\ shares \in [Vaults -> Nat] /\ shares[v] \in Nat /\ heldDeposit \in Nat
      /\ heldPair \in Nat /\ totalShares \in Nat \ {0} /\ strategyShares \in 0..totalShares - 1
  BY <1>1 DEF TypeOK
<1>5. /\ shares' \in [Vaults -> Nat]
      /\ SumFunction(shares') = SumFunction(shares) + minted
  <2>1. /\ shares' \in [Vaults -> Nat] /\ shares'[v] = shares[v] + minted
        /\ \A u \in Vaults \ {v} : shares'[u] = shares[u]
        /\ IsFiniteSet(Vaults) /\ shares \in [Vaults -> Nat] /\ minted \in Nat
    BY <1>2, <1>3, <1>4, AquariusStrategyAssumption
  <2> QED
    BY <2>1, SumChanges
<1>6. heldDeposit' \in Nat /\ heldPair' \in Nat
  BY <1>1, <1>2, <1>3, <1>4
<1>7. reserves' \in [Idx -> Nat \ {0}]
  BY <1>2, <1>3
<1>8. totalShares' \in Nat \ {0} /\ strategyShares' \in 0..totalShares' - 1
  BY <1>2, <1>3, <1>4
<1>9. TypeOK'
  BY <1>1, <1>3, <1>5, <1>6, <1>7, <1>8 DEF TypeOK
<1>10. AttributionExact'
  BY <1>1, <1>3, <1>5 DEF AttributionExact
<1>11. totalShares' >= totalShares
  BY <1>2, <1>3, <1>4
<1> QED
  BY <1>9, <1>10, <1>11 DEF Attribution

LEMMA WithdrawAttributes ==
  ASSUME Attribution, NEW v \in Vaults, NEW to \in Vaults, NEW amount \in Amounts,
         WithdrawCall(v, to, amount)
  PROVE  Attribution' /\ heldDeposit' = heldDeposit /\ heldPair' = heldPair
<1> DEFINE burnt == SharesToBurn(v, amount)
           out   == DepositOut(burnt)
           back  == Swapped(burnt)
           paid  == TotalDeposit(burnt)
           d     == config.depositIdx
<1>1. TypeOK /\ AttributionExact /\ amount \in Nat
  BY AquariusStrategyAssumption DEF Attribution
<1>2. burnt \in Nat /\ burnt <= shares[v] /\ burnt <= strategyShares /\ shares[v] \in Nat
  BY <1>1, WithdrawBurns DEF WithdrawCall
<1>3. /\ out \in Nat /\ back \in Nat /\ paid = out + back
      /\ reserves[d] - out - back \in Nat \ {0} /\ reserves[d] \in Nat /\ d \in Idx
  <2>1. /\ out \in Nat /\ back \in Nat /\ paid = out + back
        /\ ReserveOfDeposit - out - back \in Nat \ {0}
    BY <1>1, <1>2, WithdrawPays
  <2> QED
    BY <1>1, <2>1, Market DEF ReserveOfDeposit
<1>4. /\ shares' = [shares EXCEPT ![v] = @ - burnt]
      /\ heldDeposit' = heldDeposit + (out + back) - paid
      /\ wallet' = [wallet EXCEPT ![to] = @ + paid]
      /\ reserves' = [reserves EXCEPT ![d] = @ - (out + back)]
      /\ totalShares' = totalShares - burnt /\ strategyShares' = strategyShares - burnt
      /\ config' = config /\ heldPair' = heldPair /\ aqua' = aqua
      /\ claimable' = claimable /\ poolEvents' = poolEvents
  BY DEF WithdrawCall
<1> HIDE DEF burnt, out, back, paid, d
<1>5. /\ shares \in [Vaults -> Nat] /\ heldDeposit \in Nat /\ wallet \in [Vaults -> Nat]
      /\ totalShares \in Nat \ {0} /\ strategyShares \in 0..totalShares - 1
      /\ reserves \in [Idx -> Nat \ {0}]
  BY <1>1 DEF TypeOK
<1>6. /\ shares' \in [Vaults -> Nat]
      /\ SumFunction(shares') = SumFunction(shares) - burnt
  <2>1. /\ shares' \in [Vaults -> Nat] /\ shares'[v] = shares[v] - burnt
        /\ \A u \in Vaults \ {v} : shares'[u] = shares[u]
        /\ IsFiniteSet(Vaults) /\ shares \in [Vaults -> Nat] /\ burnt \in Nat
    BY <1>2, <1>4, <1>5, AquariusStrategyAssumption
  <2> QED
    BY <2>1, SumChanges
<1>7. heldDeposit' = heldDeposit
  BY <1>3, <1>4, <1>5
<1>8. totalShares' \in Nat \ {0} /\ strategyShares' \in 0..totalShares' - 1
  BY <1>2, <1>4, <1>5
<1>9. wallet' \in [Vaults -> Nat]
  <2>1. paid \in Nat /\ wallet[to] \in Nat
    BY <1>3, <1>5
  <2> QED
    BY <1>4, <1>5, <2>1
<1>10. reserves' \in [Idx -> Nat \ {0}]
  <2>1. reserves[d] - (out + back) \in Nat \ {0}
    BY <1>3
  <2> QED
    BY <1>3, <1>4, <1>5, <2>1
<1>11. TypeOK'
  BY <1>1, <1>4, <1>6, <1>7, <1>8, <1>9, <1>10 DEF TypeOK
<1>12. AttributionExact'
  BY <1>1, <1>4, <1>6 DEF AttributionExact
<1> QED
  BY <1>4, <1>7, <1>11, <1>12 DEF Attribution

LEMMA TransferAttributes ==
  ASSUME Attribution, NEW v \in Vaults, Transfer(v)
  PROVE  Attribution'
<1>1. PICK amount \in Amounts \ {0} :
        /\ amount <= wallet[v]
        /\ wallet' = [wallet EXCEPT ![v] = @ - amount]
        /\ heldDeposit' = heldDeposit + amount
        /\ UNCHANGED <<config, shares, heldPair, aqua, market, claimable, poolEvents>>
  BY DEF Transfer
<1>2. amount \in Nat /\ heldDeposit \in Nat /\ wallet \in [Vaults -> Nat]
  BY AquariusStrategyAssumption DEF Attribution, TypeOK
<1> QED
  BY <1>1, <1>2 DEF Attribution, TypeOK, AttributionExact, market

LEMMA HarvestAttributes ==
  ASSUME Attribution, NEW v \in Vaults, Harvest(v)
  PROVE  Attribution'
<1>1. aqua' \in [Vaults -> Nat] /\ claimable' \in Nat
  BY DEF Harvest, AquaHarvested, Attribution, TypeOK
<1>2. UNCHANGED <<config, books, market, poolEvents>>
  BY DEF Harvest
<1> QED
  BY <1>1, <1>2 DEF Attribution, TypeOK, AttributionExact, books, market

\* Other traders move the reserves and cannot empty them.
LEMMA PoolEventAttributes ==
  ASSUME Attribution, PoolEvent
  PROVE  Attribution' /\ totalShares' = totalShares
<1>1. TypeOK /\ poolEvents' \in 0..MaxPoolEvents
  BY AquariusStrategyAssumption DEF Attribution, TypeOK, PoolEvent
<1>2. ASSUME NEW i \in Idx, NEW amount \in Trades, Trade(i, amount)
      PROVE  Attribution' /\ totalShares' = totalShares
  <2> DEFINE out == SwapOut(amount, reserves[i], reserves[1 - i])
  <2>1. /\ amount \in Nat /\ reserves \in [Idx -> Nat \ {0}]
        /\ 1 - i \in Idx /\ i # 1 - i
        /\ reserves[i] \in Nat \ {0} /\ reserves[1 - i] \in Nat \ {0}
    BY <1>1, Market, AquariusStrategyAssumption
  <2>2. out \in Nat /\ out < reserves[1 - i]
    BY <2>1, SwapBounds
  <2>3. /\ reserves' = [reserves EXCEPT ![i] = @ + amount, ![1 - i] = @ - out]
        /\ UNCHANGED <<config, books, aqua, totalShares, strategyShares, claimable>>
    BY <1>2 DEF Trade
  <2> HIDE DEF out
  <2>4. reserves' \in [Idx -> Nat \ {0}]
    BY <2>1, <2>2, <2>3
  <2> QED
    BY <1>1, <2>3, <2>4 DEF Attribution, TypeOK, AttributionExact, books
<1>3. ASSUME NEW amount \in Rewards, RewardsAccrue(amount)
      PROVE  Attribution' /\ totalShares' = totalShares
  <2>1. /\ claimable' \in Nat
        /\ UNCHANGED <<config, books, aqua, market>>
    BY <1>1, <1>3, AquariusStrategyAssumption DEF RewardsAccrue, TypeOK
  <2> QED
    BY <1>1, <2>1 DEF Attribution, TypeOK, AttributionExact, books, market
<1> QED
  BY <1>2, <1>3 DEF PoolEvent

\* A step keeps the invariant, and one that burns shares leaves the strategy's tokens alone.
LEMMA StepAttributes ==
  ASSUME Attribution, [Next]_vars
  PROVE  /\ Attribution'
         /\ totalShares' < totalShares => heldDeposit' = heldDeposit /\ heldPair' = heldPair
<1> DEFINE Goal == /\ Attribution'
                   /\ totalShares' < totalShares =>
                        heldDeposit' = heldDeposit /\ heldPair' = heldPair
<1>1. totalShares \in Nat
  BY Market DEF Attribution
<1>2. ASSUME NEW v \in Vaults, Deposit(v)
      PROVE  Goal
  <2>1. PICK amount \in Amounts : DepositCall(v, amount)
    BY <1>2 DEF Deposit
  <2>2. Attribution' /\ totalShares' >= totalShares
    BY <2>1, DepositAttributes
  <2>3. totalShares' \in Nat
    BY <2>2 DEF Attribution, TypeOK
  <2> QED
    BY <1>1, <2>2, <2>3
<1>3. ASSUME NEW v \in Vaults, Withdraw(v)
      PROVE  Goal
  BY <1>3, WithdrawAttributes DEF Withdraw
<1>4. ASSUME NEW v \in Vaults, Transfer(v)
      PROVE  Goal
  <2>1. totalShares' = totalShares
    BY <1>4 DEF Transfer, market
  <2> QED
    BY <1>1, <1>4, <2>1, TransferAttributes
<1>5. ASSUME NEW v \in Vaults, Harvest(v)
      PROVE  Goal
  <2>1. totalShares' = totalShares
    BY <1>5 DEF Harvest, market
  <2> QED
    BY <1>1, <1>5, <2>1, HarvestAttributes
<1>6. CASE PoolEvent
  <2>1. Attribution' /\ totalShares' = totalShares
    BY <1>6, PoolEventAttributes
  <2> QED
    BY <1>1, <2>1
<1>7. CASE UNCHANGED vars
  BY <1>7 DEF vars, books, market, Attribution, TypeOK, AttributionExact
<1> QED
  BY <1>2, <1>3, <1>4, <1>5, <1>6, <1>7 DEF Next

-----------------------------------------------------------------------------

\* Every share the strategy holds is attributed to one vault, in every reachable state, whichever
\* transfers a deposit has used and for both orders of the pool's tokens.
THEOREM AttributionHolds == Spec => []Attribution
<1>1. Init => Attribution
  <2> SUFFICES ASSUME Init
               PROVE  Attribution
    OBVIOUS
  <2>1. config \in Configs /\ config.depositIdx # config.pairIdx
    <3>1. PICK tokens \in [Idx -> Tokens], slippage \in Slippages :
            /\ \A token \in Tokens : \E i \in Idx : tokens[i] = token
            /\ slippage <= MAX_SLIPPAGE_BPS
            /\ config = NewConfig(tokens, slippage)
      BY DEF Init
    <3>2. ASSUME NEW token \in Tokens
          PROVE  IndexOf(tokens, token) \in Idx /\ tokens[IndexOf(tokens, token)] = token
      <4>1. \E i \in Idx : tokens[i] = token /\ \A j \in Idx : tokens[j] = token => j <= i
        BY <3>1 DEF Idx
      <4> QED
        BY <4>1 DEF IndexOf
    <3>3. slippage \in 0..MAX_SLIPPAGE_BPS
      BY <3>1, AquariusStrategyAssumption DEF MAX_SLIPPAGE_BPS
    <3>4. /\ IndexOf(tokens, "deposit") \in Idx /\ IndexOf(tokens, "pair") \in Idx
          /\ IndexOf(tokens, "deposit") # IndexOf(tokens, "pair")
      BY <3>2 DEF Tokens
    <3> QED
      BY <3>1, <3>3, <3>4 DEF NewConfig, Configs
  <2>2. reserves \in [Idx -> Nat \ {0}]
    BY AquariusStrategyAssumption DEF Init
  <2>3. TypeOK
    BY <2>1, <2>2, AquariusStrategyAssumption DEF Init, TypeOK
  <2>4. SumFunction(shares) = 0
    BY SumOfZeros, AquariusStrategyAssumption DEF Init
  <2> QED
    BY <2>3, <2>4 DEF Init, Attribution, AttributionExact
<1>2. Attribution /\ [Next]_vars => Attribution'
  BY StepAttributes
<1> QED
  BY <1>1, <1>2, PTL DEF Spec

\* The shares attributed to the vaults are those the strategy holds in the pool.
THEOREM AttributionIsExact == Spec => []AttributionExact
  BY AttributionHolds, PTL DEF Attribution

\* No vault's shares and no balance turns negative, and the pool is never emptied.
THEOREM TypesHold == Spec => []TypeOK
  BY AttributionHolds, PTL DEF Attribution

\* A withdrawal pays out all it has redeemed and swapped, to the last unit.
THEOREM NothingIsLeftBehind == Spec => WithdrawLeavesNothing
<1>1. Attribution /\ [Next]_vars =>
        [totalShares' < totalShares => heldDeposit' = heldDeposit /\ heldPair' = heldPair]_vars
  BY StepAttributes
<1> QED
  BY <1>1, AttributionHolds, PTL DEF Spec, WithdrawLeavesNothing

-----------------------------------------------------------------------------
(* No call is refused. *)

\* Burning lp shares redeems at least the minimum asked for, of either token.
LEMMA RedeemsTheMinimum ==
  ASSUME TypeOK, NEW lp \in Nat, NEW reserve \in Nat \ {0}
  PROVE  /\ MinWithSlippage(OrZero(MaxU128, reserve, lp, totalShares)) \in Nat
         /\ Redeemed(lp, reserve, totalShares) \in Nat
         /\ MinWithSlippage(OrZero(MaxU128, reserve, lp, totalShares))
              <= Redeemed(lp, reserve, totalShares)
<1> DEFINE quote == OrZero(MaxU128, reserve, lp, totalShares)
<1>1. totalShares \in Nat \ {0} /\ MaxU128 \in Int
  BY Market, MaxI128Assumption DEF MaxU128
<1>2. quote \in Nat /\ quote <= MulDivFloor(reserve, lp, totalShares)
  BY <1>1, OrZeroIsNatural
<1> HIDE DEF quote
<1>3. MinWithSlippage(quote) \in Nat /\ MinWithSlippage(quote) <= quote
  BY <1>2, MinimumIsMet
<1>4. MulDivFloor(reserve, lp, totalShares) = MulDivFloor(lp, reserve, totalShares)
  <2>1. reserve * lp = lp * reserve
    OBVIOUS
  <2> QED
    BY <2>1 DEF MulDivFloor
<1>5. MulDivFloor(lp, reserve, totalShares) \in Nat
  BY <1>1, FloorBounds
<1> QED
  BY <1>2, <1>3, <1>4, <1>5 DEF Redeemed, quote

\* The minimums of a withdrawal are those of its two tokens and of the swap back.
LEMMA WithdrawIsAccepted ==
  ASSUME TypeOK, NEW lp \in Nat, lp <= strategyShares
  PROVE  WithdrawAccepted(lp)
<1>1. ASSUME NEW i \in Idx
      PROVE  AmountsOut(lp)[i] >= MinAmounts(lp)[i]
  <2> DEFINE m == MinWithSlippage(OrZero(MaxU128, reserves[i], lp, totalShares))
             q == Redeemed(lp, reserves[i], totalShares)
  <2>1. reserves[i] \in Nat \ {0}
    BY Market
  <2>2. m \in Nat /\ q \in Nat /\ m <= q
    BY <2>1, RedeemsTheMinimum
  <2>3. AmountsOut(lp)[i] = q
    BY DEF AmountsOut
  <2>4. MinAmounts(lp)[i] = m
    BY Market DEF MinAmounts, InPoolOrder, ReserveOfDeposit, ReserveOfPair
  <2> HIDE DEF m, q
  <2> QED
    BY <2>2, <2>3, <2>4
<1>2. Swapped(lp) >= MinWithSlippage(Swapped(lp))
  <2>1. Swapped(lp) \in Nat
    BY WithdrawPays
  <2>2. MinWithSlippage(Swapped(lp)) \in Nat /\ MinWithSlippage(Swapped(lp)) <= Swapped(lp)
    BY <2>1, MinimumIsMet
  <2> QED
    BY <2>1, <2>2
<1> QED
  BY <1>1, <1>2 DEF WithdrawAccepted

LEMMA DepositIsAccepted ==
  ASSUME TypeOK, NEW amount \in Nat
  PROVE  DepositAccepted(amount)
<1>1. /\ PairReceived(amount) \in Nat /\ PoolMints(amount) \in Nat
      /\ Desired(amount)[config.depositIdx] = Remaining(amount)
      /\ Desired(amount)[config.pairIdx] = PairToAdd(amount)
  BY DepositMoves, PoolKeeps
<1>2. ASSUME NEW x \in Nat
      PROVE  x >= MinWithSlippage(x)
  BY MinimumIsMet
<1> QED
  BY <1>1, <1>2 DEF DepositAccepted

\* No minimum and no authorisation refuses a call: for every slippage, reserve and amount, the
\* bounds computed in the call are met by what the call then does.
THEOREM NoCallIsRefused == Spec => []NeverRefused
<1>1. ASSUME TypeOK
      PROVE  NeverRefused
  <2>1. ASSUME NEW v \in Vaults, NEW amount \in Amounts, WithdrawOk(v, amount)
        PROVE  WithdrawAccepted(SharesToBurn(v, amount))
    BY <1>1, <2>1, WithdrawBurns, WithdrawIsAccepted, AquariusStrategyAssumption
  <2>2. ASSUME NEW amount \in Amounts
        PROVE  DepositAccepted(amount)
    BY <1>1, DepositIsAccepted, AquariusStrategyAssumption
  <2> QED
    BY <2>1, <2>2 DEF NeverRefused
<1>2. TypeOK => NeverRefused
  BY <1>1
<1> QED
  BY <1>2, TypesHold, PTL

-----------------------------------------------------------------------------
(* What a deposit is credited. *)

\* A deposit adds at most the pair token that matches the deposit token it offers.
LEMMA AddedMatches ==
  ASSUME TypeOK, NEW amount \in Nat
  PROVE  Kept(amount)[config.pairIdx] * AfterSwap(amount)[config.depositIdx]
           <= Remaining(amount) * AfterSwap(amount)[config.pairIdx]
<1> DEFINE left  == Remaining(amount)
           rd    == AfterSwap(amount)[config.depositIdx]
           rp    == AfterSwap(amount)[config.pairIdx]
           kept  == Kept(amount)[config.pairIdx]
           floor == MulDivFloor(left, rp, rd)
<1>1. /\ left \in Nat /\ rd \in Nat \ {0} /\ rp \in Nat \ {0} /\ kept \in Nat
      /\ PairToAdd(amount) \in Nat /\ PairReceived(amount) \in Nat /\ kept <= PairToAdd(amount)
  <2>1. config.depositIdx \in Idx /\ config.pairIdx \in Idx
    BY Market
  <2>2. /\ left \in Nat /\ AfterSwap(amount) \in [Idx -> Nat \ {0}]
        /\ PairToAdd(amount) \in Nat /\ PairReceived(amount) \in Nat
    BY DepositMoves
  <2>3. Kept(amount) \in [Idx -> Nat] /\ kept <= PairToAdd(amount)
    BY PoolKeeps
  <2> QED
    BY <2>1, <2>2, <2>3
<1>2. PairOptimal(amount) \in Nat /\ PairOptimal(amount) <= floor
  <2>1. MaxI128 \in Int /\ rp \in Nat
    BY <1>1, MaxI128Assumption
  <2>2. PairOptimal(amount) = OrZero(MaxI128, left, rp, rd)
    BY DEF PairOptimal
  <2> HIDE DEF left, rp, rd, floor
  <2> QED
    BY <1>1, <2>1, <2>2, OrZeroIsNatural DEF floor
<1>3. PairToAdd(amount) <= PairOptimal(amount)
  BY <1>1, <1>2 DEF PairToAdd
<1> HIDE DEF left, rd, rp, kept
<1>4. floor \in Nat /\ floor * rd <= left * rp
  BY <1>1, FloorBounds
<1> HIDE DEF floor
<1>5. kept <= floor
  BY <1>1, <1>2, <1>3, <1>4
<1>6. kept * rd <= floor * rd
  BY <1>1, <1>4, <1>5, ScaleFactor
<1>7. kept * rd \in Int /\ floor * rd \in Int /\ left * rp \in Int
  BY <1>1, <1>4
<1>8. kept * rd <= left * rp
  BY <1>4, <1>6, <1>7
<1> QED
  BY <1>8 DEF kept, rd, left, rp

\* Liquidity is the same for a pool that lists its tokens in the other order.
LEMMA LiquidityIsSymmetric ==
  ASSUME NEW a \in Nat, NEW b \in Nat, NEW ra \in Nat \ {0}, NEW rb \in Nat \ {0}, NEW lp \in Nat
  PROVE  Liquidity(a, b, ra, rb, lp) = Liquidity(b, a, rb, ra, lp)
<1>1. MulDivFloor(a, lp, ra) \in Nat /\ MulDivFloor(b, lp, rb) \in Nat
  BY FloorBounds
<1> QED
  BY <1>1 DEF Liquidity

\* Whichever token is the pool's first, what a deposit is credited is worth no more than the
\* vault put in: swap, fee and refunds are paid by the depositor.
THEOREM DepositsAreNotOvervalued == Spec => []DepositNotOvervalued
<1>1. ASSUME TypeOK, NEW amount \in Amounts
      PROVE  LET after == [i \in Idx |-> AfterSwap(amount)[i] + Kept(amount)[i]]
                 lp    == totalShares + PoolMints(amount)
                 part  == [i \in Idx |-> MulDivFloor(SharesMinted(amount), after[i], lp)]
             IN  part[config.depositIdx]
                   + MulDivFloor(part[config.pairIdx], after[config.depositIdx],
                                 after[config.pairIdx])
                 <= 2 * Remaining(amount)
  <2> DEFINE left   == Remaining(amount)
             rd     == AfterSwap(amount)[config.depositIdx]
             rp     == AfterSwap(amount)[config.pairIdx]
             a      == Kept(amount)[config.depositIdx]
             b      == Kept(amount)[config.pairIdx]
             minted == PoolMints(amount)
             lp     == totalShares + minted
  <2>1. amount \in Nat /\ totalShares \in Nat \ {0}
    BY <1>1, Market, AquariusStrategyAssumption
  <2>2. /\ left \in Nat /\ a \in Nat /\ b \in Nat /\ a <= left
        /\ rd \in Nat \ {0} /\ rp \in Nat \ {0} /\ b * rd <= left * rp
    <3>1. left \in Nat /\ rd \in Nat \ {0} /\ rp \in Nat \ {0}
      <4>1. left \in Nat /\ AfterSwap(amount) \in [Idx -> Nat \ {0}]
        BY <1>1, <2>1, DepositMoves
      <4>2. config.depositIdx \in Idx /\ config.pairIdx \in Idx
        BY <1>1, Market
      <4> QED
        BY <4>1, <4>2
    <3>2. a \in Nat /\ b \in Nat /\ a <= left
      BY <1>1, <2>1, PoolKeeps, Market
    <3>3. b * rd <= left * rp
      BY <1>1, <2>1, AddedMatches
    <3> QED
      BY <3>1, <3>2, <3>3
  <2>3. minted = Liquidity(a, b, rd, rp, totalShares)
    <3>1. CASE config.depositIdx = 0 /\ config.pairIdx = 1
      BY <3>1 DEF PoolMints
    <3>2. CASE config.depositIdx = 1 /\ config.pairIdx = 0
      <4>1. minted = Liquidity(b, a, rp, rd, totalShares)
        BY <3>2 DEF PoolMints
      <4>2. totalShares \in Nat
        BY <2>1
      <4> HIDE DEF minted, a, b, rd, rp
      <4> QED
        BY <2>2, <4>1, <4>2, LiquidityIsSymmetric
    <3> QED
      BY <1>1, <3>1, <3>2, Market
  <2> HIDE DEF left, rd, rp, a, b, minted
  <2>4. MulDivFloor(minted, rd + a, lp) + MulDivFloor(MulDivFloor(minted, rp + b, lp), rd + a, rp + b)
          <= 2 * left
    BY <2>1, <2>2, <2>3, CreditWithinAdded
  <2>5. config.depositIdx \in Idx /\ config.pairIdx \in Idx
    BY <1>1, Market
  <2> QED
    BY <2>4, <2>5 DEF SharesMinted, left, rd, rp, a, b, minted
<1>2. TypeOK => DepositNotOvervalued
  BY <1>1 DEF DepositNotOvervalued
<1> QED
  BY <1>2, TypesHold, PTL

-----------------------------------------------------------------------------
(* What a withdrawal pays. *)

\* A withdrawal of less than the balance redeems and swaps back at most one unit more.
LEMMA PartIsPaid ==
  ASSUME FeeNum > 0, TypeOK, AttributionExact, NEW v \in Vaults, NEW amount \in Nat,
         amount < Balance(v), ValuationFits(v)
  PROVE  TotalDeposit(SharesToBurn(v, amount)) <= amount + 1
<1> DEFINE own   == shares[v]
           A     == ReserveOfDeposit
           B     == ReserveOfPair
           value == MulDivFloor(A, own, totalShares)
                      + MulDivFloor(MulDivFloor(B, own, totalShares), A, B)
<1>1. /\ A \in Nat \ {0} /\ B \in Nat \ {0} /\ totalShares \in Nat \ {0}
      /\ strategyShares \in Nat /\ strategyShares < totalShares
  BY Market
<1>2. own \in Nat /\ own < totalShares
  <2>1. /\ own \in Nat /\ own <= SumFunction(shares)
        /\ SumFunction(shares) = strategyShares
    BY SumBoundsEach, AquariusStrategyAssumption DEF TypeOK, AttributionExact
  <2> HIDE DEF own
  <2> QED
    BY <1>1, <2>1
<1>3. Balance(v) = value
  BY DEF Balance, SharesValueInDeposit, ValuationFits, OrZero
<1>4. SharesToBurn(v, amount) = MulDivFloor(own, amount, value)
  <2>1. Balance(v) \in Nat
    BY BalanceWithinValuation
  <2> QED
    BY <1>3, <2>1 DEF SharesToBurn
<1> DEFINE lp == MulDivFloor(own, amount, value)
           do == Redeemed(lp, A, totalShares)
           po == Redeemed(lp, B, totalShares)
<1>5. DepositOut(lp) = do /\ PairOut(lp) = po
  BY Market DEF DepositOut, PairOut, AmountsOut, ReserveOfDeposit, ReserveOfPair
<1>6. do + (IF po = 0 THEN 0 ELSE SwapOut(po, B - po, A - do)) <= amount + 1
  <2>1. amount < value /\ totalShares \in Nat
    BY <1>1, <1>3
  <2> HIDE DEF own, A, B
  <2> QED
    BY <1>1, <1>2, <2>1, WithdrawalWithinRequest
<1>7. lp \in Nat
  <2>1. value \in Nat \ {0}
    <3>1. Balance(v) \in Nat
      BY BalanceWithinValuation
    <3> QED
      BY <1>3, <3>1
  <2> HIDE DEF own, value
  <2> QED
    BY <1>2, <2>1, FloorBounds
<1>8. po \in Nat
  <2> HIDE DEF lp, B
  <2> QED
    BY <1>1, <1>7, FloorBounds DEF Redeemed
<1>9. TotalDeposit(lp) = do + (IF po = 0 THEN 0 ELSE SwapOut(po, B - po, A - do))
  <2> HIDE DEF lp, do, po, A, B
  <2> QED
    BY <1>5, <1>8 DEF TotalDeposit, Swapped, A, B
<1> HIDE DEF lp, do, po, A, B
<1> QED
  BY <1>4, <1>6, <1>9 DEF lp, A, B

\* What a withdrawal pays and what its swap back costs, in terms of the two reserves.
LEMMA PaymentAndCost ==
  ASSUME TypeOK, NEW lp \in Nat, lp <= strategyShares
  PROVE  /\ TotalDeposit(lp) = PaidFor(lp, ReserveOfDeposit, ReserveOfPair, totalShares)
         /\ SwapCost(lp) = CostOf(lp, ReserveOfDeposit, ReserveOfPair, totalShares)
<1>1. /\ DepositOut(lp) = Redeemed(lp, ReserveOfDeposit, totalShares)
      /\ PairOut(lp) = Redeemed(lp, ReserveOfPair, totalShares)
  BY Market DEF DepositOut, PairOut, AmountsOut, ReserveOfDeposit, ReserveOfPair
<1>2. PairOut(lp) \in Nat
  BY WithdrawPays
<1>3. SwapCost(lp) = CostOf(lp, ReserveOfDeposit, ReserveOfPair, totalShares)
  BY <1>1 DEF SwapCost, CostOf, SecondOf
<1>4. TotalDeposit(lp) = DepositOut(lp) + (IF PairOut(lp) = 0 THEN 0 ELSE Swapped(lp))
  BY <1>2 DEF TotalDeposit
<1>5. Swapped(lp) = SwapOut(PairOut(lp), ReserveOfPair - PairOut(lp),
                            ReserveOfDeposit - DepositOut(lp))
  BY DEF Swapped
<1> QED
  BY <1>1, <1>3, <1>4, <1>5 DEF PaidFor, SecondOf

\* No withdrawal pays less than was asked, or than the balance, but for the cost of the swap
\* back, the share the burn rounds off, and a unit.
LEMMA IsPaidInFull ==
  ASSUME TypeOK, AttributionExact, NEW v \in Vaults, NEW amount \in Nat, WithdrawOk(v, amount)
  PROVE  LET lp == SharesToBurn(v, amount)
         IN  IF amount < Balance(v)
             THEN amount <= TotalDeposit(lp) + SwapCost(lp)
                              + MulDivCeil(2, ReserveOfDeposit, totalShares) + 1
             ELSE lp = shares[v] /\ Balance(v) <= TotalDeposit(lp) + SwapCost(lp) + 1
<1> DEFINE own   == shares[v]
           value == Balance(v)
           lp    == SharesToBurn(v, amount)
           paid  == TotalDeposit(lp)
           cost  == SwapCost(lp)
           A     == ReserveOfDeposit
           B     == ReserveOfPair
<1>1. /\ A \in Nat \ {0} /\ B \in Nat \ {0} /\ totalShares \in Nat \ {0}
      /\ strategyShares \in Nat /\ strategyShares < totalShares
  BY Market
<1>2. own \in Nat \ {0} /\ own < totalShares
  <2>1. /\ own \in Nat /\ own <= SumFunction(shares)
        /\ SumFunction(shares) = strategyShares
    BY SumBoundsEach, AquariusStrategyAssumption DEF TypeOK, AttributionExact
  <2>2. own # 0
    BY DEF WithdrawOk
  <2> HIDE DEF own
  <2> QED
    BY <1>1, <2>1, <2>2
<1>3. value \in Nat \ {0} /\ value * totalShares <= 2 * (own * A)
  <2>1. /\ value \in Nat
        /\ value <= MulDivFloor(A, own, totalShares)
                      + MulDivFloor(MulDivFloor(B, own, totalShares), A, B)
    BY BalanceWithinValuation
  <2>2. value # 0
    BY DEF WithdrawOk
  <2> HIDE DEF own, value, A, B
  <2> QED
    BY <1>1, <1>2, <2>1, <2>2, ValuationWithinPart
<1>4. lp = (IF amount >= value THEN own ELSE MulDivFloor(own, amount, value))
  BY DEF SharesToBurn
<1>5. lp \in Nat /\ lp <= strategyShares
  BY WithdrawBurns
<1>6. paid = PaidFor(lp, A, B, totalShares) /\ cost = CostOf(lp, A, B, totalShares)
  <2> HIDE DEF lp
  <2> QED
    BY <1>5, PaymentAndCost
<1> HIDE DEF own, value, lp, paid, cost, A, B
<1>7. lp < totalShares
  BY <1>1, <1>5
<1>8. CASE amount < value
  <2>1. lp = MulDivFloor(own, amount, value)
    BY <1>3, <1>4, <1>8
  <2>2. own * amount < lp * value + value
    BY <1>2, <1>3, <2>1, FloorBounds
  <2>3. amount <= paid + cost + MulDivCeil(2, A, totalShares) + 1
    BY <1>1, <1>2, <1>3, <1>5, <1>6, <1>7, <2>2, PartPays
  <2> QED
    BY <1>8, <2>3 DEF value, lp, paid, cost, A
<1>9. CASE ~(amount < value)
  <2>1. lp = own
    BY <1>3, <1>4, <1>9
  <2>2. value <= paid + cost + 1
    BY <1>1, <1>2, <1>3, <1>6, <2>1, WholeIsPaid
  <2> QED
    BY <1>9, <2>1, <2>2 DEF own, value, lp, paid, cost
<1> QED
  BY <1>8, <1>9

\* Given a fee, however small, every withdrawal pays what was asked, or the balance: no less but
\* for the cost of the swap back and the roundings, whichever products have overflowed, and no
\* more than a unit more where none has.
THEOREM WithdrawalsArePaidAsAsked ==
  ASSUME FeeNum > 0
  PROVE  Spec => []PaidAsAsked
<1>1. ASSUME TypeOK, AttributionExact
      PROVE  PaidAsAsked
  <2>1. ASSUME NEW v \in Vaults, NEW amount \in Amounts, WithdrawOk(v, amount),
               amount < Balance(v), ValuationFits(v)
        PROVE  TotalDeposit(SharesToBurn(v, amount)) <= amount + 1
    BY <1>1, <2>1, PartIsPaid, AquariusStrategyAssumption
  <2>2. ASSUME NEW v \in Vaults, NEW amount \in Amounts, WithdrawOk(v, amount)
        PROVE  LET lp == SharesToBurn(v, amount)
               IN  IF amount < Balance(v)
                   THEN amount <= TotalDeposit(lp) + SwapCost(lp)
                                    + MulDivCeil(2, ReserveOfDeposit, totalShares) + 1
                   ELSE lp = shares[v] /\ Balance(v) <= TotalDeposit(lp) + SwapCost(lp) + 1
    BY <1>1, <2>2, IsPaidInFull, AquariusStrategyAssumption
  <2> QED
    BY <2>1, <2>2 DEF PaidAsAsked
<1>2. TypeOK /\ AttributionExact => PaidAsAsked
  BY <1>1
<1> QED
  BY <1>2, TypesHold, AttributionIsExact, PTL

-----------------------------------------------------------------------------
(* What the balances add up to. *)

\* What balance() tells all the vaults together is within the valuation of the shares the
\* strategy holds, however many vaults there are and whichever of their valuations overflow.
THEOREM BalancesAreCovered == Spec => []Solvent
<1>1. ASSUME TypeOK, AttributionExact
      PROVE  Solvent
  <2> DEFINE bal == [v \in Vaults |-> Balance(v)]
             A   == ReserveOfDeposit
             B   == ReserveOfPair
  <2>1. /\ shares \in [Vaults -> Nat] /\ IsFiniteSet(Vaults)
        /\ A \in Nat \ {0} /\ B \in Nat \ {0} /\ totalShares \in Nat \ {0}
        /\ SumFunction(shares) = strategyShares
    BY <1>1, Market, AquariusStrategyAssumption DEF TypeOK, AttributionExact
  <2>2. ASSUME NEW v \in Vaults
        PROVE  /\ Balance(v) \in Nat
               /\ Balance(v) <= MulDivFloor(A, shares[v], totalShares)
                                  + MulDivFloor(MulDivFloor(B, shares[v], totalShares), A, B)
    BY <1>1, BalanceWithinValuation
  <2>3. /\ bal \in [Vaults -> Nat]
        /\ \A v \in Vaults :
             bal[v] <= MulDivFloor(A, shares[v], totalShares)
                         + MulDivFloor(MulDivFloor(B, shares[v], totalShares), A, B)
    BY <2>2
  <2> HIDE DEF bal, A, B
  <2>4. SumFunction(bal) <= MulDivFloor(A, SumFunction(shares), totalShares)
          + MulDivFloor(MulDivFloor(B, SumFunction(shares), totalShares), A, B)
    BY <2>1, <2>3, ValuationsAddUp
  <2> QED
    BY <2>1, <2>4 DEF bal, A, B, PositionInDeposit, Solvent
<1>2. TypeOK /\ AttributionExact => Solvent
  BY <1>1
<1> QED
  BY <1>2, TypesHold, AttributionIsExact, PTL

-----------------------------------------------------------------------------
(* The admin. *)

\* No call of the admin ever happens: the constructor made the contract itself the admin, which
\* signs no call, and no other call changes that.  With the admin's calls the contract behaves as
\* without, and everything proved of Spec holds of it.
THEOREM AdminNeverActs == SpecWithAdmin => Spec
<1> DEFINE OwnAdmin == config.admin = Strategy
<1>1. Init => OwnAdmin
  BY DEF Init, NewConfig
<1>2. OwnAdmin /\ [Next \/ AdminNext]_vars => [Next]_vars
  <2>1. ASSUME OwnAdmin, NEW caller
        PROVE  ~AuthorisedAdmin(caller)
    BY <2>1, AquariusStrategyAssumption DEF AuthorisedAdmin
  <2>2. ASSUME OwnAdmin
        PROVE  ~AdminNext
    BY <2>1, <2>2 DEF AdminNext, UpdateSlippage, Sweep
  <2> QED
    BY <2>2
<1>3. [Next]_vars => config' = config
  BY DEF Next, vars, Deposit, DepositCall, Withdraw, WithdrawCall, Transfer, Harvest, PoolEvent,
         Trade, RewardsAccrue
<1>4. OwnAdmin /\ config' = config => OwnAdmin'
  OBVIOUS
<1> HIDE DEF OwnAdmin
<1> QED
  BY <1>1, <1>2, <1>3, <1>4, PTL DEF Spec, SpecWithAdmin

-----------------------------------------------------------------------------
(* The share ledger. *)

\* The attribution implements the share ledger, at the constant price of one share a claim.
THEOREM ImplementsLedger == Spec => ImplementsShareLedger
<1>1. Init => FairShares!Init
  BY SumOfZeros, AquariusStrategyAssumption DEF Init, FairShares!Init
<1>2. ASSUME Attribution, Attribution', [Next]_vars
      PROVE  [FairShares!Next]_(FairShares!ledger)
  <2>1. /\ shares \in [Vaults -> Nat] /\ strategyShares \in Nat
        /\ SumFunction(shares) = strategyShares /\ SumFunction(shares') = strategyShares'
    BY <1>2 DEF Attribution, TypeOK, AttributionExact
  <2>2. ASSUME shares' = shares, strategyShares' = strategyShares
        PROVE  [FairShares!Next]_(FairShares!ledger)
    BY <2>1, <2>2 DEF FairShares!ledger
  <2>3. ASSUME NEW v \in Vaults, NEW amount \in Amounts, DepositCall(v, amount)
        PROVE  [FairShares!Next]_(FairShares!ledger)
    <3> DEFINE minted == PoolMints(amount)
    <3>1. minted \in Nat
      BY <1>2, PoolKeeps, AquariusStrategyAssumption DEF Attribution
    <3>2. /\ shares' = [shares EXCEPT ![v] = @ + minted]
          /\ strategyShares' = strategyShares + minted
      BY <2>3 DEF DepositCall, SharesMinted
    <3> HIDE DEF minted
    <3>3. CASE minted = 0
      BY <2>1, <2>2, <3>2, <3>3
    <3>4. CASE minted > 0
      <4>1. FairShares!OnlyClaimsOf(v)
        BY <2>1, <3>2 DEF FairShares!OnlyClaimsOf
      <4>2. shares'[v] = shares[v] + minted /\ shares[v] \in Nat
        BY <2>1, <3>2
      <4>3. (strategyShares' - strategyShares) * strategyShares
              >= (strategyShares' - strategyShares) * strategyShares
        BY <2>1, <3>1, <3>2
      <4>4. /\ shares'[v] > shares[v] /\ strategyShares' > strategyShares
            /\ strategyShares' - strategyShares >= shares'[v] - shares[v]
        BY <2>1, <3>1, <3>2, <3>4, <4>2
      <4>5. FairShares!Join(v)
        BY <2>1, <4>1, <4>3, <4>4 DEF FairShares!Join
      <4> QED
        BY <4>5 DEF FairShares!Next
    <3> QED
      BY <3>1, <3>3, <3>4
  <2>4. ASSUME NEW v \in Vaults, NEW to \in Vaults, NEW amount \in Amounts,
               WithdrawCall(v, to, amount)
        PROVE  [FairShares!Next]_(FairShares!ledger)
    <3> DEFINE burnt == SharesToBurn(v, amount)
    <3>1. burnt \in Nat \ {0} /\ burnt <= shares[v] /\ shares[v] \in Nat
      BY <1>2, <2>4, WithdrawBurns, AquariusStrategyAssumption DEF Attribution, WithdrawCall
    <3>2. shares' = [shares EXCEPT ![v] = @ - burnt] /\ strategyShares' = strategyShares - burnt
      BY <2>4 DEF WithdrawCall
    <3> HIDE DEF burnt
    <3>3. FairShares!OnlyClaimsOf(v)
      BY <2>1, <3>2 DEF FairShares!OnlyClaimsOf
    <3>4. shares'[v] = shares[v] - burnt
      BY <2>1, <3>2
    <3>5. /\ shares'[v] < shares[v] /\ shares'[v] >= 0 /\ strategyShares' < strategyShares
          /\ strategyShares - strategyShares' = shares[v] - shares'[v]
      BY <2>1, <3>1, <3>2, <3>4
    <3>6. (strategyShares - strategyShares') * strategyShares
            <= (strategyShares - strategyShares') * strategyShares
      BY <2>1, <3>1, <3>2
    <3>7. FairShares!Leave(v)
      BY <2>1, <3>3, <3>5, <3>6 DEF FairShares!Leave
    <3> QED
      BY <3>7 DEF FairShares!Next
  <2>5. ASSUME \/ \E v \in Vaults : Transfer(v) \/ Harvest(v)
               \/ PoolEvent
               \/ UNCHANGED vars
        PROVE  [FairShares!Next]_(FairShares!ledger)
    BY <2>2, <2>5 DEF Transfer, Harvest, PoolEvent, Trade, RewardsAccrue, vars, books, market
  <2> QED
    BY <1>2, <2>3, <2>4, <2>5 DEF Next, Deposit, Withdraw
<1>3. Attribution /\ Attribution' /\ [Next]_vars => [FairShares!Next]_(FairShares!ledger)
  BY <1>2
<1> QED
  BY <1>1, <1>3, AttributionHolds, PTL DEF Spec, ImplementsShareLedger, FairShares!Spec
=============================================================================
