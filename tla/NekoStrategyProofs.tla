-------------------------- MODULE NekoStrategyProofs ------------------------
(***************************************************************************)
(* strategy-neko attributes the pool's b_tokens exactly, exchanges at the  *)
(* rate the pool executes a call at, and pays what balance() reports, for  *)
(* every set of vaults, every amount and every growing sequence of rates.  *)
(***************************************************************************)
EXTENDS NekoStrategy, ArithmeticTheorems

Attribution == TypeOK /\ AttributionExact

\* What a deposit mints, and what a withdrawal burns and pays.
LEMMA DepositMints ==
  ASSUME TypeOK, NEW amount \in Amounts, NEW executed \in Accruals
  PROVE  PoolMints(amount, executed) \in Nat /\ amount \in Nat /\ executed \in Rates
  BY FloorBounds, NekoStrategyAssumption DEF Accruals, PoolMints

LEMMA WithdrawBurns ==
  ASSUME TypeOK, NEW v \in Vaults, NEW amount \in Amounts, WithdrawComputable(v, amount)
  PROVE  /\ BTokensToBurn(v, amount) \in Nat \ {0}
         /\ BTokensToBurn(v, amount) <= bTokens[v]
         /\ bTokens[v] \in Nat
<1>1. bTokens[v] \in Nat /\ poolRate \in Nat \ {0} /\ amount \in Nat /\ SCALAR_12 \in Nat
  BY NekoStrategyAssumption DEF TypeOK
<1>2. BTokensFor(amount, poolRate) \in Nat
  BY <1>1, CeilBounds DEF BTokensFor
<1>3. BTokensFor(amount, poolRate) # 0 /\ bTokens[v] # 0
  BY DEF WithdrawComputable
<1> QED
  BY <1>1, <1>2, <1>3 DEF BTokensToBurn

LEMMA PaymentIsNatural ==
  ASSUME NEW b \in Nat, NEW rate \in Rates
  PROVE  Payment(b, rate) \in Nat /\ Payment(b, rate) = Underlying(b, rate)
  BY FloorBounds, NekoStrategyAssumption DEF Payment, Underlying

LEMMA DepositAttributes ==
  ASSUME Attribution, NEW v \in Vaults, NEW amount \in Amounts, NEW executed \in Accruals,
         DepositCall(v, amount, executed)
  PROVE  Attribution'
<1> DEFINE minted == PoolMints(amount, executed)
<1>1. TypeOK /\ AttributionExact
  BY DEF Attribution
<1>2. minted \in Nat /\ amount \in Nat /\ executed \in Rates
  BY <1>1, DepositMints
<1>3. /\ amount <= held
      /\ bTokens' = [bTokens EXCEPT ![v] = @ + minted]
      /\ position' = position + minted
      /\ held' = held - amount
      /\ poolCash' = poolCash + amount /\ poolRate' = executed /\ wallet' = wallet
  BY DEF DepositCall, Attributed
<1> HIDE DEF minted
<1>4. /\ bTokens \in [Vaults -> Nat] /\ held \in Nat
      /\ position \in Nat /\ poolCash \in Nat /\ bTokens[v] \in Nat
  BY <1>1 DEF TypeOK
<1>5. /\ bTokens' \in [Vaults -> Nat]
      /\ SumFunction(bTokens') = SumFunction(bTokens) + minted
  <2>1. /\ bTokens' \in [Vaults -> Nat] /\ bTokens'[v] = bTokens[v] + minted
        /\ \A u \in Vaults \ {v} : bTokens'[u] = bTokens[u]
        /\ IsFiniteSet(Vaults) /\ bTokens \in [Vaults -> Nat] /\ minted \in Nat
    BY <1>2, <1>3, <1>4, NekoStrategyAssumption
  <2> QED
    BY <2>1, SumChanges
<1>6. TypeOK'
  BY <1>1, <1>2, <1>3, <1>4, <1>5 DEF TypeOK
<1>7. AttributionExact'
  BY <1>1, <1>3, <1>5 DEF AttributionExact
<1> QED
  BY <1>6, <1>7 DEF Attribution

LEMMA WithdrawAttributes ==
  ASSUME Attribution, NEW v \in Vaults, NEW to \in Vaults, NEW amount \in Amounts,
         NEW executed \in Accruals, WithdrawCall(v, to, amount, executed)
  PROVE  Attribution'
<1> DEFINE burnt == BTokensToBurn(v, amount)
           paid  == Payment(burnt, executed)
<1>1. TypeOK /\ AttributionExact
  BY DEF Attribution
<1>2. burnt \in Nat /\ burnt <= bTokens[v] /\ bTokens[v] \in Nat
  BY <1>1, WithdrawBurns DEF WithdrawCall
<1>3. paid \in Nat /\ paid = Underlying(burnt, executed) /\ executed \in Rates
  BY <1>2, PaymentIsNatural DEF Accruals
<1>4. /\ burnt <= position /\ paid <= poolCash
      /\ bTokens' = [bTokens EXCEPT ![v] = @ - burnt]
      /\ position' = position - burnt
      /\ poolCash' = poolCash - paid
      /\ held' = held + paid - paid
      /\ wallet' = [wallet EXCEPT ![to] = @ + paid]
      /\ poolRate' = executed
  BY <1>3 DEF WithdrawCall
<1> HIDE DEF burnt, paid
<1>5. /\ bTokens \in [Vaults -> Nat] /\ held \in Nat /\ position \in Nat /\ poolCash \in Nat
      /\ wallet \in [Vaults -> Nat]
  BY <1>1 DEF TypeOK
<1>6. /\ bTokens' \in [Vaults -> Nat]
      /\ SumFunction(bTokens') = SumFunction(bTokens) - burnt
  <2>1. /\ bTokens' \in [Vaults -> Nat] /\ bTokens'[v] = bTokens[v] - burnt
        /\ \A u \in Vaults \ {v} : bTokens'[u] = bTokens[u]
        /\ IsFiniteSet(Vaults) /\ bTokens \in [Vaults -> Nat] /\ burnt \in Nat
    BY <1>2, <1>4, <1>5, NekoStrategyAssumption
  <2> QED
    BY <2>1, SumChanges
<1>7. held' = held
  BY <1>3, <1>4, <1>5
<1>8. TypeOK'
  <2>1. wallet' \in [Vaults -> Nat]
    BY <1>3, <1>4, <1>5
  <2> QED
    BY <1>1, <1>2, <1>3, <1>4, <1>5, <1>6, <1>7, <2>1 DEF TypeOK
<1>9. AttributionExact'
  BY <1>1, <1>4, <1>6 DEF AttributionExact
<1> QED
  BY <1>8, <1>9 DEF Attribution

LEMMA TransferAttributes ==
  ASSUME Attribution, NEW v \in Vaults, Transfer(v)
  PROVE  Attribution'
<1>1. PICK amount \in Amounts \ {0} :
        /\ amount <= wallet[v]
        /\ wallet' = [wallet EXCEPT ![v] = @ - amount]
        /\ held' = held + amount
        /\ UNCHANGED <<bTokens, poolRate, position, poolCash>>
  BY DEF Transfer
<1>2. amount \in Nat /\ held \in Nat /\ wallet \in [Vaults -> Nat]
  BY NekoStrategyAssumption DEF Attribution, TypeOK
<1> QED
  BY <1>1, <1>2 DEF Attribution, TypeOK, AttributionExact

\* Every b_token the pool holds for the strategy is attributed to one vault, in every reachable
\* state, whichever transfers a deposit has used.
THEOREM AttributionHolds == Spec => []Attribution
<1>1. Init => Attribution
  <2> SUFFICES ASSUME Init
               PROVE  Attribution
    OBVIOUS
  <2>1. TypeOK
    BY NekoStrategyAssumption DEF Init, TypeOK
  <2>2. SumFunction(bTokens) = 0
    BY SumOfZeros, NekoStrategyAssumption DEF Init
  <2> QED
    BY <2>1, <2>2 DEF Init, Attribution, AttributionExact
<1>2. Attribution /\ [Next]_vars => Attribution'
  <2> SUFFICES ASSUME Attribution, [Next]_vars
               PROVE  Attribution'
    OBVIOUS
  <2>1. ASSUME NEW v \in Vaults, Deposit(v)
        PROVE  Attribution'
    BY <2>1, DepositAttributes DEF Deposit
  <2>2. ASSUME NEW v \in Vaults, Withdraw(v)
        PROVE  Attribution'
    BY <2>2, WithdrawAttributes DEF Withdraw
  <2>3. ASSUME NEW v \in Vaults, Transfer(v)
        PROVE  Attribution'
    BY <2>3, TransferAttributes
  <2>4. CASE RateGrows
    BY <2>4 DEF RateGrows, Accruals, Attribution, TypeOK, AttributionExact
  <2>5. CASE UNCHANGED vars
    BY <2>5 DEF vars, Attribution, TypeOK, AttributionExact
  <2> QED
    BY <2>1, <2>2, <2>3, <2>4, <2>5 DEF Next
<1> QED
  BY <1>1, <1>2, PTL DEF Spec

\* Each vault's b_tokens add up to what the pool holds for the strategy.
THEOREM AttributionIsExact == Spec => []AttributionExact
  BY AttributionHolds, PTL DEF Attribution

\* The contract's state is well formed: no vault's b_tokens and no balance turns negative.
THEOREM TypesHold == Spec => []TypeOK
  BY AttributionHolds, PTL DEF Attribution

\* An amount turned into b_tokens is worth no more, and falls short by at most one b_token.
LEMMA CreditKeepsValue ==
  ASSUME NEW bt \in Nat, NEW a \in Nat, NEW r \in Nat \ {0}
  PROVE  a - (Underlying(bt + PoolMints(a, r), r) - Underlying(bt, r))
           \in 0..MulDivCeil(1, r, SCALAR_12)
<1> DEFINE S  == SCALAR_12
           m  == PoolMints(a, r)
           w0 == Underlying(bt, r)
           w1 == Underlying(bt + m, r)
           k  == MulDivCeil(1, r, S)
<1>1. S \in Nat \ {0}
  BY NekoStrategyAssumption
<1>2. m \in Nat /\ m * r <= a * S /\ a * S < m * r + r
  BY <1>1, FloorBounds DEF PoolMints
<1> HIDE DEF m
<1>3. w0 \in Nat /\ w0 * S <= bt * r /\ bt * r < w0 * S + S
  BY <1>1, FloorBounds DEF Underlying
<1>4. w1 \in Nat /\ w1 * S <= (bt + m) * r /\ (bt + m) * r < w1 * S + S
  <2>1. bt + m \in Nat
    BY <1>2
  <2>2. w1 = MulDivFloor(bt + m, r, S)
    BY DEF Underlying
  <2> HIDE DEF S, w1
  <2> QED
    BY <1>1, <2>1, <2>2, FloorBounds
<1>5. k \in Nat /\ 1 * r <= k * S
  BY <1>1, CeilBounds
<1> HIDE DEF S, w0, w1, k
<1>6. /\ (bt + m) * r = bt * r + m * r /\ 1 * r = r
      /\ (w0 + a) * S = w0 * S + a * S
      /\ (w0 + a - k) * S = w0 * S + a * S - k * S
  BY <1>1, <1>2, <1>3, <1>5
<1>7. /\ bt * r \in Int /\ m * r \in Int /\ w0 * S \in Int /\ w1 * S \in Int
      /\ a * S \in Int /\ k * S \in Int
  BY <1>1, <1>2, <1>3, <1>4, <1>5
<1>8. w1 <= w0 + a
  <2>1. w1 * S < (w0 + a) * S + S
    BY <1>1, <1>2, <1>3, <1>4, <1>6, <1>7
  <2> QED
    BY <1>1, <1>3, <1>4, <2>1, CancelFactor
<1>9. w0 + a - k <= w1
  <2>1. (w0 + a - k) * S < w1 * S + S
    BY <1>1, <1>2, <1>3, <1>4, <1>5, <1>6, <1>7
  <2> QED
    BY <1>1, <1>3, <1>4, <1>5, <2>1, CancelFactor
<1>10. a - (w1 - w0) \in 0..k
  BY <1>3, <1>4, <1>5, <1>8, <1>9
<1> QED
  BY <1>10 DEF S, m, w0, w1, k

\* What is paid for b_tokens and what the rest is worth are the whole, but for a unit.
LEMMA PaymentKeepsValue ==
  ASSUME NEW bt \in Nat, NEW b \in Nat, b <= bt, NEW r \in Nat
  PROVE  Underlying(b, r) + (Underlying(bt - b, r) - Underlying(bt, r)) \in {-1, 0}
<1> DEFINE S == SCALAR_12
           p == Underlying(b, r)
           q == Underlying(bt - b, r)
           w == Underlying(bt, r)
<1>1. S \in Nat \ {0} /\ bt - b \in Nat
  BY NekoStrategyAssumption
<1>2. /\ p \in Nat /\ p * S <= b * r /\ b * r < p * S + S
      /\ q \in Nat /\ q * S <= (bt - b) * r /\ (bt - b) * r < q * S + S
      /\ w \in Nat /\ w * S <= bt * r /\ bt * r < w * S + S
  BY <1>1, FloorBounds DEF Underlying
<1> HIDE DEF S, p, q, w
<1>3. /\ (bt - b) * r = bt * r - b * r
      /\ (p + q) * S = p * S + q * S /\ (p + q + 1) * S = p * S + q * S + S
  BY <1>1, <1>2
<1>4. /\ bt * r \in Int /\ b * r \in Int /\ p * S \in Int /\ q * S \in Int /\ w * S \in Int
  BY <1>1, <1>2
<1>5. p + q <= w
  <2>1. (p + q) * S < w * S + S
    BY <1>1, <1>2, <1>3, <1>4
  <2> QED
    BY <1>1, <1>2, <2>1, CancelFactor
<1>6. w <= p + q + 1
  <2>1. w * S < (p + q + 1) * S + S
    BY <1>1, <1>2, <1>3, <1>4
  <2> QED
    BY <1>1, <1>2, <2>1, CancelFactor
<1>7. p + (q - w) \in {-1, 0}
  BY <1>2, <1>5, <1>6
<1> QED
  BY <1>7 DEF p, q, w

\* Each call exchanges tokens for b_tokens at the rate the pool executed it at: whatever the
\* rate the contract computed with, a vault is credited, or paid, what it gives up.
THEOREM CallsKeepTheirValue == Spec => CallsKeepValue
<1> DEFINE Credits ==
             held' < held =>
               \E v \in Vaults :
                 held - held' - WorthGained(v) \in 0..MulDivCeil(1, poolRate', SCALAR_12)
           Pays ==
             \A v \in Vaults :
               bTokens'[v] < bTokens[v] =>
                 /\ held' = held
                 /\ SumFunction(wallet') - SumFunction(wallet) + WorthGained(v) \in {-1, 0}
<1>1. ASSUME TypeOK, NEW v \in Vaults, NEW amount \in Amounts, NEW executed \in Accruals,
             DepositCall(v, amount, executed)
      PROVE  Credits /\ Pays
  <2> DEFINE minted == PoolMints(amount, executed)
  <2>1. /\ bTokens \in [Vaults -> Nat] /\ held \in Nat /\ minted \in Nat /\ amount \in Nat
        /\ executed \in Nat \ {0}
    BY <1>1, DepositMints, NekoStrategyAssumption DEF TypeOK
  <2>2. /\ bTokens' = [bTokens EXCEPT ![v] = @ + minted]
        /\ held' = held - amount /\ poolRate' = executed
    BY <1>1 DEF DepositCall, Attributed
  <2>3. Credits
    <3>1. bTokens'[v] = bTokens[v] + minted /\ bTokens[v] \in Nat /\ held - held' = amount
      BY <2>1, <2>2
    <3>2. amount - (Underlying(bTokens[v] + minted, executed) - Underlying(bTokens[v], executed))
            \in 0..MulDivCeil(1, executed, SCALAR_12)
      BY <2>1, <3>1, CreditKeepsValue
    <3>3. held - held' - WorthGained(v) \in 0..MulDivCeil(1, poolRate', SCALAR_12)
      BY <2>2, <3>1, <3>2 DEF WorthGained
    <3> QED
      BY <3>3
  <2> HIDE DEF minted
  <2>4. \A u \in Vaults : ~(bTokens'[u] < bTokens[u])
    BY <2>1, <2>2
  <2> QED
    BY <2>3, <2>4
<1>2. ASSUME TypeOK, NEW v \in Vaults, NEW to \in Vaults, NEW amount \in Amounts,
             NEW executed \in Accruals, WithdrawCall(v, to, amount, executed)
      PROVE  Credits /\ Pays
  <2> DEFINE burnt == BTokensToBurn(v, amount)
             paid  == Underlying(burnt, executed)
  <2>1. burnt \in Nat /\ burnt <= bTokens[v] /\ bTokens[v] \in Nat
    BY <1>2, WithdrawBurns DEF WithdrawCall
  <2>2. paid \in Nat /\ paid = Payment(burnt, executed) /\ executed \in Nat
    BY <2>1, PaymentIsNatural, NekoStrategyAssumption DEF Accruals
  <2>3. /\ bTokens' = [bTokens EXCEPT ![v] = @ - burnt]
        /\ held' = held + paid - paid
        /\ wallet' = [wallet EXCEPT ![to] = @ + paid]
        /\ poolRate' = executed
    BY <1>2, <2>2 DEF WithdrawCall
  <2>4. bTokens \in [Vaults -> Nat] /\ held \in Nat /\ wallet \in [Vaults -> Nat]
    BY <1>2 DEF TypeOK
  <2>5. SumFunction(wallet') - SumFunction(wallet) = paid
    <3> HIDE DEF paid
    <3>1. /\ wallet' \in [Vaults -> Nat] /\ wallet'[to] = wallet[to] + paid
          /\ \A u \in Vaults \ {to} : wallet'[u] = wallet[u]
          /\ IsFiniteSet(Vaults) /\ wallet \in [Vaults -> Nat] /\ paid \in Nat
      BY <2>2, <2>3, <2>4, NekoStrategyAssumption
    <3>2. SumFunction(wallet') = SumFunction(wallet) + paid /\ SumFunction(wallet) \in Nat
      BY <3>1, SumChanges, NaturalSum
    <3> QED
      BY <3>1, <3>2
  <2>6. held' = held
    <3> HIDE DEF paid
    <3> QED
      BY <2>2, <2>3, <2>4
  <2>7. WorthGained(v) = Underlying(bTokens[v] - burnt, executed) - Underlying(bTokens[v], executed)
    <3>1. bTokens'[v] = bTokens[v] - burnt
      BY <2>3, <2>4
    <3> QED
      BY <2>3, <3>1 DEF WorthGained
  <2>8. paid + WorthGained(v) \in {-1, 0}
    BY <2>1, <2>2, <2>7, PaymentKeepsValue
  <2> HIDE DEF burnt, paid
  <2>9. \A u \in Vaults \ {v} : bTokens'[u] = bTokens[u] /\ bTokens[u] \in Nat
    BY <2>3, <2>4
  <2>10. Pays
    <3> SUFFICES ASSUME NEW u \in Vaults, bTokens'[u] < bTokens[u]
                 PROVE  /\ held' = held
                        /\ SumFunction(wallet') - SumFunction(wallet) + WorthGained(u) \in {-1, 0}
      OBVIOUS
    <3>1. u = v
      BY <2>9
    <3> QED
      BY <2>5, <2>6, <2>8, <3>1
  <2> QED
    BY <2>4, <2>6, <2>10
<1>3. ASSUME TypeOK, bTokens' = bTokens, held' \in Nat, held' >= held
      PROVE  Credits /\ Pays
  <2>1. bTokens \in [Vaults -> Nat] /\ held \in Nat
    BY <1>3 DEF TypeOK
  <2>2. \A u \in Vaults : ~(bTokens'[u] < bTokens[u])
    BY <1>3, <2>1
  <2> QED
    BY <1>3, <2>1, <2>2
<1>4. ASSUME TypeOK, [Next]_vars
      PROVE  Credits /\ Pays
  <2>1. ASSUME NEW v \in Vaults, Deposit(v)
        PROVE  Credits /\ Pays
    BY <1>1, <1>4, <2>1 DEF Deposit
  <2>2. ASSUME NEW v \in Vaults, Withdraw(v)
        PROVE  Credits /\ Pays
    BY <1>2, <1>4, <2>2 DEF Withdraw
  <2>3. ASSUME NEW v \in Vaults, Transfer(v)
        PROVE  Credits /\ Pays
    <3>1. bTokens' = bTokens /\ held' \in Nat /\ held' >= held
      BY <1>4, <2>3, NekoStrategyAssumption DEF Transfer, TypeOK
    <3> QED
      BY <1>3, <1>4, <3>1
  <2>4. CASE RateGrows \/ UNCHANGED vars
    <3>1. bTokens' = bTokens /\ held' \in Nat /\ held' >= held
      BY <1>4, <2>4 DEF RateGrows, vars, TypeOK
    <3> QED
      BY <1>3, <1>4, <3>1
  <2> QED
    BY <1>4, <2>1, <2>2, <2>3, <2>4 DEF Next
<1>5. TypeOK /\ [Next]_vars => [Credits /\ Pays]_vars
  BY <1>4
<1> QED
  BY <1>5, TypesHold, PTL DEF Spec, CallsKeepValue

\* What balance() tells all the vaults together is within what the position is worth, however
\* many they are and whichever of them overflow: their roundings add up in the pool's favour.
THEOREM BalancesAreCovered == Spec => []Solvent
<1>1. ASSUME TypeOK, AttributionExact
      PROVE  Solvent
  <2> DEFINE bal == [v \in Vaults |-> Balance(v)]
             sum == SumFunction(bal)
  <2>1. /\ bTokens \in [Vaults -> Nat] /\ poolRate \in Nat /\ position \in Nat
        /\ SCALAR_12 \in Nat \ {0} /\ IsFiniteSet(Vaults) /\ SumFunction(bTokens) = position
    BY <1>1, NekoStrategyAssumption DEF TypeOK, AttributionExact
  <2>2. ASSUME NEW v \in Vaults
        PROVE  Balance(v) \in Nat /\ Balance(v) * SCALAR_12 <= bTokens[v] * poolRate
    <3>1. bTokens[v] \in Nat
      BY <2>1
    <3>2. /\ Underlying(bTokens[v], poolRate) \in Nat
          /\ Underlying(bTokens[v], poolRate) * SCALAR_12 <= bTokens[v] * poolRate
      BY <2>1, <3>1, FloorBounds DEF Underlying
    <3>3. 0 * SCALAR_12 = 0 /\ bTokens[v] * poolRate \in Nat
      BY <2>1, <3>1
    <3> QED
      BY <3>2, <3>3 DEF Balance
  <2>3. bal \in [Vaults -> Nat] /\ \A v \in Vaults : bal[v] * SCALAR_12 <= bTokens[v] * poolRate
    BY <2>2
  <2> HIDE DEF bal
  <2>4. sum \in Nat /\ sum * SCALAR_12 <= position * poolRate
    <3>1. sum \in Nat
      BY <2>1, <2>3, NaturalSum
    <3>2. SumFunction(bal) * SCALAR_12 <= SumFunction(bTokens) * poolRate
      BY <2>1, <2>3, SumScales
    <3> QED
      BY <2>1, <3>1, <3>2
  <2> HIDE DEF sum
  <2>5. sum <= Underlying(position, poolRate)
    BY <2>1, <2>4, FloorIsLargest DEF Underlying
  <2> QED
    BY <2>5 DEF Solvent, sum, bal
<1>2. TypeOK /\ AttributionExact => Solvent
  BY <1>1
<1> QED
  BY <1>2, TypesHold, AttributionIsExact, PTL

\* The attribution implements the share ledger, at the constant price of one b_token a claim.
THEOREM ImplementsLedger == Spec => ImplementsShareLedger
<1>1. Init => FairShares!Init
  BY SumOfZeros, NekoStrategyAssumption DEF Init, FairShares!Init
<1>2. ASSUME Attribution, Attribution', [Next]_vars
      PROVE  [FairShares!Next]_(FairShares!ledger)
  <2>1. /\ bTokens \in [Vaults -> Nat] /\ position \in Nat
        /\ SumFunction(bTokens) = position /\ SumFunction(bTokens') = position'
    BY <1>2 DEF Attribution, TypeOK, AttributionExact
  <2>2. ASSUME NEW v \in Vaults, NEW amount \in Amounts, NEW executed \in Accruals,
               DepositCall(v, amount, executed)
        PROVE  [FairShares!Next]_(FairShares!ledger)
    <3> DEFINE minted == PoolMints(amount, executed)
    <3>1. minted \in Nat
      BY <1>2, DepositMints DEF Attribution
    <3>2. bTokens' = [bTokens EXCEPT ![v] = @ + minted] /\ position' = position + minted
      BY <2>2 DEF DepositCall, Attributed
    <3> HIDE DEF minted
    <3>3. CASE minted = 0
      <4>1. bTokens' = bTokens /\ position' = position
        BY <2>1, <3>2, <3>3
      <4> QED
        BY <2>1, <4>1 DEF FairShares!ledger
    <3>4. CASE minted > 0
      <4>1. FairShares!OnlyClaimsOf(v)
        BY <2>1, <3>2 DEF FairShares!OnlyClaimsOf
      <4>2. bTokens'[v] = bTokens[v] + minted /\ bTokens[v] \in Nat
        BY <2>1, <3>2
      <4>3. (position' - position) * position >= (position' - position) * position
        BY <2>1, <3>1, <3>2
      <4>4. /\ bTokens'[v] > bTokens[v] /\ position' > position
            /\ position' - position >= bTokens'[v] - bTokens[v]
        BY <2>1, <3>1, <3>2, <3>4, <4>2
      <4>5. FairShares!Join(v)
        BY <2>1, <4>1, <4>3, <4>4 DEF FairShares!Join
      <4> QED
        BY <4>5 DEF FairShares!Next
    <3> QED
      BY <3>1, <3>3, <3>4
  <2>3. ASSUME NEW v \in Vaults, NEW to \in Vaults, NEW amount \in Amounts,
               NEW executed \in Accruals, WithdrawCall(v, to, amount, executed)
        PROVE  [FairShares!Next]_(FairShares!ledger)
    <3> DEFINE burnt == BTokensToBurn(v, amount)
    <3>1. burnt \in Nat \ {0} /\ burnt <= bTokens[v] /\ bTokens[v] \in Nat
      BY <1>2, <2>3, WithdrawBurns DEF Attribution, WithdrawCall
    <3>2. bTokens' = [bTokens EXCEPT ![v] = @ - burnt] /\ position' = position - burnt
      BY <2>3 DEF WithdrawCall
    <3> HIDE DEF burnt
    <3>3. FairShares!OnlyClaimsOf(v)
      BY <2>1, <3>2 DEF FairShares!OnlyClaimsOf
    <3>4. bTokens'[v] = bTokens[v] - burnt
      BY <2>1, <3>2
    <3>5. /\ bTokens'[v] < bTokens[v] /\ bTokens'[v] >= 0 /\ position' < position
          /\ position - position' = bTokens[v] - bTokens'[v]
      BY <2>1, <3>1, <3>2, <3>4
    <3>6. (position - position') * position <= (position - position') * position
      BY <2>1, <3>1, <3>2
    <3>7. FairShares!Leave(v)
      BY <2>1, <3>3, <3>5, <3>6 DEF FairShares!Leave
    <3> QED
      BY <3>7 DEF FairShares!Next
  <2>4. ASSUME bTokens' = bTokens, position' = position
        PROVE  [FairShares!Next]_(FairShares!ledger)
    BY <2>1, <2>4 DEF FairShares!ledger
  <2>5. ASSUME RateGrows \/ (\E v \in Vaults : Transfer(v)) \/ UNCHANGED vars
        PROVE  [FairShares!Next]_(FairShares!ledger)
    BY <2>4, <2>5 DEF RateGrows, Transfer, vars
  <2> QED
    BY <1>2, <2>2, <2>3, <2>5 DEF Next, Deposit, Withdraw
<1>3. Attribution /\ Attribution' /\ [Next]_vars => [FairShares!Next]_(FairShares!ledger)
  BY <1>2
<1> QED
  BY <1>1, <1>3, AttributionHolds, PTL DEF Spec, ImplementsShareLedger, FairShares!Spec

\* A withdrawal of a vault's worth is accepted whenever its rounding fits, and pays what it should.
THEOREM BalanceIsWithdrawable == Spec => []BalanceWithdrawable
<1>1. ASSUME TypeOK
      PROVE  BalanceWithdrawable
  <2> SUFFICES ASSUME NEW v \in Vaults, NEW amount \in Amounts \ {0}, bTokens[v] > 0
               PROVE  LET burnt == BTokensToBurn(v, amount)
                          worth == Underlying(bTokens[v], poolRate)
                      IN  /\ \/ AddFits(amount * SCALAR_12, poolRate - 1)
                             \/ /\ bTokens[v] * poolRate <= MaxI128
                                /\ amount <= Underlying(bTokens[v] - 1, poolRate)
                             => WithdrawComputable(v, amount)
                          /\ WithdrawComputable(v, amount) =>
                               /\ Payment(burnt, poolRate) <= worth
                               /\ Payment(burnt, poolRate)
                                    >= (IF amount <= worth THEN amount ELSE worth)
                               /\ amount >= worth /\ poolRate >= SCALAR_12 =>
                                    burnt = bTokens[v]
    BY DEF BalanceWithdrawable
  <2> DEFINE bt    == bTokens[v]
             r     == poolRate
             S     == SCALAR_12
             c     == BTokensFor(amount, poolRate)
             burnt == BTokensToBurn(v, amount)
             worth == Underlying(bt, r)
             paid  == Payment(burnt, poolRate)
             need  == amount * S
  <2>1. /\ bt \in Nat \ {0} /\ r \in Nat \ {0} /\ S \in Nat \ {0} /\ amount \in Nat \ {0}
        /\ MaxI128 \in Nat /\ r \in Rates
    BY <1>1, NekoStrategyAssumption, MaxI128Assumption DEF TypeOK
  <2>2. c = MulDivCeil(amount, S, r) /\ burnt = (IF c <= bt THEN c ELSE bt)
        /\ worth = MulDivFloor(bt, r, S)
        /\ Underlying(bt - 1, r) = MulDivFloor(bt - 1, r, S)
    BY DEF BTokensFor, BTokensToBurn, Underlying
  <2>3. burnt \in Nat => paid = MulDivFloor(burnt, r, S)
    BY <2>1, PaymentIsNatural DEF Underlying
  <2>4. WithdrawComputable(v, amount) <=> need + (r - 1) <= MaxI128 /\ c # 0 /\ burnt * r <= MaxI128
    BY <2>1 DEF WithdrawComputable, AddFits
  <2>5. AddFits(amount * SCALAR_12, poolRate - 1) <=> need + (r - 1) <= MaxI128
    BY DEF AddFits
  <2> HIDE DEF bt, r, S, c, burnt, worth, paid
  <2>6. c \in Nat /\ need <= c * r /\ c * r < need + r
    BY <2>1, <2>2, CeilBounds
  <2>7. c # 0
    <3>1. SUFFICES ASSUME c = 0 PROVE FALSE
      OBVIOUS
    <3> QED
      BY <2>1, <2>6, <3>1
  <2>8. /\ burnt \in Nat /\ burnt <= bt /\ burnt * r <= bt * r
        /\ burnt <= c /\ burnt * r <= c * r
    BY <2>1, <2>2, <2>6
  <2>9. worth \in Nat /\ worth * S <= bt * r /\ bt * r < worth * S + S
    BY <2>1, <2>2, FloorBounds
  <2>10. paid \in Nat /\ paid * S <= burnt * r
    BY <2>1, <2>3, <2>8, FloorBounds
  <2>11. /\ need \in Int /\ c * r \in Int /\ bt * r \in Int /\ burnt * r \in Int
         /\ worth * S \in Int /\ paid * S \in Int
    BY <2>1, <2>6, <2>8, <2>9, <2>10
  <2>12. paid <= worth
    <3>1. paid * S <= bt * r
      BY <2>8, <2>10, <2>11
    <3> QED
      BY <2>1, <2>2, <2>10, <3>1, FloorIsLargest
  <2>13. amount <= worth => c <= bt
    <3>1. SUFFICES ASSUME amount <= worth PROVE c <= bt
      OBVIOUS
    <3>2. amount * S <= worth * S
      BY <2>1, <2>9, <3>1, ScaleFactor
    <3>3. amount * S <= bt * r
      BY <2>9, <2>11, <3>2
    <3> QED
      BY <2>1, <2>2, <3>3, CeilIsSmallest
  <2>14. c <= bt => amount <= paid
    <3>1. SUFFICES ASSUME c <= bt PROVE amount <= paid
      OBVIOUS
    <3>2. amount * S <= burnt * r /\ paid = MulDivFloor(burnt, r, S)
      BY <2>2, <2>3, <2>6, <2>8, <3>1
    <3> QED
      BY <2>1, <2>8, <3>2, FloorIsLargest
  <2>15. ~(c <= bt) => paid = worth
    BY <2>2, <2>3, <2>8
  <2>16. paid >= (IF amount <= worth THEN amount ELSE worth)
    BY <2>1, <2>9, <2>10, <2>12, <2>13, <2>14, <2>15
  <2>17. amount >= worth /\ r >= S => burnt = bt
    <3>1. SUFFICES ASSUME amount >= worth, r >= S, c < bt PROVE FALSE
      BY <2>1, <2>2, <2>6
    <3>2. worth * S <= need
      BY <2>1, <2>9, <3>1, ScaleFactor
    <3>3. c * r <= bt * r - r
      <4>1. c <= bt - 1 /\ bt - 1 \in Int
        BY <2>1, <2>6, <3>1
      <4>2. c * r <= (bt - 1) * r
        BY <2>1, <2>6, <4>1, ScaleFactor
      <4>3. (bt - 1) * r = bt * r - r
        BY <2>1
      <4> QED
        BY <4>2, <4>3
    <3> QED
      BY <2>1, <2>6, <2>9, <2>11, <3>1, <3>2, <3>3
  <2>18. need + (r - 1) <= MaxI128 => WithdrawComputable(v, amount)
    BY <2>1, <2>4, <2>6, <2>7, <2>8, <2>11
  <2>19. bt * r <= MaxI128 /\ amount <= Underlying(bt - 1, r) => need + (r - 1) <= MaxI128
    <3>1. SUFFICES ASSUME bt * r <= MaxI128, amount <= Underlying(bt - 1, r)
                   PROVE  need + (r - 1) <= MaxI128
      OBVIOUS
    <3>2. need <= (bt - 1) * r
      <4>1. bt - 1 \in Nat /\ r \in Nat /\ amount \in Int /\ amount <= MulDivFloor(bt - 1, r, S)
        BY <2>1, <2>2, <3>1
      <4> QED
        BY <2>1, <4>1, FloorIsLargest
    <3>3. (bt - 1) * r = bt * r - r
      BY <2>1
    <3> QED
      BY <2>1, <2>11, <3>1, <3>2, <3>3
  <2> HIDE DEF need
  <2>20. /\ \/ AddFits(amount * SCALAR_12, poolRate - 1)
            \/ bt * r <= MaxI128 /\ amount <= Underlying(bt - 1, r)
            => WithdrawComputable(v, amount)
         /\ paid <= worth
         /\ paid >= (IF amount <= worth THEN amount ELSE worth)
         /\ amount >= worth /\ r >= S => burnt = bt
    BY <2>5, <2>12, <2>16, <2>17, <2>18, <2>19
  <2> QED
    BY <2>20 DEF burnt, paid, worth, bt, r, S
<1> QED
  BY <1>1, AttributionHolds, PTL DEF Attribution
=============================================================================
