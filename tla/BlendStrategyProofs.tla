------------------------- MODULE BlendStrategyProofs ------------------------
(***************************************************************************)
(* The accounting of strategy-blend is right for every set of vaults, every*)
(* amount, every positive b_rate and every interleaving of the calls.      *)
(*                                                                         *)
(* The inductive invariant is Books.  SharesConserved says a vault's shares*)
(* are within the total, so a burn the vault can pay is one the reserves   *)
(* can pay; PriceAtLeastOne makes the withdrawal's two computations of the *)
(* shares to burn agree; and only with that agreement does a withdrawal    *)
(* preserve either, and BooksBacked too.                                   *)
(*                                                                         *)
(* What follows from Books comes last: that the position is worth what     *)
(* balance() tells all the vaults, that no call pays for its roundings, and*)
(* that the books are exact where the rate never falls below par.          *)
(***************************************************************************)
EXTENDS BlendStrategy, ArithmeticTheorems

-----------------------------------------------------------------------------
(* What the quotes and the bookings guarantee, for every reserves in which *)
(* a share is worth at least one b_token.  Below, ts and tb are the        *)
(* reserves' shares and b_tokens, r the b_rate and S the scale.  Every     *)
(* fact is a comparison of products, obtained from the bounds of           *)
(* ArithmeticTheorems.                                                     *)

\* The reserves the contract computes with once the first vault is in.
SoundReserves(R) == /\ R \in Reserves
                    /\ R.total_shares > 0
                    /\ R.total_shares <= R.total_b_tokens
                    /\ R.b_rate > 0

\* Sound reserves are priced: the special cases for empty reserves do not apply.
LEMMA SoundIsPriced ==
  ASSUME NEW R, SoundReserves(R)
  PROVE  /\ R.total_shares \in Nat \ {0}
         /\ R.total_b_tokens \in Nat \ {0}
         /\ R.b_rate \in Nat \ {0}
         /\ ~Unpriced(R)
  BY DEF SoundReserves, Reserves, Unpriced

\* The deposit quote in an empty strategy: one share per b_token the amount buys.
LEMMA FirstDepositQuote ==
  ASSUME NEW R \in Reserves, R.total_shares = 0, R.b_rate > 0, NEW amount \in Nat
  PROVE  /\ DepositBTokens(R, amount) \in Nat
         /\ MintedShares(R, DepositBTokens(R, amount)) = DepositBTokens(R, amount)
         /\ DepositAmount(R, amount) \in Nat
         /\ DepositAmount(R, amount) <= amount
         /\ DepositBTokens(R, amount) * R.b_rate <= DepositAmount(R, amount) * SCALAR_12
<1> DEFINE b == AffordableBTokens(R, amount)
           S == SCALAR_12
           r == R.b_rate
<1>1. S \in Nat \ {0} /\ r \in Nat \ {0}
  BY BlendMathAssumption DEF Reserves
<1>2. b \in Nat /\ b * r <= amount * S
  BY <1>1, FloorBounds DEF AffordableBTokens
<1>3. DepositBTokens(R, amount) = b /\ MintedShares(R, b) = b
  BY DEF DepositBTokens, MintedShares, BTokensToSharesDown, Unpriced
<1>4. DepositAmount(R, amount) = MulDivCeil(b, r, S)
  BY <1>3 DEF DepositAmount
<1> HIDE DEF b, S, r
<1>5. MulDivCeil(b, r, S) \in Nat /\ b * r <= MulDivCeil(b, r, S) * S
  BY <1>1, <1>2, CeilBounds
<1>6. MulDivCeil(b, r, S) <= amount
  BY <1>1, <1>2, CeilIsSmallest
<1> QED
  BY <1>2, <1>3, <1>4, <1>5, <1>6 DEF S, r

\* The deposit quote at a price: b, the b_tokens charged for, mint exactly the s shares the
\* whole amount could buy, pay at least the share price for them, and cost no more than the
\* amount.
LEMMA DepositQuote ==
  ASSUME NEW R, SoundReserves(R), NEW amount \in Nat,
         AffordableShares(R, amount) # 0
  PROVE  /\ DepositBTokens(R, amount) \in Nat
         /\ DepositBTokens(R, amount) <= AffordableBTokens(R, amount)
         /\ AffordableShares(R, amount) \in Nat
         /\ MintedShares(R, DepositBTokens(R, amount)) = AffordableShares(R, amount)
         /\ DepositBTokens(R, amount) * R.total_shares
              >= AffordableShares(R, amount) * R.total_b_tokens
         /\ DepositBTokens(R, amount) >= AffordableShares(R, amount)
         /\ DepositAmount(R, amount) \in Nat
         /\ DepositAmount(R, amount) <= amount
         /\ DepositBTokens(R, amount) * R.b_rate <= DepositAmount(R, amount) * SCALAR_12
<1> DEFINE ts == R.total_shares
           tb == R.total_b_tokens
           r  == R.b_rate
           S  == SCALAR_12
           b0 == AffordableBTokens(R, amount)
           s  == AffordableShares(R, amount)
           b  == DepositBTokens(R, amount)
<1>1. /\ ts \in Nat \ {0} /\ tb \in Nat \ {0} /\ r \in Nat \ {0} /\ S \in Nat \ {0}
      /\ ts <= tb /\ ~Unpriced(R)
  BY SoundIsPriced, BlendMathAssumption DEF SoundReserves
<1>2. b0 \in Nat /\ b0 * r <= amount * S
  BY <1>1, FloorBounds DEF AffordableBTokens
<1>3. s = MulDivFloor(b0, ts, tb) /\ b = MulDivCeil(s, tb, ts)
      /\ MintedShares(R, b) = MulDivFloor(b, ts, tb)
      /\ DepositAmount(R, amount) = MulDivCeil(b, r, S)
  BY <1>1 DEF AffordableShares, BTokensToSharesDown, DepositBTokens, MintedShares, DepositAmount
<1> HIDE DEF ts, tb, r, S, b0, s, b
<1>4. s \in Nat /\ s * tb <= b0 * ts /\ b0 * ts < s * tb + tb
  BY <1>1, <1>2, <1>3, FloorBounds
<1>5. b \in Nat /\ s * tb <= b * ts
  BY <1>1, <1>3, <1>4, CeilBounds
<1>6. b <= b0
  BY <1>1, <1>2, <1>3, <1>4, CeilIsSmallest
<1>7. MulDivFloor(b, ts, tb) = s
  <2>1. b * ts <= b0 * ts
    BY <1>1, <1>2, <1>5, <1>6, ScaleFactor
  <2>2. /\ MulDivFloor(b, ts, tb) \in Nat
        /\ MulDivFloor(b, ts, tb) * tb <= b * ts
        /\ s <= MulDivFloor(b, ts, tb)
    <3>1. MulDivFloor(b, ts, tb) \in Nat /\ MulDivFloor(b, ts, tb) * tb <= b * ts
      BY <1>1, <1>5, FloorBounds
    <3>2. s <= MulDivFloor(b, ts, tb)
      BY <1>1, <1>4, <1>5, FloorIsLargest
    <3> QED
      BY <3>1, <3>2
  <2> DEFINE q == MulDivFloor(b, ts, tb)
  <2> HIDE DEF q
  <2>3. b * ts \in Int /\ b0 * ts \in Int /\ s * tb \in Int /\ q * tb \in Int
    BY <1>1, <1>2, <1>4, <1>5, <2>2 DEF q
  <2>4. q * tb < s * tb + tb
    BY <1>1, <1>4, <2>1, <2>2, <2>3 DEF q
  <2>5. q <= s
    BY <1>1, <1>4, <2>2, <2>4, CancelFactor DEF q
  <2> QED
    BY <1>4, <2>2, <2>5 DEF q
<1>8. b >= s
  <2>1. s * ts <= s * tb
    BY <1>1, <1>4
  <2>2. s * ts <= b * ts
    BY <1>1, <1>4, <1>5, <2>1
  <2> QED
    BY <1>1, <1>4, <1>5, <2>2, CancelFactor
<1>9. b * r <= amount * S
  <2>1. b * r <= b0 * r
    BY <1>1, <1>2, <1>5, <1>6, ScaleFactor
  <2> QED
    BY <1>1, <1>2, <1>5, <2>1
<1>10. MulDivCeil(b, r, S) \in Nat /\ b * r <= MulDivCeil(b, r, S) * S
       /\ MulDivCeil(b, r, S) <= amount
  <2>1. MulDivCeil(b, r, S) \in Nat /\ b * r <= MulDivCeil(b, r, S) * S
    BY <1>1, <1>5, CeilBounds
  <2>2. MulDivCeil(b, r, S) <= amount
    BY <1>1, <1>5, <1>9, CeilIsSmallest
  <2> QED
    BY <2>1, <2>2
<1> QED
  BY <1>3, <1>4, <1>5, <1>6, <1>7, <1>8, <1>10 DEF ts, tb, r, S, b0, s, b

\* The withdrawal quote: the b_tokens to burn are worth the s shares requested, rounded down,
\* they burn exactly those shares, and what is paid out is covered by them at b_rate.
LEMMA WithdrawQuote ==
  ASSUME NEW R, SoundReserves(R), NEW amount \in Nat
  PROVE  /\ RequestedBTokens(R, amount) \in Nat
         /\ RequestedShares(R, amount) \in Nat
         /\ WithdrawBTokens(R, amount) \in Nat
         /\ WithdrawBTokens(R, amount) >= RequestedBTokens(R, amount)
         /\ BurntShares(R, WithdrawBTokens(R, amount)) = RequestedShares(R, amount)
         /\ WithdrawBTokens(R, amount) * R.total_shares
              <= RequestedShares(R, amount) * R.total_b_tokens
         /\ WithdrawAmount(R, amount) \in Nat
         /\ WithdrawAmount(R, amount) >= amount
         /\ WithdrawAmount(R, amount) * SCALAR_12 <= WithdrawBTokens(R, amount) * R.b_rate
<1> DEFINE ts == R.total_shares
           tb == R.total_b_tokens
           r  == R.b_rate
           S  == SCALAR_12
           b0 == RequestedBTokens(R, amount)
           s  == RequestedShares(R, amount)
           b  == WithdrawBTokens(R, amount)
           w  == WithdrawAmount(R, amount)
<1>1. /\ ts \in Nat \ {0} /\ tb \in Nat \ {0} /\ r \in Nat \ {0} /\ S \in Nat \ {0}
      /\ ts <= tb /\ ~Unpriced(R)
  BY SoundIsPriced, BlendMathAssumption DEF SoundReserves
<1>2. b0 \in Nat /\ amount * S <= b0 * r
  BY <1>1, CeilBounds DEF RequestedBTokens
<1>3. s = MulDivCeil(b0, ts, tb) /\ b = MulDivFloor(s, tb, ts)
      /\ BurntShares(R, b) = MulDivCeil(b, ts, tb)
      /\ w = MulDivFloor(b, r, S)
  BY <1>1 DEF RequestedShares, BTokensToSharesUp, WithdrawBTokens, BurntShares, WithdrawAmount
<1> HIDE DEF ts, tb, r, S, b0, s, b, w
<1>4. s \in Nat /\ b0 * ts <= s * tb
  BY <1>1, <1>2, <1>3, CeilBounds
<1>5. b \in Nat /\ b * ts <= s * tb /\ s * tb < b * ts + ts
  BY <1>1, <1>3, <1>4, FloorBounds
<1>6. b >= b0
  BY <1>1, <1>2, <1>3, <1>4, FloorIsLargest
<1>7. MulDivCeil(b, ts, tb) = s
  <2> DEFINE q == MulDivCeil(b, ts, tb)
  <2>1. q \in Nat /\ b * ts <= q * tb /\ q <= s
    <3>1. q \in Nat /\ b * ts <= q * tb
      BY <1>1, <1>5, CeilBounds
    <3>2. q <= s
      BY <1>1, <1>4, <1>5, CeilIsSmallest
    <3> QED
      BY <3>1, <3>2
  <2> HIDE DEF q
  <2>2. b * ts \in Int /\ s * tb \in Int /\ q * tb \in Int
    BY <1>1, <1>4, <1>5, <2>1
  <2>3. s * tb < q * tb + tb
    BY <1>1, <1>5, <2>1, <2>2
  <2>4. s <= q
    BY <1>1, <1>4, <2>1, <2>3, CancelFactor
  <2> QED
    BY <1>4, <2>1, <2>4 DEF q
<1>8. w \in Nat /\ w * S <= b * r
  BY <1>1, <1>3, <1>5, FloorBounds
<1>9. amount <= w
  <2>1. b0 * r <= b * r
    BY <1>1, <1>2, <1>5, <1>6, ScaleFactor
  <2>2. amount * S <= b * r
    BY <1>1, <1>2, <1>5, <2>1
  <2> QED
    BY <1>1, <1>3, <1>5, <2>2, FloorIsLargest
<1> QED
  BY <1>2, <1>3, <1>4, <1>5, <1>6, <1>7, <1>8, <1>9 DEF ts, tb, r, S, b0, s, b, w

\* Burning s of the ts shares for b b_tokens, at no more than their price, leaves the price of
\* the others at least one b_token per share.
LEMMA BurnKeepsPrice ==
  ASSUME NEW ts \in Nat, NEW tb \in Nat, NEW s \in Nat, NEW b \in Nat,
         0 < ts, ts <= tb, s <= ts, b * ts <= s * tb
  PROVE  ts - s <= tb - b
<1>1. (tb - ts) \in Nat /\ s * (tb - ts) <= ts * (tb - ts)
  OBVIOUS
<1>2. s * tb = s * (tb - ts) + s * ts
  OBVIOUS
<1>3. b * ts <= ts * (tb - ts) + s * ts
  <2>1. b * ts \in Int /\ s * tb \in Int /\ s * (tb - ts) \in Int
        /\ ts * (tb - ts) \in Int /\ s * ts \in Int
    OBVIOUS
  <2> QED
    BY <1>1, <1>2, <2>1
<1>4. ts * (tb - ts) + s * ts = (tb - ts + s) * ts
  OBVIOUS
<1>5. b <= tb - ts + s
  BY <1>3, <1>4, CancelFactor
<1> QED
  BY <1>5

-----------------------------------------------------------------------------
(* The inductive invariant. *)

Books == TypeOK /\ SharesConserved /\ PriceAtLeastOne /\ BooksBacked

\* The reserves a call computes with.
LEMMA UpdatedReservesFacts ==
  ASSUME TypeOK
  PROVE  /\ UpdatedReserves \in Reserves
         /\ UpdatedReserves.total_shares = reserves.total_shares
         /\ UpdatedReserves.total_b_tokens = reserves.total_b_tokens
         /\ UpdatedReserves.b_rate = poolRate
         /\ poolRate \in Nat \ {0}
         /\ reserves.total_shares \in Nat
         /\ reserves.total_b_tokens \in Nat
         /\ PriceAtLeastOne /\ reserves.total_shares > 0 => SoundReserves(UpdatedReserves)
<1>1. reserves \in Reserves /\ poolRate \in Nat \ {0}
  BY BlendStrategyAssumption DEF TypeOK
<1> QED
  BY <1>1 DEF UpdatedReserves, Reserves, SoundReserves, PriceAtLeastOne

\* A vault's shares, with the locked ones, are within the total.
LEMMA HeldWithinTotal ==
  ASSUME TypeOK, SharesConserved, NEW v \in Vaults
  PROVE  /\ vaultShares[v] \in Nat
         /\ SumFunction(vaultShares) \in Nat
         /\ vaultShares[v] > 0 => reserves.total_shares > 0
         /\ reserves.total_shares > 0 =>
              vaultShares[v] + LOCKED_SHARES <= reserves.total_shares
<1>1. vaultShares \in [Vaults -> Nat] /\ IsFiniteSet(Vaults)
  BY BlendStrategyAssumption DEF TypeOK
<1>2. SumFunction(vaultShares) \in Nat /\ vaultShares[v] <= SumFunction(vaultShares)
      /\ vaultShares[v] \in Nat
  BY <1>1, SumBoundsEach
<1> QED
  BY <1>2, UpdatedReservesFacts, BlendMathAssumption DEF SharesConserved

\* What a deposit does: the vault pays charge, the pool mints at least the b_tokens booked, and
\* the shares minted cost no less than the share price.
LEMMA DepositFacts ==
  ASSUME Books, NEW v \in Vaults, NEW amount \in Amounts, DepositCall(v, amount)
  PROVE  \E b, m, k, c \in Nat :
           /\ b > 0 /\ k > 0 /\ m <= b /\ c <= wallet[v]
           /\ IF reserves.total_shares = 0 THEN m = k + LOCKED_SHARES
              ELSE m = k /\ b * reserves.total_shares >= m * reserves.total_b_tokens
           /\ reserves' = [total_shares   |-> reserves.total_shares + m,
                           total_b_tokens |-> reserves.total_b_tokens + b,
                           b_rate         |-> poolRate]
           /\ vaultShares' = [vaultShares EXCEPT ![v] = @ + k]
           /\ wallet' = [wallet EXCEPT ![v] = @ - c]
           /\ position' \in Nat /\ position' >= position + b
           /\ b * poolRate <= c * SCALAR_12
           /\ poolRate >= SCALAR_12 => position' = position + b
<1> DEFINE R == UpdatedReserves
           b == DepositBTokens(R, amount)
           m == MintedShares(R, b)
           k == CreditedShares(R, b)
           c == DepositAmount(R, amount)
<1>1. amount \in Nat /\ TypeOK /\ PriceAtLeastOne
  BY BlendStrategyAssumption DEF Books
<1>2. /\ R \in Reserves /\ R.total_shares = reserves.total_shares
      /\ R.total_b_tokens = reserves.total_b_tokens /\ R.b_rate = poolRate
      /\ poolRate \in Nat \ {0}
  BY <1>1, UpdatedReservesFacts
<1>3. /\ amount <= wallet[v] /\ DepositQuoteOk(R, amount) /\ BookDepositOk(R, vaultShares[v], b)
      /\ reserves' = ReservesAfterDeposit(R, b)
      /\ vaultShares' = [vaultShares EXCEPT ![v] = @ + k]
      /\ wallet' = [wallet EXCEPT ![v] = @ - c]
      /\ position' = position + PoolMints(c)
  BY DEF DepositCall, Supply
<1>4. /\ b \in Nat /\ m \in Nat /\ c \in Nat /\ c <= amount /\ m <= b
      /\ b * R.b_rate <= c * SCALAR_12
      /\ R.total_shares # 0 => b * R.total_shares >= m * R.total_b_tokens
  <2>1. CASE R.total_shares = 0
    <3>1. m = b
      BY <1>1, <1>2, <2>1, FirstDepositQuote
    <3>2. b \in Nat /\ c \in Nat /\ c <= amount /\ b * R.b_rate <= c * SCALAR_12
      BY <1>1, <1>2, <2>1, FirstDepositQuote
    <3> HIDE DEF b, m, c, R
    <3> QED
      BY <2>1, <3>1, <3>2
  <2>2. CASE R.total_shares # 0
    <3>1. SoundReserves(R)
      BY <1>1, <1>2, <2>2, UpdatedReservesFacts
    <3>2. AffordableShares(R, amount) # 0
      BY <1>3, <2>2 DEF DepositQuoteOk
    <3> DEFINE s == AffordableShares(R, amount)
    <3>3. m = s
      BY <1>1, <3>1, <3>2, DepositQuote
    <3>4. s \in Nat /\ b \in Nat /\ b >= s /\ b * R.total_shares >= s * R.total_b_tokens
      BY <1>1, <3>1, <3>2, DepositQuote
    <3>5. c \in Nat /\ c <= amount /\ b * R.b_rate <= c * SCALAR_12
      BY <1>1, <3>1, <3>2, DepositQuote
    <3> HIDE DEF b, m, c, s, R
    <3> QED
      BY <3>3, <3>4, <3>5
  <2> QED
    BY <2>1, <2>2
<1>5. b > 0 /\ m > 0 /\ k \in Nat /\ k > 0
      /\ IF reserves.total_shares = 0 THEN m = k + LOCKED_SHARES ELSE m = k
  <2>1. b > 0 /\ m > 0 /\ (R.total_shares = 0 => m > LOCKED_SHARES)
    BY <1>3 DEF BookDepositOk
  <2>2. k = IF R.total_shares = 0 THEN m - LOCKED_SHARES ELSE m
    BY DEF CreditedShares
  <2> HIDE DEF b, m, k, R
  <2> QED
    BY <1>2, <1>4, <2>1, <2>2, BlendMathAssumption
<1>6. PoolMints(c) \in Nat /\ PoolMints(c) >= b
  <2> HIDE DEF b, c
  <2>1. PoolMints(c) \in Nat
    BY <1>2, <1>4, FloorBounds, BlendMathAssumption DEF PoolMints
  <2>2. b <= PoolMints(c)
    BY <1>2, <1>4, FloorIsLargest, BlendMathAssumption DEF PoolMints
  <2> QED
    BY <1>4, <2>1, <2>2
<1>7. poolRate >= SCALAR_12 => PoolMints(c) = b
  <2>1. c = MulDivCeil(b, poolRate, SCALAR_12)
    BY <1>2 DEF DepositAmount
  <2> HIDE DEF b, c
  <2>2. SUFFICES ASSUME poolRate >= SCALAR_12
                 PROVE  PoolMints(c) <= b
    BY <1>4, <1>6
  <2>3. c * SCALAR_12 < b * poolRate + SCALAR_12
    BY <1>2, <1>4, <2>1, CeilBounds, BlendMathAssumption
  <2>4. PoolMints(c) * poolRate <= c * SCALAR_12
    BY <1>2, <1>4, FloorBounds, BlendMathAssumption DEF PoolMints
  <2>5. /\ c * SCALAR_12 \in Int /\ b * poolRate \in Int /\ PoolMints(c) * poolRate \in Int
        /\ SCALAR_12 \in Int
    BY <1>2, <1>4, <1>6, BlendMathAssumption
  <2>6. PoolMints(c) * poolRate < b * poolRate + poolRate
    BY <1>2, <2>2, <2>3, <2>4, <2>5
  <2> QED
    BY <1>2, <1>4, <1>6, <2>6, CancelFactor
<1>8. /\ position' \in Nat /\ position' >= position + b
      /\ poolRate >= SCALAR_12 => position' = position + b
  <2>1. position \in Nat
    BY <1>1 DEF TypeOK
  <2> HIDE DEF b, c
  <2> QED
    BY <1>3, <1>4, <1>6, <1>7, <2>1
<1>9. reserves' = [total_shares   |-> reserves.total_shares + m,
                   total_b_tokens |-> reserves.total_b_tokens + b,
                   b_rate         |-> poolRate]
  <2> HIDE DEF b
  <2> QED
    BY <1>2, <1>3 DEF ReservesAfterDeposit, Reserves
<1>10. c <= wallet[v]
  <2>1. wallet[v] \in Nat
    BY <1>1 DEF TypeOK
  <2> HIDE DEF c
  <2> QED
    BY <1>1, <1>3, <1>4, <2>1
<1> HIDE DEF b, m, k, c, R
<1>11. reserves.total_shares # 0 => b * reserves.total_shares >= m * reserves.total_b_tokens
  BY <1>2, <1>4
<1> QED
  BY <1>2, <1>3, <1>4, <1>5, <1>8, <1>9, <1>10, <1>11

\* What a withdrawal does: the shares burnt are the vault's, the b_tokens taken are worth no
\* more than they, and the pool burns no more than the b_tokens booked and pays in full.
LEMMA WithdrawFacts ==
  ASSUME Books, NEW v \in Vaults, NEW to \in Vaults, NEW amount \in Amounts,
         WithdrawCall(v, to, amount)
  PROVE  \E b, s, w \in Nat :
           /\ b > 0 /\ s > 0 /\ s <= vaultShares[v]
           /\ reserves.total_shares > 0 /\ b <= reserves.total_b_tokens
           /\ b * reserves.total_shares <= s * reserves.total_b_tokens
           /\ reserves' = [total_shares   |-> reserves.total_shares - s,
                           total_b_tokens |-> reserves.total_b_tokens - b,
                           b_rate         |-> poolRate]
           /\ vaultShares' = [vaultShares EXCEPT ![v] = @ - s]
           /\ wallet' = [wallet EXCEPT ![to] = @ + w]
           /\ position' \in Nat /\ position' >= position - b
           /\ w * SCALAR_12 <= b * poolRate
           /\ poolRate >= SCALAR_12 => position' = position - b
<1> DEFINE R == UpdatedReserves
           b == WithdrawBTokens(R, amount)
           s == BurntShares(R, b)
           w == WithdrawAmount(R, amount)
<1>1. amount \in Nat /\ TypeOK /\ PriceAtLeastOne /\ SharesConserved /\ BooksBacked
  BY BlendStrategyAssumption DEF Books
<1>2. /\ R \in Reserves /\ R.total_shares = reserves.total_shares
      /\ R.total_b_tokens = reserves.total_b_tokens /\ R.b_rate = poolRate
      /\ poolRate \in Nat \ {0} /\ reserves.total_b_tokens \in Nat
      /\ reserves.total_shares \in Nat
  BY <1>1, UpdatedReservesFacts
<1>3. /\ WithdrawQuoteOk(R, amount) /\ BookWithdrawOk(R, vaultShares[v], b)
      /\ reserves' = ReservesAfterWithdraw(R, b)
      /\ vaultShares' = [vaultShares EXCEPT ![v] = @ - s]
      /\ wallet' = [wallet EXCEPT ![to] = @ + PoolPays(w)]
      /\ position' = position - PoolBurns(w)
  BY DEF WithdrawCall, PoolWithdraw
<1>4. SoundReserves(R) /\ reserves.total_shares > 0
  BY <1>1, <1>2, <1>3, UpdatedReservesFacts DEF WithdrawQuoteOk, MulDivFits
<1>5. b \in Nat /\ w \in Nat /\ w * SCALAR_12 <= b * R.b_rate
  BY <1>1, <1>4, WithdrawQuote
<1>6. s \in Nat /\ b * R.total_shares <= s * R.total_b_tokens
  BY <1>1, <1>4, WithdrawQuote
<1>7. b > 0 /\ b <= R.total_b_tokens /\ s <= vaultShares[v]
  BY <1>3 DEF BookWithdrawOk
<1>8. w = MulDivFloor(b, poolRate, SCALAR_12)
  BY <1>2 DEF WithdrawAmount
<1>9. reserves' = [total_shares   |-> reserves.total_shares - s,
                   total_b_tokens |-> reserves.total_b_tokens - b,
                   b_rate         |-> poolRate]
  <2> HIDE DEF b
  <2> QED
    BY <1>2, <1>3 DEF ReservesAfterWithdraw, Reserves
<1> HIDE DEF R, b, s, w
<1>10. s > 0
  <2>1. SUFFICES ASSUME s = 0 PROVE FALSE
    BY <1>6
  <2>2. b * R.total_shares <= 0
    BY <1>2, <1>6, <2>1
  <2> QED
    BY <1>2, <1>4, <1>5, <1>7, <2>2
<1>11. /\ position' \in Nat /\ position' >= position - b
       /\ PoolPays(w) = w
       /\ poolRate >= SCALAR_12 => position' = position - b
  <2> DEFINE burnt == MulDivCeil(w, SCALAR_12, poolRate)
  <2>1. burnt \in Nat
    BY <1>2, <1>5, CeilBounds, BlendMathAssumption
  <2>2. burnt <= b
    BY <1>2, <1>5, CeilIsSmallest, BlendMathAssumption
  <2>3. poolRate >= SCALAR_12 => burnt = b
    <3> SUFFICES ASSUME poolRate >= SCALAR_12
                 PROVE  b <= burnt
      BY <1>5, <2>1, <2>2
    <3>1. w * SCALAR_12 <= burnt * poolRate
      BY <1>2, <1>5, CeilBounds, BlendMathAssumption
    <3>2. b * poolRate < w * SCALAR_12 + SCALAR_12
      BY <1>2, <1>5, <1>8, FloorBounds, BlendMathAssumption
    <3> HIDE DEF burnt
    <3>3. /\ w * SCALAR_12 \in Int /\ b * poolRate \in Int /\ burnt * poolRate \in Int
          /\ SCALAR_12 \in Int
      BY <1>2, <1>5, <2>1, BlendMathAssumption
    <3>4. b * poolRate < burnt * poolRate + poolRate
      BY <1>2, <3>1, <3>2, <3>3
    <3> QED
      BY <1>2, <1>5, <2>1, <3>4, CancelFactor
  <2>4. position \in Nat /\ reserves.total_b_tokens <= position
    BY <1>1 DEF TypeOK, BooksBacked
  <2>5. PoolBurns(w) = IF burnt > position THEN position ELSE burnt
    BY DEF PoolBurns
  <2>6. burnt > position \/ PoolPays(w) = w
    BY DEF PoolPays
  <2> HIDE DEF burnt
  <2> QED
    BY <1>2, <1>3, <1>5, <1>7, <2>1, <2>2, <2>3, <2>4, <2>5, <2>6
<1>12. w * SCALAR_12 <= b * poolRate /\ b * reserves.total_shares <= s * reserves.total_b_tokens
  BY <1>2, <1>5, <1>6
<1> QED
  BY <1>2, <1>3, <1>4, <1>5, <1>6, <1>7, <1>9, <1>10, <1>11, <1>12

\* The shares of all vaults after one of them gained or gave up n.
LEMMA SharesAfterUpdate ==
  ASSUME TypeOK, NEW v \in Vaults, NEW n \in Int, vaultShares[v] + n >= 0,
         vaultShares' = [vaultShares EXCEPT ![v] = @ + n]
  PROVE  /\ vaultShares' \in [Vaults -> Nat]
         /\ SumFunction(vaultShares') = SumFunction(vaultShares) + n
         /\ SumFunction(vaultShares) \in Int
<1>1. vaultShares \in [Vaults -> Nat] /\ IsFiniteSet(Vaults)
  BY BlendStrategyAssumption DEF TypeOK
<1>2. vaultShares \in [Vaults -> Int] /\ vaultShares[v] \in Int /\ vaultShares[v] + n \in Nat
  BY <1>1
<1>3. /\ SumFunction(vaultShares) \in Int
      /\ SumFunction([vaultShares EXCEPT ![v] = vaultShares[v] + n])
           = SumFunction(vaultShares) - vaultShares[v] + (vaultShares[v] + n)
  <2> DEFINE f == vaultShares
             h == vaultShares[v] + n
  <2>1. f \in [Vaults -> Int] /\ h \in Int
    BY <1>2
  <2> HIDE DEF f, h
  <2>2. /\ SumFunction(f) \in Int
        /\ SumFunction([f EXCEPT ![v] = h]) = SumFunction(f) - f[v] + h
    BY <1>1, <2>1, SumOfUpdate
  <2> QED
    BY <2>2 DEF f, h
<1>4. vaultShares' = [vaultShares EXCEPT ![v] = vaultShares[v] + n]
  OBVIOUS
<1>5. vaultShares' \in [Vaults -> Nat]
  BY <1>1, <1>2, <1>4
<1> QED
  BY <1>2, <1>3, <1>4, <1>5

\* Before the first deposit the vaults together own nothing.
LEMMA NothingHeldYet ==
  ASSUME TypeOK, SharesConserved, reserves.total_shares = 0
  PROVE  SumFunction(vaultShares) = 0
<1>1. vaultShares = [v \in Vaults |-> 0]
  BY DEF TypeOK, SharesConserved
<1> QED
  BY <1>1, SumOfZeros, BlendStrategyAssumption

LEMMA DepositKeepsBooks ==
  ASSUME Books, NEW v \in Vaults, NEW amount \in Amounts, DepositCall(v, amount)
  PROVE  Books'
<1> DEFINE ts == reserves.total_shares
           tb == reserves.total_b_tokens
<1>1. TypeOK /\ SharesConserved /\ PriceAtLeastOne /\ BooksBacked
  BY DEF Books
<1>2. PICK b, m, k, c \in Nat :
        /\ b > 0 /\ k > 0 /\ m <= b /\ c <= wallet[v]
        /\ IF ts = 0 THEN m = k + LOCKED_SHARES ELSE m = k /\ b * ts >= m * tb
        /\ reserves' = [total_shares |-> ts + m, total_b_tokens |-> tb + b, b_rate |-> poolRate]
        /\ vaultShares' = [vaultShares EXCEPT ![v] = @ + k]
        /\ wallet' = [wallet EXCEPT ![v] = @ - c]
        /\ position' \in Nat /\ position' >= position + b
  BY DepositFacts
<1>3. ts \in Nat /\ tb \in Nat /\ ts <= tb /\ tb <= position /\ position \in Nat
      /\ poolRate \in Nat /\ vaultShares[v] \in Nat /\ LOCKED_SHARES \in Nat \ {0}
  BY <1>1, UpdatedReservesFacts, BlendMathAssumption
     DEF PriceAtLeastOne, BooksBacked, TypeOK
<1>4. reserves'.total_shares = ts + m /\ reserves'.total_b_tokens = tb + b
  BY <1>2
<1>5. /\ vaultShares' \in [Vaults -> Nat]
      /\ SumFunction(vaultShares') = SumFunction(vaultShares) + k
      /\ SumFunction(vaultShares) \in Int
  <2>1. k \in Int /\ vaultShares[v] + k >= 0
    BY <1>2, <1>3
  <2>2. vaultShares' = [vaultShares EXCEPT ![v] = @ + k]
    BY <1>2
  <2> QED
    BY <1>1, <2>1, <2>2, SharesAfterUpdate
<1>6. TypeOK'
  <2>1. reserves' \in Reserves
    BY <1>2, <1>3 DEF Reserves
  <2>2. wallet' \in [Vaults -> Nat]
    BY <1>1, <1>2 DEF TypeOK
  <2>3. UNCHANGED <<keeper, blnd, poolRate, claimable, poolEvents>>
    BY DEF DepositCall, Supply
  <2> QED
    BY <1>1, <1>2, <1>5, <2>1, <2>2, <2>3 DEF TypeOK
<1>7. SharesConserved'
  <2>1. CASE ts = 0
    <3>1. SumFunction(vaultShares) = 0
      BY <1>1, <2>1, NothingHeldYet
    <3> QED
      BY <1>2, <1>3, <1>4, <1>5, <2>1, <3>1 DEF SharesConserved
  <2>2. CASE ts # 0
    <3>1. SumFunction(vaultShares) + LOCKED_SHARES = ts
      BY <1>1, <2>2 DEF SharesConserved
    <3> QED
      BY <1>2, <1>3, <1>4, <1>5, <2>2, <3>1 DEF SharesConserved
  <2> QED
    BY <2>1, <2>2
<1>8. PriceAtLeastOne'
  BY <1>2, <1>3, <1>4 DEF PriceAtLeastOne
<1>9. BooksBacked'
  BY <1>2, <1>3, <1>4 DEF BooksBacked
<1> QED
  BY <1>6, <1>7, <1>8, <1>9 DEF Books

LEMMA WithdrawKeepsBooks ==
  ASSUME Books, NEW v \in Vaults, NEW to \in Vaults, NEW amount \in Amounts,
         WithdrawCall(v, to, amount)
  PROVE  Books'
<1> DEFINE ts == reserves.total_shares
           tb == reserves.total_b_tokens
<1>1. TypeOK /\ SharesConserved /\ PriceAtLeastOne /\ BooksBacked
  BY DEF Books
<1>2. PICK b, s, w \in Nat :
        /\ b > 0 /\ s > 0 /\ s <= vaultShares[v]
        /\ ts > 0 /\ b <= tb
        /\ b * ts <= s * tb
        /\ reserves' = [total_shares |-> ts - s, total_b_tokens |-> tb - b, b_rate |-> poolRate]
        /\ vaultShares' = [vaultShares EXCEPT ![v] = @ - s]
        /\ wallet' = [wallet EXCEPT ![to] = @ + w]
        /\ position' \in Nat /\ position' >= position - b
  BY WithdrawFacts
<1>3. ts \in Nat /\ tb \in Nat /\ ts <= tb /\ tb <= position /\ position \in Nat
      /\ poolRate \in Nat /\ vaultShares[v] \in Nat /\ LOCKED_SHARES \in Nat \ {0}
  BY <1>1, UpdatedReservesFacts, BlendMathAssumption
     DEF PriceAtLeastOne, BooksBacked, TypeOK
<1>4. reserves'.total_shares = ts - s /\ reserves'.total_b_tokens = tb - b
  BY <1>2
<1>5. s + LOCKED_SHARES <= ts
  BY <1>1, <1>2, <1>3, HeldWithinTotal
<1>6. /\ vaultShares' \in [Vaults -> Nat]
      /\ SumFunction(vaultShares') = SumFunction(vaultShares) - s
      /\ SumFunction(vaultShares) \in Int
  <2> DEFINE n == 0 - s
  <2>1. n \in Int /\ vaultShares[v] + n >= 0
    BY <1>2, <1>3
  <2>2. vaultShares[v] - s = vaultShares[v] + n
    BY <1>3
  <2>3. vaultShares' = [vaultShares EXCEPT ![v] = @ + n]
    BY <1>2, <2>2
  <2> HIDE DEF n
  <2>4. /\ vaultShares' \in [Vaults -> Nat]
        /\ SumFunction(vaultShares') = SumFunction(vaultShares) + n
        /\ SumFunction(vaultShares) \in Int
    BY <1>1, <2>1, <2>3, SharesAfterUpdate
  <2> QED
    BY <2>4 DEF n
<1>7. TypeOK'
  <2>1. reserves' \in Reserves
    BY <1>2, <1>3, <1>5 DEF Reserves
  <2>2. wallet' \in [Vaults -> Nat]
    BY <1>1, <1>2 DEF TypeOK
  <2>3. UNCHANGED <<keeper, blnd, poolRate, claimable, poolEvents>>
    BY DEF WithdrawCall, PoolWithdraw
  <2> QED
    BY <1>1, <1>2, <1>6, <2>1, <2>2, <2>3 DEF TypeOK
<1>8. SharesConserved'
  <2>1. SumFunction(vaultShares) + LOCKED_SHARES = ts
    BY <1>1, <1>2 DEF SharesConserved
  <2> QED
    BY <1>2, <1>3, <1>4, <1>5, <1>6, <2>1 DEF SharesConserved
<1>9. PriceAtLeastOne'
  <2>1. ts - s <= tb - b
    BY <1>2, <1>3, <1>5, BurnKeepsPrice
  <2> QED
    BY <1>4, <2>1 DEF PriceAtLeastOne
<1>10. BooksBacked'
  BY <1>2, <1>3, <1>4 DEF BooksBacked
<1> QED
  BY <1>7, <1>8, <1>9, <1>10 DEF Books

\* A reinvesting harvest adds what the pool minted to the books, and nothing else.
LEMMA ReinvestFacts ==
  ASSUME TypeOK, NEW k \in Keepers, NEW out \in SwapOuts, HarvestAndReinvest(k, out)
  PROVE  \E b \in Nat :
           /\ b > 0
           /\ reserves' = [total_shares   |-> reserves.total_shares,
                           total_b_tokens |-> reserves.total_b_tokens + b,
                           b_rate         |-> poolRate]
           /\ position' = position + b
           /\ blnd' = 0 /\ claimable' = 0
           /\ UNCHANGED <<vaultShares, keeper, poolRate, wallet, poolEvents>>
<1> DEFINE b == PoolMints(out)
<1>1. out \in Nat /\ poolRate \in Nat \ {0} /\ SCALAR_12 \in Nat
  BY UpdatedReservesFacts, BlendStrategyAssumption, BlendMathAssumption
<1>2. b \in Nat
  BY <1>1, FloorBounds DEF PoolMints
<1>3. /\ b > 0 /\ position' = position + b /\ blnd' = 0 /\ claimable' = 0
      /\ reserves' = [UpdatedReserves EXCEPT !.total_b_tokens = @ + b]
      /\ UNCHANGED <<vaultShares, keeper, poolRate, wallet, poolEvents>>
  BY DEF HarvestAndReinvest, Supply, BookHarvestOk
<1> HIDE DEF b
<1>4. reserves' = [total_shares   |-> reserves.total_shares,
                   total_b_tokens |-> reserves.total_b_tokens + b,
                   b_rate         |-> poolRate]
  BY <1>3, UpdatedReservesFacts DEF Reserves
<1> QED
  BY <1>2, <1>3, <1>4

LEMMA HarvestKeepsBooks ==
  ASSUME Books, NEW k \in Keepers, Harvest(k)
  PROVE  Books'
<1>1. TypeOK /\ SharesConserved /\ PriceAtLeastOne /\ BooksBacked
  BY DEF Books
<1>2. CASE HarvestBelowThreshold(k)
  <2>1. TypeOK'
    BY <1>1, <1>2 DEF TypeOK, HarvestBelowThreshold
  <2>2. SharesConserved' /\ PriceAtLeastOne' /\ BooksBacked'
    BY <1>1, <1>2
       DEF HarvestBelowThreshold, SharesConserved, PriceAtLeastOne, BooksBacked
  <2> QED
    BY <2>1, <2>2 DEF Books
<1>3. ASSUME NEW out \in SwapOuts, HarvestAndReinvest(k, out)
      PROVE  Books'
  <2>1. PICK b \in Nat :
          /\ b > 0
          /\ reserves' = [total_shares   |-> reserves.total_shares,
                          total_b_tokens |-> reserves.total_b_tokens + b,
                          b_rate         |-> poolRate]
          /\ position' = position + b
          /\ blnd' = 0 /\ claimable' = 0
          /\ UNCHANGED <<vaultShares, keeper, poolRate, wallet, poolEvents>>
    BY <1>1, <1>3, ReinvestFacts
  <2>2. reserves.total_shares \in Nat /\ reserves.total_b_tokens \in Nat
        /\ poolRate \in Nat /\ position \in Nat
    BY <1>1, UpdatedReservesFacts DEF TypeOK
  <2>3. TypeOK'
    BY <1>1, <2>1, <2>2 DEF TypeOK, Reserves
  <2>4. SharesConserved'
    BY <1>1, <2>1 DEF SharesConserved
  <2>5. PriceAtLeastOne' /\ BooksBacked'
    BY <1>1, <2>1, <2>2 DEF PriceAtLeastOne, BooksBacked
  <2> QED
    BY <2>3, <2>4, <2>5 DEF Books
<1> QED
  BY <1>2, <1>3 DEF Harvest, SwapResults

\* The books are right in every reachable state.
THEOREM BooksHold == Spec => []Books
<1>1. Init => Books
  BY BlendStrategyAssumption
     DEF Init, Books, TypeOK, Reserves, SharesConserved, PriceAtLeastOne, BooksBacked
<1>2. Books /\ [Next]_vars => Books'
  <2> SUFFICES ASSUME Books, [Next]_vars
               PROVE  Books'
    OBVIOUS
  <2>1. ASSUME NEW v \in Vaults, Deposit(v)
        PROVE  Books'
    BY <2>1, DepositKeepsBooks DEF Deposit
  <2>2. ASSUME NEW v \in Vaults, Withdraw(v)
        PROVE  Books'
    BY <2>2, WithdrawKeepsBooks DEF Withdraw
  <2>3. ASSUME NEW k \in Keepers, Harvest(k)
        PROVE  Books'
    BY <2>3, HarvestKeepsBooks
  <2>4. ASSUME NEW k \in Keepers, SetKeeper(k)
        PROVE  Books'
    BY <2>4 DEF Books, SetKeeper, pool, TypeOK, SharesConserved, PriceAtLeastOne, BooksBacked
  <2>5. CASE PoolEvent
    <3>1. TypeOK'
      BY <2>5, BlendStrategyAssumption
         DEF Books, PoolEvent, RateMoves, RewardsAccrue, BlndArrives, pool, TypeOK
    <3>2. SharesConserved' /\ PriceAtLeastOne' /\ BooksBacked'
      BY <2>5
         DEF Books, PoolEvent, RateMoves, RewardsAccrue, BlndArrives, pool,
             SharesConserved, PriceAtLeastOne, BooksBacked
    <3> QED
      BY <3>1, <3>2 DEF Books
  <2>6. CASE UNCHANGED vars
    BY <2>6 DEF Books, vars, pool, TypeOK, SharesConserved, PriceAtLeastOne, BooksBacked
  <2> QED
    BY <2>1, <2>2, <2>3, <2>4, <2>5, <2>6 DEF Next
<1> QED
  BY <1>1, <1>2, PTL DEF Spec

\* The state the contract keeps, and what surrounds it, is well formed: no entry of the vault
\* shares, no total and no wallet is ever negative.
THEOREM TypesHold == Spec => []TypeOK
  BY BooksHold, PTL DEF Books

\* reserves.rs keeps total_shares equal to what the vaults own and what is locked.
THEOREM SharesAreConserved == Spec => []SharesConserved
  BY BooksHold, PTL DEF Books

\* The estimate total_b_tokens never exceeds what the pool holds, above par or below.
THEOREM BooksAreBacked == Spec => []BooksBacked
  BY BooksHold, PTL DEF Books

\* A share is worth at least one b_token.
THEOREM PriceIsAtLeastOne == Spec => []PriceAtLeastOne
  BY BooksHold, PTL DEF Books


-----------------------------------------------------------------------------
(* The share price and the share ledger. *)

\* The price does not fall when b is paid for m shares at the price or above ...
LEMMA PriceAfterMint ==
  ASSUME NEW ts \in Nat, NEW tb \in Nat, NEW m \in Nat, NEW b \in Nat, b * ts >= m * tb
  PROVE  (tb + b) * ts >= tb * (ts + m)
<1>1. (tb + b) * ts = tb * ts + b * ts /\ tb * (ts + m) = tb * ts + m * tb
  OBVIOUS
<1> QED
  BY <1>1

\* ... or taken for s shares at the price or below.
LEMMA PriceAfterBurn ==
  ASSUME NEW ts \in Nat, NEW tb \in Nat, NEW s \in Nat, NEW b \in Nat, b * ts <= s * tb
  PROVE  (tb - b) * ts >= tb * (ts - s)
<1>1. (tb - b) * ts = tb * ts - b * ts /\ tb * (ts - s) = tb * ts - s * tb
  OBVIOUS
<1> QED
  BY <1>1

\* A step either leaves the books alone, or is a step of the share ledger at a price that
\* does not fall.
LEMMA StepIsFair ==
  ASSUME Books, [Next]_vars
  PROVE  /\ [FairShares!Next]_(FairShares!ledger)
         /\ reserves.total_shares > 0 =>
              reserves'.total_b_tokens * reserves.total_shares >=
                reserves.total_b_tokens * reserves'.total_shares
<1> DEFINE ts == reserves.total_shares
           tb == reserves.total_b_tokens
           Goal == /\ [FairShares!Next]_(FairShares!ledger)
                   /\ ts > 0 => reserves'.total_b_tokens * ts >= tb * reserves'.total_shares
<1>1. TypeOK /\ ts \in Nat /\ tb \in Nat /\ vaultShares \in [Vaults -> Nat]
      /\ LOCKED_SHARES \in Nat
  BY UpdatedReservesFacts, BlendMathAssumption DEF Books, TypeOK
<1>2. ASSUME NEW v \in Vaults, NEW amount \in Amounts, DepositCall(v, amount)
      PROVE  Goal
  <2>1. PICK b, m, k, c \in Nat :
          /\ b > 0 /\ k > 0 /\ m <= b /\ c <= wallet[v]
          /\ IF ts = 0 THEN m = k + LOCKED_SHARES ELSE m = k /\ b * ts >= m * tb
          /\ reserves' = [total_shares |-> ts + m, total_b_tokens |-> tb + b, b_rate |-> poolRate]
          /\ vaultShares' = [vaultShares EXCEPT ![v] = @ + k]
          /\ wallet' = [wallet EXCEPT ![v] = @ - c]
          /\ position' \in Nat /\ position' >= position + b
          /\ b * poolRate <= c * SCALAR_12
          /\ poolRate >= SCALAR_12 => position' = position + b
    BY <1>2, DepositFacts, Zenon
  <2>2. reserves'.total_shares = ts + m /\ reserves'.total_b_tokens = tb + b
    BY <2>1
  <2>3. /\ vaultShares'[v] = vaultShares[v] + k
        /\ \A u \in Vaults \ {v} : vaultShares'[u] = vaultShares[u]
        /\ vaultShares[v] \in Nat
    BY <1>1, <2>1
  <2>4. FairShares!Join(v)
    <3>1. FairShares!OnlyClaimsOf(v)
      BY <2>3 DEF FairShares!OnlyClaimsOf
    <3>2. ts > 0 => (reserves'.total_b_tokens - tb) * ts >= (reserves'.total_shares - ts) * tb
      <4>1. reserves'.total_b_tokens - tb = b /\ reserves'.total_shares - ts = m
        BY <1>1, <2>1, <2>2
      <4> QED
        BY <1>1, <2>1, <4>1
    <3>3. reserves'.total_shares - ts >= vaultShares'[v] - vaultShares[v]
      BY <1>1, <2>1, <2>2, <2>3
    <3>4. vaultShares'[v] > vaultShares[v] /\ reserves'.total_b_tokens > tb
      BY <1>1, <2>1, <2>2, <2>3
    <3> QED
      BY <3>1, <3>2, <3>3, <3>4 DEF FairShares!Join
  <2>5. ts > 0 => (tb + b) * ts >= tb * (ts + m)
    BY <1>1, <2>1, PriceAfterMint
  <2> QED
    BY <2>2, <2>4, <2>5 DEF FairShares!Next
<1>3. ASSUME NEW v \in Vaults, NEW to \in Vaults, NEW amount \in Amounts,
             WithdrawCall(v, to, amount)
      PROVE  Goal
  <2>1. PICK b, s, w \in Nat :
          /\ b > 0 /\ s > 0 /\ s <= vaultShares[v]
          /\ ts > 0 /\ b <= tb
          /\ b * ts <= s * tb
          /\ reserves' = [total_shares |-> ts - s, total_b_tokens |-> tb - b, b_rate |-> poolRate]
          /\ vaultShares' = [vaultShares EXCEPT ![v] = @ - s]
    BY <1>3, WithdrawFacts
  <2>2. reserves'.total_shares = ts - s /\ reserves'.total_b_tokens = tb - b
    BY <2>1
  <2>3. /\ vaultShares'[v] = vaultShares[v] - s
        /\ \A u \in Vaults \ {v} : vaultShares'[u] = vaultShares[u]
        /\ vaultShares[v] \in Nat
    BY <1>1, <2>1
  <2>4. FairShares!Leave(v)
    <3>1. FairShares!OnlyClaimsOf(v)
      BY <2>3 DEF FairShares!OnlyClaimsOf
    <3>2. (tb - (tb - b)) * ts <= (ts - (ts - s)) * tb
      BY <1>1, <2>1
    <3>3. ts - (ts - s) = vaultShares[v] - (vaultShares[v] - s)
      BY <1>1, <2>1, <2>3
    <3>4. vaultShares[v] - s < vaultShares[v] /\ vaultShares[v] - s >= 0 /\ tb - b < tb
      BY <1>1, <2>1, <2>3
    <3> QED
      BY <2>2, <2>3, <3>1, <3>2, <3>3, <3>4 DEF FairShares!Leave
  <2>5. (tb - b) * ts >= tb * (ts - s)
    BY <1>1, <2>1, PriceAfterBurn
  <2> QED
    BY <2>2, <2>4, <2>5 DEF FairShares!Next
<1>4. ASSUME NEW k \in Keepers, NEW out \in SwapOuts, HarvestAndReinvest(k, out)
      PROVE  Goal
  <2>1. PICK b \in Nat :
          /\ b > 0
          /\ reserves' = [total_shares |-> ts, total_b_tokens |-> tb + b, b_rate |-> poolRate]
          /\ UNCHANGED vaultShares
    BY <1>1, <1>4, ReinvestFacts
  <2>2. reserves'.total_shares = ts /\ reserves'.total_b_tokens = tb + b
    BY <2>1
  <2>3. FairShares!Yield
    BY <1>1, <2>1, <2>2 DEF FairShares!Yield
  <2>4. 0 \in Nat /\ b * ts >= 0 * tb
    BY <1>1
  <2>5. (tb + b) * ts >= tb * (ts + 0)
    BY <1>1, <2>4, PriceAfterMint
  <2> QED
    BY <1>1, <2>2, <2>3, <2>5 DEF FairShares!Next
<1>5. ASSUME reserves' = reserves, vaultShares' = vaultShares
      PROVE  Goal
  BY <1>1, <1>5 DEF FairShares!ledger
<1>6. ASSUME NEW k \in Keepers, HarvestBelowThreshold(k) \/ SetKeeper(k)
      PROVE  Goal
  BY <1>5, <1>6 DEF HarvestBelowThreshold, SetKeeper
<1>7. ASSUME PoolEvent \/ UNCHANGED vars
      PROVE  Goal
  BY <1>5, <1>7 DEF PoolEvent, RateMoves, RewardsAccrue, BlndArrives, vars
<1> HIDE DEF Goal
<1>8. Goal
  BY <1>2, <1>3, <1>4, <1>6, <1>7 DEF Next, Deposit, Withdraw, Harvest, SwapResults
<1> QED
  BY <1>8 DEF Goal

\* No call lowers the b_tokens behind a share.
THEOREM SharePriceHolds == Spec => SharePriceNeverFalls
<1> DEFINE Fair == reserves.total_shares > 0 =>
             reserves'.total_b_tokens * reserves.total_shares >=
               reserves.total_b_tokens * reserves'.total_shares
<1>1. Books /\ [Next]_vars => [Fair]_vars
  BY StepIsFair
<1> QED
  BY <1>1, BooksHold, PTL DEF Spec, SharePriceNeverFalls

\* strategy-blend implements the share ledger.
THEOREM ImplementsLedger == Spec => ImplementsShareLedger
<1>1. Init => FairShares!Init
  BY DEF Init, FairShares!Init
<1>2. Books /\ [Next]_vars => [FairShares!Next]_(FairShares!ledger)
  BY StepIsFair
<1> QED
  BY <1>1, <1>2, BooksHold, PTL DEF Spec, ImplementsShareLedger, FairShares!Spec

-----------------------------------------------------------------------------
(* What a vault can take out. *)

\* In a vault's place: h of the ts shares are redeemed for at most B b_tokens, and s of them
\* are burnt for b.  What is left of the vault's shares is worth no more b_tokens than B.
LEMMA RestWithinBalance ==
  ASSUME NEW ts \in Nat, NEW tb \in Nat, NEW h \in Nat, NEW s \in Nat, NEW b \in Nat,
         0 < s, s <= h, h < ts, ts <= tb, b < tb, s * tb < b * ts + ts
  PROVE  MulDivFloor(h - s, tb - b, ts - s) <= MulDivFloor(h, tb, ts)
<1> DEFINE q == MulDivFloor(h - s, tb - b, ts - s)
<1>1. q \in Nat /\ q * (ts - s) <= (h - s) * (tb - b)
  BY FloorBounds
<1> HIDE DEF q
<1>2. (tb - b) * ts <= tb * (ts - s) + ts
  <2>1. (tb - b) * ts = tb * ts - b * ts /\ tb * (ts - s) = tb * ts - s * tb
    OBVIOUS
  <2>2. b * ts \in Int /\ s * tb \in Int /\ tb * ts \in Int
    OBVIOUS
  <2> QED
    BY <2>1, <2>2
<1>3. (h - s) * ((tb - b) * ts) <= (h - s) * (tb * (ts - s) + ts)
  <2>1. h - s \in Nat /\ (tb - b) * ts \in Int /\ tb * (ts - s) + ts \in Int
    OBVIOUS
  <2> QED
    BY <1>2, <2>1, ScaleFactor
<1>4. (h - s) * ts <= (s * tb) * (ts - s)
  <2>1. h - s \in Nat /\ ts - s \in Nat /\ h - s <= ts - s
    OBVIOUS
  <2>2. (h - s) * ts <= (ts - s) * ts
    BY <2>1
  <2>3. ts <= s * tb
    OBVIOUS
  <2>4. s * tb \in Nat /\ ts * (ts - s) <= (s * tb) * (ts - s)
    BY <2>1, <2>3
  <2> QED
    BY <2>1, <2>2, <2>4
<1>5. (h - s) * (tb * (ts - s) + ts) <= (h * tb) * (ts - s)
  <2>1. (h - s) * (tb * (ts - s) + ts) = (h * tb) * (ts - s) - (s * tb) * (ts - s) + (h - s) * ts
    OBVIOUS
  <2>2. (h * tb) * (ts - s) \in Int /\ (s * tb) * (ts - s) \in Int /\ (h - s) * ts \in Int
    OBVIOUS
  <2> QED
    BY <1>4, <2>1, <2>2
<1>6. (q * ts) * (ts - s) <= (h * tb) * (ts - s)
  <2>1. (q * (ts - s)) * ts <= ((h - s) * (tb - b)) * ts
    BY <1>1
  <2>2. /\ (q * (ts - s)) * ts = (q * ts) * (ts - s)
        /\ ((h - s) * (tb - b)) * ts = (h - s) * ((tb - b) * ts)
    BY <1>1
  <2>3. /\ (q * ts) * (ts - s) \in Int /\ (h - s) * ((tb - b) * ts) \in Int
        /\ (h - s) * (tb * (ts - s) + ts) \in Int /\ (h * tb) * (ts - s) \in Int
    BY <1>1
  <2> QED
    BY <1>3, <1>5, <2>1, <2>2, <2>3
<1>7. q * ts <= h * tb
  <2>1. q * ts \in Int /\ h * tb \in Int /\ ts - s \in Nat \ {0}
    BY <1>1
  <2> QED
    BY <1>6, <2>1, CancelFactor
<1>8. q <= MulDivFloor(h, tb, ts)
  BY <1>1, <1>7, FloorIsLargest
<1> QED
  BY <1>8 DEF q

\* A request within the balance passes every check of withdraw and is paid within the balance.
LEMMA WithinBalanceIsPaid ==
  ASSUME NEW R, SoundReserves(R), NEW h \in Nat, NEW amount \in Nat \ {0},
         h + LOCKED_SHARES <= R.total_shares, ToUnderlyingFits(R, h),
         amount <= SharesToUnderlying(R, h)
  PROVE  LET b == WithdrawBTokens(R, amount)
         IN  /\ WithdrawQuoteOk(R, amount)
             /\ BookWithdrawOk(R, h, b)
             /\ ToUnderlyingFits(ReservesAfterWithdraw(R, b), h - BurntShares(R, b))
             /\ WithdrawAmount(R, amount) \in amount..SharesToUnderlying(R, h)
<1> DEFINE ts  == R.total_shares
           tb  == R.total_b_tokens
           r   == R.b_rate
           S   == SCALAR_12
           M   == MaxI128
           B   == SharesToBTokensDown(R, h)
           bal == SharesToUnderlying(R, h)
           b0  == RequestedBTokens(R, amount)
           s   == RequestedShares(R, amount)
           b   == WithdrawBTokens(R, amount)
           w   == WithdrawAmount(R, amount)
           R2  == ReservesAfterWithdraw(R, b)
<1>1. /\ ts \in Nat \ {0} /\ tb \in Nat \ {0} /\ r \in Nat \ {0} /\ S \in Nat \ {0}
      /\ M \in Nat /\ ts <= tb /\ ~Unpriced(R) /\ h < ts /\ R \in Reserves
  BY SoundIsPriced, BlendMathAssumption, MaxI128Assumption DEF SoundReserves
<1>2. /\ B = MulDivFloor(h, tb, ts) /\ bal = MulDivFloor(B, r, S)
      /\ h * tb <= M /\ B * r <= M
  BY <1>1 DEF SharesToBTokensDown, SharesToUnderlying, BTokensToUnderlyingDown,
              ToUnderlyingFits, MulDivFits
<1>3. /\ b0 = MulDivCeil(amount, S, r) /\ s = MulDivCeil(b0, ts, tb)
      /\ b = MulDivFloor(s, tb, ts) /\ w = MulDivFloor(b, r, S)
  BY <1>1 DEF RequestedBTokens, RequestedShares, BTokensToSharesUp, WithdrawBTokens,
              WithdrawAmount
<1>4. /\ b0 \in Nat /\ s \in Nat /\ b \in Nat /\ b >= b0 /\ BurntShares(R, b) = s
      /\ b * ts <= s * tb /\ w \in Nat /\ w >= amount /\ w * S <= b * r
  <2> HIDE DEF s, b, b0, w
  <2> QED
    BY WithdrawQuote DEF s, b, b0, w, ts, tb, r, S
<1>5. /\ R2.total_shares = ts - s /\ R2.total_b_tokens = tb - b /\ R2.b_rate = r
  <2> HIDE DEF b
  <2> QED
    BY <1>1, <1>4 DEF ReservesAfterWithdraw, Reserves
<1>6. ToSharesFits(R, b0) <=> b0 * ts <= M
  BY <1>1 DEF ToSharesFits, MulDivFits
<1>7. ToSharesFits(R, b) <=> b * ts <= M
  BY <1>1 DEF ToSharesFits, MulDivFits
<1>8. WithdrawQuoteOk(R, amount) <=>
        amount * S <= M /\ b0 * ts <= M /\ s * tb <= M /\ b * r <= M
  BY <1>1, <1>6 DEF WithdrawQuoteOk, MulDivFits
<1>9. BookWithdrawOk(R, h, b) <=> b > 0 /\ b * ts <= M /\ s <= ts /\ b <= tb /\ s <= h
  BY <1>4, <1>7 DEF BookWithdrawOk
<1>10. amount <= bal
  OBVIOUS
<1> HIDE DEF ts, tb, r, S, M, B, bal, b0, s, b, w, R2
<1>11. B \in Nat /\ B * ts <= h * tb
  BY <1>1, <1>2, FloorBounds
<1>12. bal \in Nat /\ bal * S <= B * r
  BY <1>1, <1>2, <1>11, FloorBounds
<1>13. amount * S <= B * r
  <2>1. amount * S <= bal * S
    BY <1>1, <1>10, <1>12, ScaleFactor
  <2>2. amount * S \in Int /\ bal * S \in Int /\ B * r \in Int
    BY <1>1, <1>11, <1>12
  <2> QED
    BY <1>12, <2>1, <2>2
<1>14. b0 <= B
  BY <1>1, <1>3, <1>11, <1>13, CeilIsSmallest
<1>15. b0 * ts <= h * tb
  <2>1. b0 * ts <= B * ts
    BY <1>1, <1>4, <1>11, <1>14, ScaleFactor
  <2>2. b0 * ts \in Int /\ B * ts \in Int /\ h * tb \in Int
    BY <1>1, <1>4, <1>11
  <2> QED
    BY <1>11, <2>1, <2>2
<1>16. s <= h
  BY <1>1, <1>3, <1>4, <1>15, CeilIsSmallest
<1>17. s * tb <= h * tb /\ b * ts <= h * tb
  <2>1. s * tb <= h * tb
    BY <1>1, <1>4, <1>16, ScaleFactor
  <2>2. b * ts \in Int /\ s * tb \in Int /\ h * tb \in Int
    BY <1>1, <1>4
  <2> QED
    BY <1>4, <2>1, <2>2
<1>18. b <= B
  BY <1>1, <1>2, <1>4, <1>17, FloorIsLargest
<1>19. b * r <= B * r
  BY <1>1, <1>4, <1>11, <1>18, ScaleFactor
<1>20. b > 0 /\ s > 0
  <2>1. b0 > 0
    <3>1. amount * S <= b0 * r
      BY <1>1, <1>3, CeilBounds
    <3>2. SUFFICES ASSUME b0 = 0 PROVE FALSE
      BY <1>4
    <3> QED
      BY <1>1, <3>1, <3>2
  <2>2. b > 0
    BY <1>4, <2>1
  <2>3. s # 0
    <3>1. SUFFICES ASSUME s = 0 PROVE FALSE
      OBVIOUS
    <3>2. b * ts <= 0
      BY <1>1, <1>4, <3>1
    <3> QED
      BY <1>1, <1>4, <2>2, <3>2
  <2> QED
    BY <1>4, <2>2, <2>3
<1>21. b < tb
  <2>1. b * ts < ts * tb
    <3>1. h * tb < ts * tb
      BY <1>1
    <3>2. b * ts \in Int /\ h * tb \in Int /\ ts * tb \in Int
      BY <1>1, <1>4
    <3> QED
      BY <1>17, <3>1, <3>2
  <2> QED
    BY <1>1, <1>4, <2>1, CancelFactor
<1>22. WithdrawQuoteOk(R, amount) /\ BookWithdrawOk(R, h, b)
  <2>1. /\ amount * S \in Int /\ B * r \in Int /\ b0 * ts \in Int /\ h * tb \in Int
        /\ s * tb \in Int /\ b * r \in Int /\ b * ts \in Int
    BY <1>1, <1>4, <1>11
  <2> QED
    BY <1>1, <1>2, <1>4, <1>8, <1>9, <1>13, <1>15, <1>16, <1>17, <1>19, <1>20, <1>21, <2>1
<1>23. w <= bal
  <2>1. w * S <= B * r
    <3>1. w * S \in Int /\ b * r \in Int /\ B * r \in Int
      BY <1>1, <1>4, <1>11
    <3> QED
      BY <1>4, <1>19, <3>1
  <2> QED
    BY <1>1, <1>2, <1>4, <1>11, <2>1, FloorIsLargest
<1>24. ToUnderlyingFits(R2, h - s)
  <2> DEFINE Q == MulDivFloor(h - s, tb - b, ts - s)
  <2>1. h - s \in Nat /\ tb - b \in Nat \ {0} /\ ts - s \in Nat \ {0}
    BY <1>1, <1>4, <1>16, <1>21
  <2>2. Q \in Nat
    BY <2>1, FloorBounds
  <2>3. Q <= B
    <3>1. s * tb < b * ts + ts
      BY <1>1, <1>3, <1>4, FloorBounds
    <3> QED
      BY <1>1, <1>2, <1>4, <1>16, <1>20, <1>21, <3>1, RestWithinBalance
  <2>4. Q * r <= M
    <3>1. Q * r <= B * r
      <4> HIDE DEF Q
      <4> QED
        BY <1>1, <1>11, <2>2, <2>3, ScaleFactor
    <3> HIDE DEF Q
    <3>2. Q * r \in Int /\ B * r \in Int
      BY <1>1, <1>11, <2>2
    <3> QED
      BY <1>1, <1>2, <3>1, <3>2
  <2>5. (h - s) * (tb - b) <= M
    <3>1. (h - s) * (tb - b) <= h * (tb - b)
      BY <1>4, <1>16, <2>1, ScaleFactor
    <3>2. h * (tb - b) <= h * tb
      BY <1>1, <1>4, <2>1
    <3>3. (h - s) * (tb - b) \in Int /\ h * (tb - b) \in Int /\ h * tb \in Int
      BY <1>1, <2>1
    <3> QED
      BY <1>1, <1>2, <3>1, <3>2, <3>3
  <2>6. SharesToBTokensDown(R2, h - s) = Q
    BY <1>5 DEF SharesToBTokensDown
  <2> HIDE DEF Q
  <2> QED
    BY <1>1, <1>5, <2>1, <2>4, <2>5, <2>6 DEF ToUnderlyingFits, MulDivFits, S, M
<1>25. w \in amount..bal
  BY <1>4, <1>12, <1>23
<1> QED
  BY <1>4, <1>22, <1>24, <1>25 DEF bal, b, w, R2

\* What balance() reports can be withdrawn, in every reachable state.
THEOREM BalanceIsWithdrawable == Spec => []BalanceWithdrawable
<1>1. ASSUME Books
      PROVE  BalanceWithdrawable
  <2> SUFFICES ASSUME NEW v \in Vaults, BalanceComputable(v), NEW amount \in 1..Balance(v)
               PROVE  LET R == UpdatedReserves
                          b == WithdrawBTokens(R, amount)
                      IN  /\ WithdrawQuoteOk(R, amount)
                          /\ BookWithdrawOk(R, vaultShares[v], b)
                          /\ ToUnderlyingFits(ReservesAfterWithdraw(R, b),
                                              vaultShares[v] - BurntShares(R, b))
                          /\ WithdrawAmount(R, amount) \in amount..Balance(v)
    BY DEF BalanceWithdrawable
  <2>1. TypeOK /\ SharesConserved /\ PriceAtLeastOne
    BY <1>1 DEF Books
  <2>2. vaultShares[v] > 0 /\ vaultShares[v] \in Nat
    BY <2>1, HeldWithinTotal DEF Balance
  <2>3. Balance(v) = SharesToUnderlying(UpdatedReserves, vaultShares[v])
    BY <2>2 DEF Balance
  <2>4. ToUnderlyingFits(UpdatedReserves, vaultShares[v])
    BY <2>2 DEF BalanceComputable
  <2>5. /\ SoundReserves(UpdatedReserves)
        /\ vaultShares[v] + LOCKED_SHARES <= UpdatedReserves.total_shares
    BY <2>1, <2>2, HeldWithinTotal, UpdatedReservesFacts
  <2>6. amount \in Nat \ {0} /\ amount <= Balance(v)
    OBVIOUS
  <2> QED
    BY <2>2, <2>3, <2>4, <2>5, <2>6, WithinBalanceIsPaid
<1> QED
  BY <1>1, BooksHold, PTL

-----------------------------------------------------------------------------
(* Quotes, dilution and rewards. *)

\* No smaller charge mints as many shares.
LEMMA ChargeIsLeast ==
  ASSUME NEW R \in Reserves, R.total_shares = 0 \/ SoundReserves(R), R.b_rate > 0,
         NEW amount \in Nat, R.total_shares # 0 => AffordableShares(R, amount) # 0,
         NEW n \in 0..DepositBTokens(R, amount) - 1
  PROVE  MintedShares(R, n) < AffordableShares(R, amount)
<1> DEFINE s == AffordableShares(R, amount)
           b == DepositBTokens(R, amount)
<1>1. CASE R.total_shares = 0
  <2>1. Unpriced(R)
    BY <1>1 DEF Unpriced
  <2>2. s = b /\ MintedShares(R, n) = n
    BY <1>1, <2>1 DEF DepositBTokens, MintedShares, BTokensToSharesDown, AffordableShares
  <2>3. b \in Nat
    BY <1>1, FirstDepositQuote
  <2> HIDE DEF s, b
  <2> QED
    BY <2>2, <2>3 DEF b, s
<1>2. CASE R.total_shares # 0
  <2> DEFINE ts == R.total_shares
             tb == R.total_b_tokens
  <2>1. SoundReserves(R) /\ ts \in Nat \ {0} /\ tb \in Nat \ {0} /\ ~Unpriced(R)
    BY <1>2, SoundIsPriced
  <2>2. s \in Nat /\ b \in Nat
    BY <1>2, <2>1, DepositQuote
  <2>3. b = MulDivCeil(s, tb, ts) /\ MintedShares(R, n) = MulDivFloor(n, ts, tb)
    BY <1>2, <2>1 DEF DepositBTokens, MintedShares, BTokensToSharesDown
  <2>4. n \in 0..(b - 1)
    OBVIOUS
  <2> HIDE DEF s, b, ts, tb
  <2>5. n \in Nat /\ n < b
    BY <2>2, <2>4
  <2>6. ~(s * tb <= n * ts)
    <3>1. s * tb <= n * ts => b <= n
      BY <2>1, <2>2, <2>3, <2>5, CeilIsSmallest
    <3> QED
      BY <2>2, <2>5, <3>1
  <2>7. MulDivFloor(n, ts, tb) \in Nat /\ ~(s <= MulDivFloor(n, ts, tb))
    <3>1. MulDivFloor(n, ts, tb) \in Nat
      BY <2>1, <2>5, FloorBounds
    <3>2. ~(s <= MulDivFloor(n, ts, tb))
      BY <2>1, <2>2, <2>5, <2>6, FloorIsLargest
    <3> QED
      BY <3>1, <3>2
  <2>8. MintedShares(R, n) < s
    BY <2>2, <2>3, <2>7
  <2> QED
    BY <2>8 DEF s
<1> QED
  BY <1>1, <1>2

\* The shares minted and burnt are the shares quoted, for the least charge.
THEOREM QuotesAreBooked == Spec => []QuoteIsBooked
<1>1. ASSUME Books
      PROVE  QuoteIsBooked
  <2> DEFINE R == UpdatedReserves
  <2>1. TypeOK /\ PriceAtLeastOne
    BY <1>1 DEF Books
  <2>2. R \in Reserves /\ R.b_rate > 0 /\ (R.total_shares = 0 \/ SoundReserves(R))
    BY <2>1, UpdatedReservesFacts
  <2>3. ASSUME NEW amount \in Amounts \ {0}, DepositQuoteOk(R, amount)
        PROVE  /\ DepositAmount(R, amount) <= amount
               /\ MintedShares(R, DepositBTokens(R, amount)) = AffordableShares(R, amount)
               /\ \A b \in 0..DepositBTokens(R, amount) - 1 :
                    MintedShares(R, b) < AffordableShares(R, amount)
    <3>1. amount \in Nat
      BY BlendStrategyAssumption
    <3>2. R.total_shares # 0 => AffordableShares(R, amount) # 0
      BY <2>3 DEF DepositQuoteOk
    <3> HIDE DEF R
    <3>3. CASE R.total_shares = 0
      <4>1. DepositAmount(R, amount) <= amount
        BY <2>2, <3>1, <3>3, FirstDepositQuote
      <4>2. MintedShares(R, DepositBTokens(R, amount)) = AffordableShares(R, amount)
        BY <3>3 DEF DepositBTokens, MintedShares, AffordableShares, BTokensToSharesDown, Unpriced
      <4> QED
        BY <2>2, <3>1, <3>2, <4>1, <4>2, ChargeIsLeast
    <3>4. CASE R.total_shares # 0
      <4>1. DepositAmount(R, amount) <= amount
        BY <2>2, <3>1, <3>2, <3>4, DepositQuote
      <4>2. MintedShares(R, DepositBTokens(R, amount)) = AffordableShares(R, amount)
        BY <2>2, <3>1, <3>2, <3>4, DepositQuote
      <4> QED
        BY <2>2, <3>1, <3>2, <4>1, <4>2, ChargeIsLeast
    <3> QED
      BY <3>3, <3>4
  <2>4. ASSUME NEW amount \in Amounts \ {0}, WithdrawQuoteOk(R, amount)
        PROVE  BurntShares(R, WithdrawBTokens(R, amount)) = RequestedShares(R, amount)
    <3>1. SoundReserves(R) /\ amount \in Nat
      BY <2>2, <2>4, BlendStrategyAssumption DEF WithdrawQuoteOk, MulDivFits
    <3> HIDE DEF R
    <3> QED
      BY <3>1, WithdrawQuote
  <2> QED
    BY <2>3, <2>4 DEF QuoteIsBooked
<1> QED
  BY <1>1, BooksHold, PTL

\* The underlying a vault's shares are worth does not fall when the share price does not.
LEMMA WorthFollowsPrice ==
  ASSUME NEW ts \in Nat \ {0}, NEW tb \in Nat, NEW ts2 \in Nat \ {0}, NEW tb2 \in Nat,
         NEW h \in Nat, NEW r \in Nat, tb2 * ts >= tb * ts2
  PROVE  MulDivFloor(MulDivFloor(h, tb, ts), r, SCALAR_12)
           <= MulDivFloor(MulDivFloor(h, tb2, ts2), r, SCALAR_12)
<1> DEFINE B  == MulDivFloor(h, tb, ts)
           B2 == MulDivFloor(h, tb2, ts2)
           w  == MulDivFloor(B, r, SCALAR_12)
<1>1. B \in Nat /\ B * ts <= h * tb /\ B2 \in Nat
  BY FloorBounds
<1>2. B <= B2
  <2> HIDE DEF B, B2
  <2>1. (B * ts) * ts2 <= (h * tb) * ts2
    BY <1>1
  <2>2. h * (tb * ts2) <= h * (tb2 * ts)
    OBVIOUS
  <2>3. (B * ts2) * ts <= (h * tb2) * ts
    <3>1. /\ (B * ts) * ts2 = (B * ts2) * ts /\ (h * tb) * ts2 = h * (tb * ts2)
          /\ h * (tb2 * ts) = (h * tb2) * ts
      BY <1>1
    <3>2. (B * ts2) * ts \in Int /\ h * (tb * ts2) \in Int /\ (h * tb2) * ts \in Int
      BY <1>1
    <3> QED
      BY <2>1, <2>2, <3>1, <3>2
  <2>4. B * ts2 <= h * tb2
    <3>1. B * ts2 \in Int /\ h * tb2 \in Int
      BY <1>1
    <3> QED
      BY <2>3, <3>1, CancelFactor
  <2> QED
    BY <1>1, <2>4, FloorIsLargest DEF B2
<1> HIDE DEF B, B2
<1>3. w \in Nat /\ w * SCALAR_12 <= B * r
  BY <1>1, FloorBounds, BlendMathAssumption
<1> HIDE DEF w
<1>4. B * r <= B2 * r
  BY <1>1, <1>2, ScaleFactor
<1>5. w * SCALAR_12 <= B2 * r
  <2>1. w * SCALAR_12 \in Int /\ B * r \in Int /\ B2 * r \in Int
    BY <1>1, <1>3, BlendMathAssumption
  <2> QED
    BY <1>3, <1>4, <2>1
<1>6. w <= MulDivFloor(B2, r, SCALAR_12)
  BY <1>1, <1>3, <1>5, FloorIsLargest, BlendMathAssumption
<1> QED
  BY <1>6 DEF w, B, B2

\* What balance() computes for a vault that owns shares.
Appraised(v) == vaultShares[v] > 0 =>
  /\ vaultShares[v] \in Nat
  /\ reserves.total_shares \in Nat \ {0}
  /\ reserves.total_b_tokens \in Nat
  /\ poolRate \in Nat
  /\ Balance(v) = MulDivFloor(
       MulDivFloor(vaultShares[v], reserves.total_b_tokens, reserves.total_shares),
       poolRate, SCALAR_12)
  /\ Balance(v) \in Nat

LEMMA BalanceIsAppraised ==
  ASSUME Books, NEW v \in Vaults
  PROVE  Appraised(v)
<1> SUFFICES ASSUME vaultShares[v] > 0
             PROVE  /\ vaultShares[v] \in Nat
                    /\ reserves.total_shares \in Nat \ {0}
                    /\ reserves.total_b_tokens \in Nat
                    /\ poolRate \in Nat
                    /\ Balance(v) = MulDivFloor(
                         MulDivFloor(vaultShares[v], reserves.total_b_tokens,
                                     reserves.total_shares),
                         poolRate, SCALAR_12)
                    /\ Balance(v) \in Nat
  BY DEF Appraised
<1>1. TypeOK /\ SharesConserved /\ PriceAtLeastOne
  BY DEF Books
<1>2. /\ vaultShares[v] \in Nat /\ reserves.total_shares \in Nat \ {0}
      /\ reserves.total_b_tokens \in Nat /\ poolRate \in Nat
      /\ SoundReserves(UpdatedReserves)
      /\ UpdatedReserves.total_shares = reserves.total_shares
      /\ UpdatedReserves.total_b_tokens = reserves.total_b_tokens
      /\ UpdatedReserves.b_rate = poolRate
  BY <1>1, HeldWithinTotal, UpdatedReservesFacts
<1>3. ~Unpriced(UpdatedReserves)
  BY <1>2, SoundIsPriced
<1>4. Balance(v) = MulDivFloor(
        MulDivFloor(vaultShares[v], reserves.total_b_tokens, reserves.total_shares),
        poolRate, SCALAR_12)
  BY <1>2, <1>3 DEF Balance, SharesToUnderlying, SharesToBTokensDown, BTokensToUnderlyingDown
<1>5. Balance(v) \in Nat
  <2> DEFINE B == MulDivFloor(vaultShares[v], reserves.total_b_tokens, reserves.total_shares)
  <2>1. B \in Nat
    BY <1>2, FloorBounds
  <2> HIDE DEF B
  <2>2. MulDivFloor(B, poolRate, SCALAR_12) \in Nat
    BY <1>2, <2>1, FloorBounds, BlendMathAssumption
  <2> QED
    BY <1>4, <2>2 DEF B
<1> QED
  BY <1>2, <1>4, <1>5

\* At an unchanged rate, what balance() tells a vault falls only by the vault's own calls.
THEOREM NobodyIsDiluted == Spec => OthersNotDiluted
<1> DEFINE Kept == \A v \in Vaults :
             /\ poolRate' = poolRate
             /\ vaultShares'[v] = vaultShares[v]
             => Balance(v)' >= Balance(v)
           AllAppraised == \A v \in Vaults : Appraised(v)
<1>1. Books => AllAppraised
  BY BalanceIsAppraised
<1>2. ASSUME AllAppraised, AllAppraised', Books, [Next]_vars
      PROVE  Kept
  <2> SUFFICES ASSUME NEW v \in Vaults, poolRate' = poolRate, vaultShares'[v] = vaultShares[v]
               PROVE  Balance(v)' >= Balance(v)
    OBVIOUS
  <2>1. CASE vaultShares[v] > 0
    <3> DEFINE h    == vaultShares[v]
               ts   == reserves.total_shares
               tb   == reserves.total_b_tokens
               ts2  == reserves'.total_shares
               tb2  == reserves'.total_b_tokens
               bal  == Balance(v)
               bal2 == Balance(v)'
    <3>1. /\ h \in Nat /\ ts \in Nat \ {0} /\ tb \in Nat /\ poolRate \in Nat /\ bal \in Nat
          /\ bal = MulDivFloor(MulDivFloor(h, tb, ts), poolRate, SCALAR_12)
      BY <1>2, <2>1 DEF Appraised
    <3>2. /\ ts2 \in Nat \ {0} /\ tb2 \in Nat /\ bal2 \in Nat
          /\ bal2 = MulDivFloor(MulDivFloor(h, tb2, ts2), poolRate, SCALAR_12)
      BY <1>2, <2>1 DEF Appraised
    <3>3. tb2 * ts >= tb * ts2
      BY <1>2, <3>1, StepIsFair
    <3> HIDE DEF h, ts, tb, ts2, tb2, bal, bal2
    <3>4. bal <= bal2
      BY <3>1, <3>2, <3>3, WorthFollowsPrice
    <3>5. bal2 >= bal
      BY <3>1, <3>2, <3>4
    <3> QED
      BY <3>5 DEF bal, bal2
  <2>2. CASE ~(vaultShares[v] > 0)
    BY <2>2 DEF Balance
  <2> QED
    BY <2>1, <2>2
<1>3. AllAppraised /\ AllAppraised' /\ Books /\ [Next]_vars => [Kept]_vars
  BY <1>2
<1> QED
  BY <1>1, <1>3, BooksHold, PTL DEF Spec, OthersNotDiluted

\* BLND is only ever exchanged, all of it, for b_tokens that are booked.
THEOREM RewardsAreKept == Spec => RewardsNotLost
<1> DEFINE Kept == blnd' + claimable' < blnd + claimable =>
             /\ blnd' + claimable' = 0
             /\ reserves'.total_b_tokens > reserves.total_b_tokens
<1>1. ASSUME Books, [Next]_vars
      PROVE  Kept
  <2>1. TypeOK /\ blnd \in Nat /\ claimable \in Nat /\ reserves.total_b_tokens \in Nat
    BY <1>1, UpdatedReservesFacts DEF Books, TypeOK
  <2>2. ASSUME blnd' = blnd, claimable' = claimable
        PROVE  Kept
    BY <2>1, <2>2
  <2>3. ASSUME NEW v \in Vaults, Deposit(v) \/ Withdraw(v)
        PROVE  Kept
    BY <2>2, <2>3 DEF Deposit, DepositCall, Withdraw, WithdrawCall
  <2>4. ASSUME NEW k \in Keepers, HarvestBelowThreshold(k)
        PROVE  Kept
    BY <2>1, <2>4 DEF HarvestBelowThreshold
  <2>5. ASSUME NEW k \in Keepers, NEW out \in SwapOuts, HarvestAndReinvest(k, out)
        PROVE  Kept
    <3>1. PICK b \in Nat :
            /\ b > 0
            /\ reserves' = [total_shares   |-> reserves.total_shares,
                            total_b_tokens |-> reserves.total_b_tokens + b,
                            b_rate         |-> poolRate]
            /\ blnd' = 0 /\ claimable' = 0
      BY <2>1, <2>5, ReinvestFacts
    <3> QED
      BY <2>1, <3>1
  <2>6. ASSUME NEW k \in Keepers, SetKeeper(k)
        PROVE  Kept
    BY <2>2, <2>6 DEF SetKeeper, pool
  <2>7. CASE PoolEvent
    BY <2>1, <2>7, BlendStrategyAssumption
       DEF PoolEvent, RateMoves, RewardsAccrue, BlndArrives, pool
  <2>8. CASE UNCHANGED vars
    BY <2>2, <2>8 DEF vars, pool
  <2> QED
    BY <1>1, <2>3, <2>4, <2>5, <2>6, <2>7, <2>8 DEF Next, Harvest, SwapResults
<1>2. Books /\ [Next]_vars => [Kept]_vars
  BY <1>1
<1> QED
  BY <1>2, BooksHold, PTL DEF Spec, RewardsNotLost

-----------------------------------------------------------------------------
(* What all balances together are worth, and what a call does to its       *)
(* caller's.                                                               *)

\* While there are shares, a balance is what its shares are worth at the books' price.
Priced(v) == reserves.total_shares > 0 =>
  /\ vaultShares[v] \in Nat
  /\ vaultShares[v] <= reserves.total_shares
  /\ reserves.total_shares \in Nat \ {0}
  /\ reserves.total_b_tokens \in Nat
  /\ poolRate \in Nat
  /\ Balance(v) = MulDivFloor(
       MulDivFloor(vaultShares[v], reserves.total_b_tokens, reserves.total_shares),
       poolRate, SCALAR_12)
  /\ Balance(v) \in Nat

LEMMA BalanceIsPriced ==
  ASSUME Books, NEW v \in Vaults
  PROVE  Priced(v)
<1> SUFFICES ASSUME reserves.total_shares > 0
             PROVE  Priced(v)
  BY DEF Priced
<1> DEFINE h  == vaultShares[v]
           ts == reserves.total_shares
           tb == reserves.total_b_tokens
<1>1. TypeOK /\ SharesConserved /\ Appraised(v)
  BY BalanceIsAppraised DEF Books
<1>2. /\ h \in Nat /\ h <= ts /\ ts \in Nat \ {0} /\ tb \in Nat /\ poolRate \in Nat
      /\ SCALAR_12 \in Nat \ {0}
  BY <1>1, HeldWithinTotal, UpdatedReservesFacts, BlendMathAssumption
<1>3. CASE h > 0
  BY <1>1, <1>2, <1>3 DEF Appraised, Priced
<1>4. CASE ~(h > 0)
  <2>1. h = 0 /\ Balance(v) = 0
    BY <1>2, <1>4 DEF Balance
  <2>2. MulDivFloor(0, tb, ts) = 0
    <3> HIDE DEF tb, ts
    <3>1. MulDivFloor(0, tb, ts) \in Nat /\ MulDivFloor(0, tb, ts) * ts <= 0 * tb
      BY <1>2, FloorBounds
    <3>2. MulDivFloor(0, tb, ts) * ts <= 0 * ts
      BY <1>2, <3>1
    <3> QED
      BY <1>2, <3>1, <3>2, CancelFactor
  <2>3. MulDivFloor(0, poolRate, SCALAR_12) = 0
    <3>1. /\ MulDivFloor(0, poolRate, SCALAR_12) \in Nat
          /\ MulDivFloor(0, poolRate, SCALAR_12) * SCALAR_12 <= 0 * poolRate
      BY <1>2, FloorBounds
    <3>2. MulDivFloor(0, poolRate, SCALAR_12) * SCALAR_12 <= 0 * SCALAR_12
      BY <1>2, <3>1
    <3> QED
      BY <1>2, <3>1, <3>2, CancelFactor
  <2> QED
    BY <1>2, <2>1, <2>2, <2>3 DEF Priced
<1> QED
  BY <1>3, <1>4

\* Two roundings down never add up to more than the whole: a balance, in units of the share
\* price's denominators, is at most the vault's part of the b_tokens.
LEMMA WorthWithinPart ==
  ASSUME NEW h \in Nat, NEW ts \in Nat \ {0}, NEW tb \in Nat, NEW r \in Nat
  PROVE  MulDivFloor(MulDivFloor(h, tb, ts), r, SCALAR_12) * (SCALAR_12 * ts) <= h * (tb * r)
<1> DEFINE S == SCALAR_12
           B == MulDivFloor(h, tb, ts)
           w == MulDivFloor(B, r, S)
<1>1. S \in Nat \ {0}
  BY BlendMathAssumption
<1>2. B \in Nat /\ B * ts <= h * tb
  BY FloorBounds
<1> HIDE DEF B
<1>3. w \in Nat /\ w * S <= B * r
  BY <1>1, <1>2, FloorBounds
<1> HIDE DEF S, w
<1>4. (w * S) * ts <= (B * r) * ts
  BY <1>1, <1>2, <1>3, ScaleFactor
<1>5. (B * ts) * r <= (h * tb) * r
  BY <1>2, ScaleFactor
<1>6. /\ w * (S * ts) = (w * S) * ts /\ (B * r) * ts = (B * ts) * r
      /\ h * (tb * r) = (h * tb) * r
  BY <1>1, <1>2, <1>3
<1>7. (w * S) * ts \in Int /\ (B * ts) * r \in Int /\ (h * tb) * r \in Int
  BY <1>1, <1>2, <1>3
<1>8. w * (S * ts) <= h * (tb * r)
  BY <1>4, <1>5, <1>6, <1>7
<1> QED
  BY <1>8 DEF w, B, S

\* The pool position is worth what balance() tells all the vaults together.
THEOREM BalancesAreCovered == Spec => []Solvent
<1>1. ASSUME Books
      PROVE  Solvent
  <2> DEFINE bal == [v \in Vaults |-> Balance(v)]
             ts  == reserves.total_shares
             tb  == reserves.total_b_tokens
             r   == poolRate
             S   == SCALAR_12
  <2>1. TypeOK /\ SharesConserved /\ BooksBacked
    BY <1>1 DEF Books
  <2>2. /\ ts \in Nat /\ tb \in Nat /\ r \in Nat /\ S \in Nat \ {0}
        /\ position \in Nat /\ tb <= position
        /\ vaultShares \in [Vaults -> Nat] /\ IsFiniteSet(Vaults)
    BY <2>1, UpdatedReservesFacts, BlendMathAssumption, BlendStrategyAssumption
       DEF TypeOK, BooksBacked
  <2>3. MulDivFloor(position, r, S) \in Nat
    BY <2>2, FloorBounds
  <2>4. CASE ts = 0
    <3>1. \A v \in Vaults : Balance(v) = 0
      BY <2>1, <2>4 DEF SharesConserved, Balance
    <3>2. bal = [v \in Vaults |-> 0]
      BY <3>1
    <3>3. SumFunction(bal) = 0
      BY <2>2, <3>2, SumOfZeros
    <3> QED
      BY <2>3, <3>3 DEF Solvent
  <2>5. CASE ts # 0
    <3>1. \A v \in Vaults : Priced(v)
      BY <1>1, BalanceIsPriced
    <3>2. bal \in [Vaults -> Nat]
      BY <2>2, <2>5, <3>1 DEF Priced
    <3>3. ASSUME NEW v \in Vaults
          PROVE  bal[v] * (S * ts) <= vaultShares[v] * (tb * r)
      <4> DEFINE h == vaultShares[v]
                 w == MulDivFloor(MulDivFloor(h, tb, ts), r, S)
      <4>1. h \in Nat /\ bal[v] = w
        BY <2>2, <2>5, <3>1 DEF Priced
      <4>2. w * (S * ts) <= h * (tb * r)
        <5> HIDE DEF h, ts, tb, r
        <5> QED
          BY <2>2, <2>5, <4>1, WorthWithinPart
      <4> HIDE DEF w, bal
      <4> QED
        BY <4>1, <4>2
    <3> HIDE DEF bal, ts, tb, r, S
    <3> DEFINE total == SumFunction(bal)
               held  == SumFunction(vaultShares)
    <3>4. S * ts \in Nat /\ tb * r \in Nat
      BY <2>2
    <3>5. total * (S * ts) <= held * (tb * r)
      BY <2>2, <3>2, <3>3, <3>4, SumScales
    <3>6. held \in Int /\ held <= ts
      BY <2>1, <2>2, <2>5, NaturalSum, BlendMathAssumption DEF SharesConserved, ts
    <3>7. total \in Nat
      BY <2>2, <3>2, NaturalSum
    <3> HIDE DEF total, held
    <3>8. held * (tb * r) <= ts * (tb * r)
      BY <2>2, <3>4, <3>6, ScaleFactor
    <3>9. (total * S) * ts <= (tb * r) * ts
      <4>1. total * (S * ts) = (total * S) * ts /\ ts * (tb * r) = (tb * r) * ts
        BY <2>2, <3>7
      <4>2. (total * S) * ts \in Int /\ held * (tb * r) \in Int /\ (tb * r) * ts \in Int
        BY <2>2, <3>6, <3>7
      <4> QED
        BY <3>5, <3>8, <4>1, <4>2
    <3>10. total * S \in Int /\ tb * r \in Int /\ position * r \in Int
      BY <2>2, <3>7
    <3>11. total * S <= tb * r
      BY <2>2, <2>5, <3>9, <3>10, CancelFactor
    <3>12. tb * r <= position * r
      BY <2>2, ScaleFactor
    <3>13. total * S <= position * r
      BY <3>10, <3>11, <3>12
    <3>14. total <= MulDivFloor(position, r, S)
      BY <2>2, <3>7, <3>13, FloorIsLargest
    <3> QED
      BY <3>14 DEF Solvent, total, bal, r, S
  <2> QED
    BY <2>4, <2>5
<1> QED
  BY <1>1, BooksHold, PTL

\* The others' part of the b_tokens does not shrink, so that a caller whose shares change with
\* the total, and d b_tokens with the books, owns at most d more; and if d is worth at most e,
\* its balance is at most e more.  (d and e are negative for a withdrawal.)
LEMMA WorthIsPaidFor ==
  ASSUME NEW ts \in Nat \ {0}, NEW tb \in Nat, NEW ts2 \in Nat \ {0}, NEW tb2 \in Nat,
         NEW h \in Nat, NEW h2 \in Nat, NEW r \in Nat, NEW d \in Int, NEW e \in Int,
         h <= ts, ts2 - h2 = ts - h, tb2 = tb + d, tb2 * ts >= tb * ts2, d * r <= e * SCALAR_12
  PROVE  MulDivFloor(MulDivFloor(h2, tb2, ts2), r, SCALAR_12)
           <= MulDivFloor(MulDivFloor(h, tb, ts), r, SCALAR_12) + e
<1> DEFINE S  == SCALAR_12
           B  == MulDivFloor(h, tb, ts)
           B2 == MulDivFloor(h2, tb2, ts2)
           w2 == MulDivFloor(B2, r, S)
           o  == ts - h
<1>1. /\ S \in Nat \ {0} /\ B \in Nat /\ B2 \in Nat /\ B2 * ts2 <= h2 * tb2
      /\ o \in Nat /\ h = ts - o /\ h2 = ts2 - o
  <2>1. S \in Nat \ {0} /\ B \in Nat
    BY FloorBounds, BlendMathAssumption
  <2>2. B2 \in Nat /\ B2 * ts2 <= h2 * tb2
    BY FloorBounds
  <2> HIDE DEF S, B, B2
  <2>3. o \in Nat /\ h = ts - o /\ h2 = ts2 - o
    OBVIOUS
  <2> QED
    BY <2>1, <2>2, <2>3
<1>2. B2 - d <= B
  <2> HIDE DEF B2, o
  <2>1. (B2 * ts2) * ts <= (h2 * tb2) * ts
    BY <1>1
  <2>2. (tb * ts2) * o <= (tb2 * ts) * o
    BY <1>1
  <2>3. (h2 * tb2) * ts = (tb2 * ts) * ts2 - (tb2 * ts) * o
    <3>1. (ts2 - o) * (tb2 * ts) = ts2 * (tb2 * ts) - o * (tb2 * ts)
      BY <1>1
    <3>2. (h2 * tb2) * ts = h2 * (tb2 * ts) /\ ts2 * (tb2 * ts) = (tb2 * ts) * ts2
          /\ o * (tb2 * ts) = (tb2 * ts) * o
      BY <1>1
    <3> QED
      BY <1>1, <3>1, <3>2
  <2>4. (B2 * ts2) * ts <= (tb2 * ts) * ts2 - (tb * ts2) * o
    <3>1. /\ (B2 * ts2) * ts \in Int /\ (h2 * tb2) * ts \in Int /\ (tb2 * ts) * ts2 \in Int
          /\ (tb2 * ts) * o \in Int /\ (tb * ts2) * o \in Int
      BY <1>1
    <3> QED
      BY <2>1, <2>2, <2>3, <3>1
  <2>5. (B2 * ts) * ts2 <= (tb2 * ts - tb * o) * ts2
    <3>1. (B2 * ts) * ts2 = (B2 * ts2) * ts
      BY <1>1
    <3>2. (tb2 * ts - tb * o) * ts2 = (tb2 * ts) * ts2 - (tb * o) * ts2
      BY <1>1
    <3>3. (tb * o) * ts2 = (tb * ts2) * o
      BY <1>1
    <3> QED
      BY <2>4, <3>1, <3>2, <3>3
  <2>6. B2 * ts <= tb2 * ts - tb * o
    <3>1. B2 * ts \in Int /\ tb2 * ts - tb * o \in Int
      BY <1>1
    <3> QED
      BY <2>5, <3>1, CancelFactor
  <2>7. (B2 - d) * ts <= h * tb
    <3>1. (B2 - d) * ts = B2 * ts - d * ts
      BY <1>1
    <3>2. tb2 * ts = tb * ts + d * ts
      OBVIOUS
    <3>3. (ts - o) * tb = ts * tb - o * tb /\ ts * tb = tb * ts /\ o * tb = tb * o
      BY <1>1
    <3>4. /\ B2 * ts \in Int /\ d * ts \in Int /\ tb * ts \in Int /\ tb * o \in Int
          /\ tb2 * ts \in Int
      BY <1>1
    <3> HIDE DEF B
    <3>5. h * tb = tb * ts - tb * o
      BY <1>1, <3>3
    <3> QED
      BY <2>6, <3>1, <3>2, <3>4, <3>5
  <2> QED
    BY <1>1, <2>7, FloorIsLargest
<1> HIDE DEF B, B2, o
<1>3. w2 \in Nat /\ w2 * S <= B2 * r
  BY <1>1, FloorBounds
<1> HIDE DEF w2, S
<1>4. (w2 - e) * S <= B * r
  <2>1. B2 * r <= (B + d) * r
    BY <1>1, <1>2, ScaleFactor
  <2>2. (B + d) * r = B * r + d * r /\ (w2 - e) * S = w2 * S - e * S
    BY <1>1, <1>3
  <2>3. /\ B2 * r \in Int /\ B * r \in Int /\ d * r \in Int /\ w2 * S \in Int /\ e * S \in Int
    BY <1>1, <1>3
  <2>4. d * r <= e * S
    BY DEF S
  <2> QED
    BY <1>3, <2>1, <2>2, <2>3, <2>4
<1>5. w2 - e <= MulDivFloor(B, r, S)
  BY <1>1, <1>3, <1>4, FloorIsLargest
<1>6. MulDivFloor(B, r, S) \in Nat
  BY <1>1, FloorBounds
<1> DEFINE w == MulDivFloor(B, r, S)
<1> HIDE DEF w
<1>7. w2 <= w + e
  BY <1>3, <1>5, <1>6 DEF w
<1> QED
  BY <1>7 DEF w, w2, B, B2, S

\* A call of v at a price and at an unchanged rate: v's shares and the total change by the same
\* number, the books by d b_tokens, and all wallets together by -e, with d worth at most e.
LEMMA CallAtPrice ==
  ASSUME Books, [Next]_vars, NEW v \in Vaults, reserves.total_shares > 0,
         vaultShares'[v] # vaultShares[v]
  PROVE  \E d, e \in Int :
           /\ reserves'.total_shares - vaultShares'[v] = reserves.total_shares - vaultShares[v]
           /\ reserves'.total_b_tokens = reserves.total_b_tokens + d
           /\ d * poolRate <= e * SCALAR_12
           /\ SumFunction(wallet') = SumFunction(wallet) - e
           /\ SumFunction(wallet) \in Nat
           /\ poolRate' = poolRate
<1> DEFINE ts == reserves.total_shares
           tb == reserves.total_b_tokens
<1>1. TypeOK /\ ts \in Nat /\ tb \in Nat /\ vaultShares \in [Vaults -> Nat]
      /\ wallet \in [Vaults -> Nat] /\ IsFiniteSet(Vaults) /\ poolRate \in Nat
      /\ SumFunction(wallet) \in Nat
  <2>1. TypeOK /\ vaultShares \in [Vaults -> Nat] /\ wallet \in [Vaults -> Nat]
    BY DEF Books, TypeOK
  <2> QED
    BY <2>1, UpdatedReservesFacts, BlendStrategyAssumption, NaturalSum
<1>2. ASSUME NEW u \in Vaults, NEW amount \in Amounts, DepositCall(u, amount)
      PROVE  \E d, e \in Int :
               /\ reserves'.total_shares - vaultShares'[v] = ts - vaultShares[v]
               /\ reserves'.total_b_tokens = tb + d
               /\ d * poolRate <= e * SCALAR_12
               /\ SumFunction(wallet') = SumFunction(wallet) - e
  <2>1. PICK b, m, k, c \in Nat :
          /\ c <= wallet[u]
          /\ IF ts = 0 THEN m = k + LOCKED_SHARES ELSE m = k /\ b * ts >= m * tb
          /\ reserves' = [total_shares |-> ts + m, total_b_tokens |-> tb + b, b_rate |-> poolRate]
          /\ vaultShares' = [vaultShares EXCEPT ![u] = @ + k]
          /\ wallet' = [wallet EXCEPT ![u] = @ - c]
          /\ b * poolRate <= c * SCALAR_12
    BY <1>2, DepositFacts
  <2>2. u = v /\ m = k
    BY <1>1, <2>1
  <2>3. vaultShares'[v] = vaultShares[v] + m /\ vaultShares[v] \in Nat
    BY <1>1, <2>1, <2>2
  <2>4. reserves'.total_shares = ts + m /\ reserves'.total_b_tokens = tb + b
    BY <2>1
  <2>5. SumFunction(wallet') = SumFunction(wallet) - c
    <3>1. /\ wallet[u] \in Nat /\ wallet'[u] = wallet[u] - c /\ wallet' \in [Vaults -> Nat]
          /\ \A x \in Vaults \ {u} : wallet'[x] = wallet[x]
      BY <1>1, <2>1
    <3>2. SumFunction(wallet') = SumFunction(wallet) + wallet'[u] - wallet[u]
      BY <1>1, <3>1, SumChanges
    <3> QED
      BY <1>1, <3>1, <3>2
  <2> WITNESS b \in Int, c \in Int
  <2>6. reserves'.total_shares - vaultShares'[v] = ts - vaultShares[v]
    BY <1>1, <2>3, <2>4
  <2> QED
    BY <2>1, <2>4, <2>5, <2>6
<1>3. ASSUME NEW u \in Vaults, NEW to \in Vaults, NEW amount \in Amounts,
             WithdrawCall(u, to, amount)
      PROVE  \E d, e \in Int :
               /\ reserves'.total_shares - vaultShares'[v] = ts - vaultShares[v]
               /\ reserves'.total_b_tokens = tb + d
               /\ d * poolRate <= e * SCALAR_12
               /\ SumFunction(wallet') = SumFunction(wallet) - e
  <2>1. PICK b, s, w \in Nat :
          /\ s <= vaultShares[u]
          /\ reserves' = [total_shares |-> ts - s, total_b_tokens |-> tb - b, b_rate |-> poolRate]
          /\ vaultShares' = [vaultShares EXCEPT ![u] = @ - s]
          /\ wallet' = [wallet EXCEPT ![to] = @ + w]
          /\ w * SCALAR_12 <= b * poolRate
    BY <1>3, WithdrawFacts
  <2>2. u = v
    BY <1>1, <2>1
  <2>3. vaultShares'[v] = vaultShares[v] - s /\ vaultShares[v] \in Nat
    BY <1>1, <2>1, <2>2
  <2>4. reserves'.total_shares = ts - s /\ reserves'.total_b_tokens = tb - b
    BY <2>1
  <2>5. SumFunction(wallet') = SumFunction(wallet) + w
    <3>1. /\ wallet[to] \in Nat /\ wallet'[to] = wallet[to] + w /\ wallet' \in [Vaults -> Nat]
          /\ \A x \in Vaults \ {to} : wallet'[x] = wallet[x]
      BY <1>1, <2>1
    <3>2. SumFunction(wallet') = SumFunction(wallet) + wallet'[to] - wallet[to]
      BY <1>1, <3>1, SumChanges
    <3> QED
      BY <1>1, <3>1, <3>2
  <2> DEFINE d == 0 - b
             e == 0 - w
  <2>6. d \in Int /\ e \in Int /\ tb - b = tb + d
        /\ SumFunction(wallet) + w = SumFunction(wallet) - e
    BY <1>1
  <2>7. d * poolRate <= e * SCALAR_12
    <3>1. d * poolRate = 0 - b * poolRate /\ e * SCALAR_12 = 0 - w * SCALAR_12
      BY <1>1, BlendMathAssumption
    <3>2. b * poolRate \in Int /\ w * SCALAR_12 \in Int
      BY <1>1, BlendMathAssumption
    <3> HIDE DEF d, e
    <3> QED
      BY <2>1, <3>1, <3>2
  <2>8. reserves'.total_shares - vaultShares'[v] = ts - vaultShares[v]
    BY <1>1, <2>3, <2>4
  <2>9. /\ reserves'.total_b_tokens = tb + d
        /\ SumFunction(wallet') = SumFunction(wallet) - e
    BY <2>4, <2>5, <2>6
  <2> HIDE DEF d, e
  <2> QED
    BY <2>6, <2>7, <2>8, <2>9
<1>4. ASSUME vaultShares' = vaultShares
      PROVE  FALSE
  BY <1>4
<1>5. ASSUME NEW k \in Keepers, Harvest(k)
      PROVE  FALSE
  BY <1>4, <1>5 DEF Harvest, HarvestBelowThreshold, HarvestAndReinvest
<1>6. ASSUME NEW k \in Keepers, SetKeeper(k)
      PROVE  FALSE
  BY <1>4, <1>6 DEF SetKeeper
<1>7. ASSUME PoolEvent
      PROVE  FALSE
  BY <1>4, <1>7 DEF PoolEvent, RateMoves, RewardsAccrue, BlndArrives
<1>8. ASSUME UNCHANGED vars
      PROVE  FALSE
  BY <1>4, <1>8 DEF vars
<1>9. ASSUME NEW u \in Vaults, Deposit(u) \/ Withdraw(u)
      PROVE  poolRate' = poolRate
  BY <1>9 DEF Deposit, DepositCall, Withdraw, WithdrawCall
<1>10. PICK u \in Vaults : Deposit(u) \/ Withdraw(u)
  BY <1>5, <1>6, <1>7, <1>8 DEF Next
<1>11. \E d, e \in Int :
         /\ reserves'.total_shares - vaultShares'[v] = ts - vaultShares[v]
         /\ reserves'.total_b_tokens = tb + d
         /\ d * poolRate <= e * SCALAR_12
         /\ SumFunction(wallet') = SumFunction(wallet) - e
  BY <1>2, <1>3, <1>10 DEF Deposit, Withdraw
<1> QED
  BY <1>1, <1>9, <1>10, <1>11

\* No vault gains by the roundings of its own call: what its balance gains was paid from the
\* wallets, what it is paid was in its balance.
THEOREM CallsDoNotEnrich == Spec => NoCallEnriches
<1> DEFINE Fair == \A v \in Vaults :
             /\ reserves.total_shares > 0
             /\ poolRate' = poolRate
             /\ vaultShares'[v] # vaultShares[v]
             => Balance(v)' + SumFunction(wallet') <= Balance(v) + SumFunction(wallet)
           AllPriced == \A v \in Vaults : Priced(v)
<1>1. Books => AllPriced
  BY BalanceIsPriced
<1>2. ASSUME AllPriced, AllPriced', Books, Books', [Next]_vars
      PROVE  Fair
  <2> SUFFICES ASSUME NEW v \in Vaults, reserves.total_shares > 0,
                      vaultShares'[v] # vaultShares[v]
               PROVE  Balance(v)' + SumFunction(wallet') <= Balance(v) + SumFunction(wallet)
    OBVIOUS
  <2> DEFINE h    == vaultShares[v]
             ts   == reserves.total_shares
             tb   == reserves.total_b_tokens
             h2   == vaultShares'[v]
             ts2  == reserves'.total_shares
             tb2  == reserves'.total_b_tokens
             bal  == Balance(v)
             bal2 == Balance(v)'
             all  == SumFunction(wallet)
             all2 == SumFunction(wallet')
  <2>1. /\ h \in Nat /\ h <= ts /\ ts \in Nat \ {0} /\ tb \in Nat /\ poolRate \in Nat
        /\ bal \in Nat
        /\ bal = MulDivFloor(MulDivFloor(h, tb, ts), poolRate, SCALAR_12)
    BY <1>2 DEF Priced
  <2>2. PICK d, e \in Int :
          /\ ts2 - h2 = ts - h /\ tb2 = tb + d /\ d * poolRate <= e * SCALAR_12
          /\ all2 = all - e /\ all \in Nat /\ poolRate' = poolRate
    BY <1>2, CallAtPrice
  <2>3. tb2 * ts >= tb * ts2
    BY <1>2, <2>1, StepIsFair
  <2>4. ts2 > 0
    <3>1. SharesConserved /\ SharesConserved' /\ TypeOK /\ TypeOK'
      BY <1>2 DEF Books
    <3>2. vaultShares \in [Vaults -> Nat] /\ vaultShares' \in [Vaults -> Nat] /\ ts2 \in Nat
      BY <3>1 DEF TypeOK, Reserves
    <3>3. CASE ts2 = 0
      <4>1. h2 = 0
        BY <3>1, <3>3 DEF SharesConserved
      <4>2. h + LOCKED_SHARES <= ts
        BY <2>1, <3>1, HeldWithinTotal
      <4> HIDE DEF h, h2, ts, ts2
      <4>3. FALSE
        BY <2>1, <2>2, <3>3, <4>1, <4>2, BlendMathAssumption
      <4> QED
        BY <4>3
    <3> QED
      BY <3>2, <3>3
  <2>5. /\ h2 \in Nat /\ ts2 \in Nat \ {0} /\ tb2 \in Nat /\ bal2 \in Nat
        /\ bal2 = MulDivFloor(MulDivFloor(h2, tb2, ts2), poolRate, SCALAR_12)
    BY <1>2, <2>2, <2>4 DEF Priced
  <2> HIDE DEF h, ts, tb, h2, ts2, tb2, bal, bal2, all, all2
  <2>6. bal2 <= bal + e
    BY <2>1, <2>2, <2>3, <2>5, WorthIsPaidFor
  <2>7. bal2 + all2 <= bal + all
    BY <2>1, <2>2, <2>5, <2>6
  <2> QED
    BY <2>7 DEF bal, bal2, all, all2
<1>3. AllPriced /\ AllPriced' /\ Books /\ Books' /\ [Next]_vars => [Fair]_vars
  BY <1>2
<1> QED
  BY <1>1, <1>3, BooksHold, PTL DEF Spec, NoCallEnriches

\* Where the rate never falls below par, the books equal the position: the charge of a deposit
\* mints the b_tokens booked and no more, the amount of a withdrawal burns all that are taken
\* off.  (Below par they may differ, see blend_losses.)
THEOREM BooksAreExact ==
  ASSUME \A r \in Rates : r >= SCALAR_12
  PROVE  Spec => []BooksExact
<1>1. Init => BooksExact
  BY DEF Init, BooksExact
<1>2. ASSUME Books, BooksExact, [Next]_vars
      PROVE  BooksExact'
  <2>1. /\ TypeOK /\ poolRate >= SCALAR_12
        /\ reserves.total_b_tokens \in Nat /\ position = reserves.total_b_tokens
    BY <1>2, UpdatedReservesFacts DEF Books, TypeOK, BooksExact
  <2>2. ASSUME NEW v \in Vaults, Deposit(v)
        PROVE  BooksExact'
    <3>1. PICK amount \in Amounts : DepositCall(v, amount)
      BY <2>2 DEF Deposit
    <3>2. PICK b, m \in Nat :
            /\ reserves' = [total_shares   |-> reserves.total_shares + m,
                            total_b_tokens |-> reserves.total_b_tokens + b,
                            b_rate         |-> poolRate]
            /\ poolRate >= SCALAR_12 => position' = position + b
      BY <1>2, <3>1, DepositFacts
    <3> QED
      BY <2>1, <3>2 DEF BooksExact
  <2>3. ASSUME NEW v \in Vaults, Withdraw(v)
        PROVE  BooksExact'
    <3>1. PICK to \in Vaults, amount \in Amounts : WithdrawCall(v, to, amount)
      BY <2>3 DEF Withdraw
    <3>2. PICK b, s \in Nat :
            /\ reserves' = [total_shares   |-> reserves.total_shares - s,
                            total_b_tokens |-> reserves.total_b_tokens - b,
                            b_rate         |-> poolRate]
            /\ poolRate >= SCALAR_12 => position' = position - b
      BY <1>2, <3>1, WithdrawFacts
    <3> QED
      BY <2>1, <3>2 DEF BooksExact
  <2>4. ASSUME NEW k \in Keepers, HarvestBelowThreshold(k)
        PROVE  BooksExact'
    BY <2>1, <2>4 DEF HarvestBelowThreshold, BooksExact
  <2>5. ASSUME NEW k \in Keepers, NEW out \in SwapOuts, HarvestAndReinvest(k, out)
        PROVE  BooksExact'
    <3>1. PICK b \in Nat :
            /\ reserves' = [total_shares   |-> reserves.total_shares,
                            total_b_tokens |-> reserves.total_b_tokens + b,
                            b_rate         |-> poolRate]
            /\ position' = position + b
      BY <2>1, <2>5, ReinvestFacts
    <3> QED
      BY <2>1, <3>1 DEF BooksExact
  <2>6. ASSUME NEW k \in Keepers, SetKeeper(k)
        PROVE  BooksExact'
    BY <2>1, <2>6 DEF SetKeeper, pool, BooksExact
  <2>7. CASE PoolEvent
    BY <2>1, <2>7 DEF PoolEvent, RateMoves, RewardsAccrue, BlndArrives, pool, BooksExact
  <2>8. CASE UNCHANGED vars
    BY <2>1, <2>8 DEF vars, pool, BooksExact
  <2> QED
    BY <1>2, <2>2, <2>3, <2>4, <2>5, <2>6, <2>7, <2>8 DEF Next, Harvest, SwapResults
<1>3. Books /\ BooksExact /\ [Next]_vars => BooksExact'
  BY <1>2
<1> QED
  BY <1>1, <1>3, BooksHold, PTL DEF Spec
=============================================================================
