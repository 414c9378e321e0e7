---------------------------- MODULE BlendStrategy ---------------------------
(***************************************************************************)
(* The strategy-blend contract: several vaults share one supply position   *)
(* in a Blend pool, a keeper reinvests the BLND the position earns.        *)
(*                                                                         *)
(* A contract call is one action.  Soroban runs the calls of a ledger one  *)
(* after another and undoes every effect of a call that returns an error   *)
(* or panics, in the contracts it called too, so a failing call is an      *)
(* action that is not enabled.  What the calls race on is the ORDER in     *)
(* which vaults, keeper and pool take their steps: between two calls of a  *)
(* vault the rate, the rewards and the other vaults may all have moved.    *)
(***************************************************************************)
EXTENDS BlendMath, FiniteSets, Functions

CONSTANTS
  Vaults,           \* the DeFindex vaults that deposit
  Keepers,          \* the addresses that may become keeper
  Amounts,          \* amounts a vault passes to deposit and withdraw
  Rates,            \* b_rates the pool moves through
  SwapOuts,         \* underlying the Soroswap router returns for the BLND
  MinOuts,          \* amount_out_min the keeper passes to harvest, 0 when it passes no data
  Rewards,          \* BLND amounts that accrue at, or are sent by, others
  RewardThreshold,  \* Config.reward_threshold
  SupplyCap,        \* b_tokens the pool accepts from the strategy
  Endowment,        \* underlying each vault starts with
  MaxPoolEvents     \* bound on the moves of the rate and of the rewards

ASSUME BlendStrategyAssumption ==
  /\ IsFiniteSet(Vaults) /\ Vaults # {}
  /\ Keepers # {}
  /\ Amounts \subseteq Nat
  /\ Rates \subseteq Nat \ {0} /\ Rates # {}
  /\ SwapOuts \subseteq Nat
  /\ MinOuts \subseteq Nat
  /\ Rewards \subseteq Nat
  /\ RewardThreshold \in Nat \ {0}   \* the constructor's check_positive_amount
  /\ SupplyCap \in Nat
  /\ Endowment \in Nat
  /\ MaxPoolEvents \in Nat

VARIABLES
  reserves,     \* storage: StrategyReserves
  vaultShares,  \* storage: DataKey::VaultPos(v) for every vault v
  keeper,       \* storage: DataKey::Keeper
  blnd,         \* BLND balance of the strategy
  poolRate,     \* the pool's current b_rate
  position,     \* b_tokens the pool holds for the strategy
  claimable,    \* BLND the pool owes the strategy
  wallet,       \* wallet[v]: underlying held by v
  poolEvents    \* moves of the rate and of the rewards so far

pool == <<poolRate, position, claimable>>
vars == <<reserves, vaultShares, keeper, blnd, pool, wallet, poolEvents>>

TypeOK ==
  /\ reserves \in Reserves
  /\ vaultShares \in [Vaults -> Nat]
  /\ keeper \in Keepers
  /\ blnd \in Nat
  /\ poolRate \in Rates
  /\ position \in Nat
  /\ claimable \in Nat
  /\ wallet \in [Vaults -> Nat]
  /\ poolEvents \in 0..MaxPoolEvents

Init ==
  /\ reserves = [total_shares |-> 0, total_b_tokens |-> 0, b_rate |-> 0]
  /\ vaultShares = [v \in Vaults |-> 0]
  /\ keeper \in Keepers
  /\ blnd = 0
  /\ poolRate \in Rates
  /\ position = 0
  /\ claimable = 0
  /\ wallet = [v \in Vaults |-> Endowment]
  /\ poolEvents = 0

-----------------------------------------------------------------------------
(* The pool, as blend_pool.rs uses it: it rounds against the strategy. *)

PoolMints(amount) == MulDivFloor(amount, SCALAR_12, poolRate)

PoolAccepts(bTokens) == position + bTokens <= SupplyCap

PoolBurns(amount) ==
  LET burnt == MulDivCeil(amount, SCALAR_12, poolRate)
  IN  IF burnt > position THEN position ELSE burnt

PoolPays(amount) ==
  IF MulDivCeil(amount, SCALAR_12, poolRate) > position
  THEN MulDivFloor(position, poolRate, SCALAR_12)
  ELSE amount

-----------------------------------------------------------------------------
(* The contract's calls. *)

\* blend_pool::supply: the pool takes amount of the strategy's underlying, or fails the call
Supply(amount) ==
  /\ PoolAccepts(PoolMints(amount))
  /\ position' = position + PoolMints(amount)

\* blend_pool::withdraw: the pool burns the strategy's b_tokens and pays the address to
PoolWithdraw(to, amount) ==
  /\ position' = position - PoolBurns(amount)
  /\ wallet' = [wallet EXCEPT ![to] = @ + PoolPays(amount)]

\* Mutant of the next definition: the rate stored by the last call is trusted.
CachedReserves ==
  IF reserves.b_rate = 0 THEN [reserves EXCEPT !.b_rate = poolRate] ELSE reserves

\* get_strategy_reserve_updated: stored reserves, priced at the pool's rate of now
UpdatedReserves == [reserves EXCEPT !.b_rate = poolRate]

DepositCall(v, amount) ==
  LET R       == UpdatedReserves
      charge  == DepositAmount(R, amount)
      bTokens == DepositBTokens(R, amount)
      booked  == ReservesAfterDeposit(R, bTokens)
  IN  /\ amount > 0
      /\ wallet[v] >= amount
      /\ DepositQuoteOk(R, amount)
      /\ charge <= amount                   \* the refund is a transfer of amount - charge
      /\ Supply(charge)
      /\ BookDepositOk(R, vaultShares[v], bTokens)
      /\ ToUnderlyingFits(booked, vaultShares[v] + CreditedShares(R, bTokens))
      /\ reserves' = booked
      /\ vaultShares' = [vaultShares EXCEPT ![v] = @ + CreditedShares(R, bTokens)]
      /\ wallet' = [wallet EXCEPT ![v] = @ - charge]
      /\ UNCHANGED <<keeper, blnd, poolRate, claimable, poolEvents>>

Deposit(v) == \E amount \in Amounts : DepositCall(v, amount)

\* from = v is debited, the pool pays the address to
WithdrawCall(v, to, amount) ==
  LET R       == UpdatedReserves
      bTokens == WithdrawBTokens(R, amount)
      booked  == ReservesAfterWithdraw(R, bTokens)
  IN  /\ amount > 0
      /\ WithdrawQuoteOk(R, amount)
      /\ PoolWithdraw(to, WithdrawAmount(R, amount))
      /\ BookWithdrawOk(R, vaultShares[v], bTokens)
      /\ ToUnderlyingFits(booked, vaultShares[v] - BurntShares(R, bTokens))
      /\ reserves' = booked
      /\ vaultShares' = [vaultShares EXCEPT ![v] = @ - BurntShares(R, bTokens)]
      /\ UNCHANGED <<keeper, blnd, poolRate, claimable, poolEvents>>

Withdraw(v) == \E to \in Vaults, amount \in Amounts : WithdrawCall(v, to, amount)

\* harvest computes the price of all shares for its event, and fails with it
PriceComputable(R) == R.total_shares > 0 => ToUnderlyingFits(R, R.total_shares)

\* harvest that leaves the claimed BLND with the strategy: not worth a swap yet
HarvestBelowThreshold(from) ==
  /\ from = keeper
  /\ blnd + claimable < RewardThreshold
  /\ PriceComputable(UpdatedReserves)
  /\ blnd' = blnd + claimable
  /\ claimable' = 0
  /\ UNCHANGED <<reserves, vaultShares, keeper, poolRate, position, wallet, poolEvents>>

\* Mutants of the next definition: harvest takes a supply that minted nothing, or compares the
\* threshold with what was minted.
HarvestNeedsThreshold(R, minted) == minted >= RewardThreshold /\ AddFits(R.total_b_tokens, minted)
HarvestBooksAnything(R, minted) == AddFits(R.total_b_tokens, minted)

\* reserves::harvest returns Ok
BookHarvestOk(R, minted) == minted > 0 /\ AddFits(R.total_b_tokens, minted)

\* internal_swap_exact_tokens_for_tokens returns: below the minimum, the router fails and with
\* it the harvest
SwapResults(amountOutMin) == {out \in SwapOuts : out >= amountOutMin}

\* harvest that swaps the whole BLND balance for out of the underlying and supplies it
HarvestAndReinvest(from, out) ==
  LET R      == UpdatedReserves
      minted == PoolMints(out)
      booked == [R EXCEPT !.total_b_tokens = @ + minted]
  IN  /\ from = keeper
      /\ blnd + claimable >= RewardThreshold
      /\ Supply(out)
      /\ BookHarvestOk(R, minted)
      /\ PriceComputable(booked)
      /\ reserves' = booked
      /\ blnd' = 0
      /\ claimable' = 0
      /\ UNCHANGED <<vaultShares, keeper, poolRate, wallet, poolEvents>>

Harvest(from) ==
  \/ HarvestBelowThreshold(from)
  \/ \E amountOutMin \in MinOuts :
       \E out \in SwapResults(amountOutMin) : HarvestAndReinvest(from, out)

\* set_keeper: authorised by the old keeper
SetKeeper(new) ==
  /\ keeper' = new
  /\ UNCHANGED <<reserves, vaultShares, blnd, pool, wallet, poolEvents>>

-----------------------------------------------------------------------------
(* What happens around the contract. *)

\* interest accrues, or the pool writes off bad debt
RateMoves ==
  /\ poolRate' \in Rates \ {poolRate}
  /\ UNCHANGED <<reserves, vaultShares, keeper, blnd, position, claimable, wallet>>

\* the backstop emits BLND to the pool's suppliers
RewardsAccrue ==
  /\ position > 0
  /\ \E r \in Rewards : claimable' = claimable + r
  /\ UNCHANGED <<reserves, vaultShares, keeper, blnd, poolRate, position, wallet>>

\* somebody tops up the strategy's BLND balance, which the next harvest swaps with the rest
BlndArrives ==
  /\ \E r \in Rewards : blnd' = blnd + r
  /\ UNCHANGED <<reserves, vaultShares, keeper, pool, wallet>>

PoolEvent ==
  /\ poolEvents < MaxPoolEvents
  /\ poolEvents' = poolEvents + 1
  /\ RateMoves \/ RewardsAccrue \/ BlndArrives

Next ==
  \/ \E v \in Vaults : Deposit(v) \/ Withdraw(v)
  \/ \E k \in Keepers : Harvest(k) \/ SetKeeper(k)
  \/ PoolEvent

Spec == Init /\ [][Next]_vars

-----------------------------------------------------------------------------
(* Properties. *)

\* balance(v)
Balance(v) == IF vaultShares[v] > 0 THEN SharesToUnderlying(UpdatedReserves, vaultShares[v]) ELSE 0

BalanceComputable(v) == vaultShares[v] > 0 => ToUnderlyingFits(UpdatedReserves, vaultShares[v])

\* reserves.rs keeps total_shares beside the per-vault entries and never recounts them.
\* However the calls of the vaults interleave, the total is what the vaults own plus the
\* shares locked by the first deposit, and no call strands or invents a share.
SharesConserved ==
  IF reserves.total_shares = 0 THEN \A v \in Vaults : vaultShares[v] = 0
  ELSE SumFunction(vaultShares) + LOCKED_SHARES = reserves.total_shares

\* total_b_tokens is the strategy's own estimate: deposit and withdraw never read back what the
\* pool minted or burnt.  Their roundings must always err so that the pool holds at least the
\* b_tokens booked, even at b_rates below par, or the last vault out cannot be paid.
BooksBacked == reserves.total_b_tokens <= position

\* At par or above the estimate is exact: no b_token is ever left unbooked, where it would
\* earn for nobody.
BooksExact == reserves.total_b_tokens = position

\* A share is never worth less than one b_token, the price of the first deposit.  Everything
\* else rests on it: it makes the shares burnt the shares quoted and a nonzero request payable.
PriceAtLeastOne == reserves.total_shares <= reserves.total_b_tokens

\* Every conversion rounds for the vaults that stay: no call of anyone (deposit, withdraw,
\* harvest) lowers the b_tokens behind a share.
SharePriceNeverFalls ==
  [][reserves.total_shares > 0 =>
       reserves'.total_b_tokens * reserves.total_shares >=
         reserves.total_b_tokens * reserves'.total_shares]_vars

\* At an unchanged b_rate no call of another vault, nor a harvest, lowers what balance() tells
\* a vault it owns.
OthersNotDiluted ==
  [][\A v \in Vaults :
       /\ poolRate' = poolRate
       /\ vaultShares'[v] = vaultShares[v]
       => Balance(v)' >= Balance(v)]_vars

\* What balance() reports can be withdrawn: every amount up to it is accepted, with no
\* arithmetic overflow on the way that balance() itself did not meet, and pays at least the
\* amount asked for and at most the balance.
BalanceWithdrawable ==
  \A v \in Vaults : BalanceComputable(v) =>
    \A amount \in 1..Balance(v) :
      LET R       == UpdatedReserves
          bTokens == WithdrawBTokens(R, amount)
      IN  /\ WithdrawQuoteOk(R, amount)
          /\ BookWithdrawOk(R, vaultShares[v], bTokens)
          /\ ToUnderlyingFits(ReservesAfterWithdraw(R, bTokens),
                              vaultShares[v] - BurntShares(R, bTokens))
          /\ WithdrawAmount(R, amount) \in amount..Balance(v)

\* deposit and withdraw are computed twice, first as a quote in underlying (utils.rs), then as
\* shares from the quoted b_tokens (reserves.rs).  The shares minted are all the amount can
\* buy, the charge is within the amount offered and no smaller one mints as many, and the
\* shares burnt are the shares quoted.
QuoteIsBooked ==
  LET R == UpdatedReserves
  IN  \A amount \in Amounts \ {0} :
        /\ DepositQuoteOk(R, amount) =>
             /\ DepositAmount(R, amount) <= amount
             /\ MintedShares(R, DepositBTokens(R, amount)) = AffordableShares(R, amount)
             /\ \A b \in 0..DepositBTokens(R, amount) - 1 :
                  MintedShares(R, b) < AffordableShares(R, amount)
        /\ WithdrawQuoteOk(R, amount) =>
             BurntShares(R, WithdrawBTokens(R, amount)) = RequestedShares(R, amount)

\* BLND leaves the strategy's balance only into booked b_tokens: a harvest moves claimed BLND
\* to the balance, or swaps the whole of it and raises total_b_tokens.  A supply too small to
\* mint a b_token must undo the swap.
RewardsNotLost ==
  [][blnd' + claimable' < blnd + claimable =>
       /\ blnd' + claimable' = 0
       /\ reserves'.total_b_tokens > reserves.total_b_tokens]_vars

\* At an unchanged b_rate a call is never worth making for its roundings: what a depositor's
\* balance() gains is at most what left the wallets, what a withdrawal pays is at most what
\* the balance loses.  (The very first deposit does gain what was harvested before it, from
\* BLND sent to the strategy: it is nobody's.)
NoCallEnriches ==
  [][\A v \in Vaults :
       /\ reserves.total_shares > 0
       /\ poolRate' = poolRate
       /\ vaultShares'[v] # vaultShares[v]
       => Balance(v)' + SumFunction(wallet') <= Balance(v) + SumFunction(wallet)]_vars

\* What balance() tells all the vaults together is there: the pool position is worth it.
Solvent ==
  SumFunction([v \in Vaults |-> Balance(v)]) <= MulDivFloor(position, poolRate, SCALAR_12)

FairShares == INSTANCE ShareLedger WITH
  Holders <- Vaults, claims <- vaultShares,
  issued <- reserves.total_shares, assets <- reserves.total_b_tokens

\* Every call is a step of the share ledger: deposits pay at least the share price, withdrawals
\* take at most the share price, a harvest only adds assets.
ImplementsShareLedger == FairShares!Spec

-----------------------------------------------------------------------------
(* Liveness.  The contract does nothing by itself: what happens at all is  *)
(* what its clients keep trying.                                           *)

\* v withdraws what balance() tells it it has
Exit(v) == Balance(v) \in Amounts /\ WithdrawCall(v, v, Balance(v))

\* A vault that wants to leave keeps asking for its balance, and whoever is keeper keeps
\* harvesting, at least as often as the pool lets it.  Deposits, the pool and the choice of
\* the keeper are free.
Fairness ==
  /\ \A v \in Vaults : WF_vars(Exit(v))
  /\ \A k \in Keepers : SF_vars(Harvest(k))

FairSpec == Spec /\ Fairness

\* No sequence of deposits, harvests and rate moves keeps a vault in: asking for the balance,
\* whatever it is by then, ends with a balance of 0.
VaultGetsOut == \A v \in Vaults : Balance(v) > 0 ~> Balance(v) = 0

\* Rewards worth a harvest are harvested: neither the supply cap, nor a swap that returned too
\* little, nor a change of keeper blocks them for ever.
RewardsReinvested ==
  blnd + claimable >= RewardThreshold ~> blnd + claimable < RewardThreshold
=============================================================================
