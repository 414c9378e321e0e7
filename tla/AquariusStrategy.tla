-------------------------- MODULE AquariusStrategy --------------------------
(***************************************************************************)
(* The strategy-aquarius contract: vaults deposit one token, the strategy  *)
(* swaps half of it for the pair token, provides both to an Aquarius pool  *)
(* and attributes the pool's shares to the vaults.  The pool pays AQUA     *)
(* rewards to the strategy, which harvest forwards.                        *)
(*                                                                         *)
(* The pool is called directly, with no router between: its tokens have an *)
(* order of its own, the amounts of a call are vectors in that order, and  *)
(* a deposit takes all it is offered and refunds what it does not need.    *)
(* The contract does not check that a vault transferred what it deposits:  *)
(* a deposit for any vault may use whatever deposit_token the strategy     *)
(* holds, refunds included.  A call is one action, and one that fails      *)
(* changes nothing.  Reserves are token balances far below i128::MAX, so   *)
(* that the casts between i128 and u128 lose nothing; products may         *)
(* overflow.                                                               *)
(***************************************************************************)
EXTENDS ConstantProduct, FiniteSets, Functions

CONSTANTS
  Vaults,         \* the DeFindex vaults that share the strategy
  Accounts,       \* every address that can sign a call; the contract's own cannot
  Strategy,       \* env.current_contract_address()
  Amounts,        \* amounts a vault transfers, deposits and withdraws
  Trades,         \* amounts other traders swap, in either direction
  Rewards,        \* AQUA that accrues to the strategy at a time
  Slippages,      \* values of max_slippage_bps asked for
  ReserveDeposit, \* the pool's reserves and shares before the first deposit,
  ReservePair,    \*   all owned by other providers
  OtherShares,
  Endowment,      \* deposit_token each vault starts with
  MaxPoolEvents   \* bound on the number of other traders' swaps and of accruals

Idx == 0..1
Tokens == {"deposit", "pair"}
BPS == 10000
MAX_SLIPPAGE_BPS == 1000
MaxU128 == 2 * MaxI128 + 1

ASSUME AquariusStrategyAssumption ==
  /\ IsFiniteSet(Vaults)
  /\ Vaults \subseteq Accounts /\ Strategy \notin Accounts
  /\ Amounts \subseteq Nat /\ Trades \subseteq Nat /\ Rewards \subseteq Nat
  /\ Slippages \subseteq Nat
  /\ ReserveDeposit \in Nat \ {0} /\ ReservePair \in Nat \ {0} /\ OtherShares \in Nat \ {0}
  /\ Endowment \in Nat
  /\ MaxPoolEvents \in Nat

VARIABLES
  config,         \* storage: StorageKey::Config, the fields that matter to the calls
  shares,         \* storage: StorageKey::ShareTokens(v) for every vault v
  heldDeposit,    \* deposit_token held by the strategy
  heldPair,       \* pair_token held by the strategy
  wallet,         \* wallet[v]: deposit_token held by v
  aqua,           \* aqua[v]: AQUA held by v
  reserves,       \* the pool's reserves, by its own token index, ...
  totalShares,    \* ... the shares it has minted, ...
  strategyShares, \* ... those the strategy holds ...
  claimable,      \* ... and the AQUA it would pay the strategy
  poolEvents      \* swaps of other traders and accruals so far

market == <<reserves, totalShares, strategyShares>>
books == <<shares, heldDeposit, heldPair, wallet>>
vars == <<config, books, aqua, market, claimable, poolEvents>>

Configs == [depositIdx: Idx, pairIdx: Idx, maxSlippage: 0..MAX_SLIPPAGE_BPS,
            admin: Accounts \cup {Strategy}]

TypeOK ==
  /\ config \in Configs /\ config.depositIdx # config.pairIdx
  /\ shares \in [Vaults -> Nat]
  /\ heldDeposit \in Nat
  /\ heldPair \in Nat
  /\ wallet \in [Vaults -> Nat]
  /\ aqua \in [Vaults -> Nat]
  /\ reserves \in [Idx -> Nat \ {0}]
  /\ totalShares \in Nat \ {0}
  /\ strategyShares \in 0..totalShares - 1
  /\ claimable \in Nat
  /\ poolEvents \in 0..MaxPoolEvents

\* resolve_indices: the last match wins; without one the constructor fails
IndexOf(tokens, token) ==
  CHOOSE i \in Idx : tokens[i] = token /\ \A j \in Idx : tokens[j] = token => j <= i

\* what the constructor saves for a pool that lists its tokens in this order
NewConfig(tokens, slippage) ==
  [depositIdx |-> IndexOf(tokens, "deposit"), pairIdx |-> IndexOf(tokens, "pair"),
   maxSlippage |-> slippage, admin |-> Strategy]

Init ==
  /\ \E tokens \in [Idx -> Tokens], slippage \in Slippages :
       /\ \A token \in Tokens : \E i \in Idx : tokens[i] = token
       /\ slippage <= MAX_SLIPPAGE_BPS
       /\ config = NewConfig(tokens, slippage)
  /\ shares = [v \in Vaults |-> 0]
  /\ heldDeposit = 0
  /\ heldPair = 0
  /\ wallet = [v \in Vaults |-> Endowment]
  /\ aqua = [v \in Vaults |-> 0]
  /\ reserves = [i \in Idx |-> IF i = config.depositIdx THEN ReserveDeposit ELSE ReservePair]
  /\ totalShares = OtherShares
  /\ strategyShares = 0
  /\ claimable = 0
  /\ poolEvents = 0

ReserveOfDeposit == reserves[config.depositIdx]
ReserveOfPair == reserves[config.pairIdx]

\* Mutant of the next definition: the deposit token is taken to be the pool's first.
DepositTokenFirst(deposit, pair) == [i \in Idx |-> IF i = 0 THEN deposit ELSE pair]

\* a vector of two amounts, in the order of the pool's tokens
InPoolOrder(deposit, pair) == [i \in Idx |-> IF i = config.depositIdx THEN deposit ELSE pair]

\* Mutant of the next definition: rounded up, so that parts are worth more than the whole.
OrZeroRoundedUp(limit, x, y, z) == IF x * y <= limit THEN MulDivCeil(x, y, z) ELSE 0

\* checked_mul up to a limit, unwrap_or(0), checked_div: an overflow reads as 0
OrZero(limit, x, y, z) == IF x * y <= limit THEN MulDivFloor(x, y, z) ELSE 0

\* min_with_slippage
MinWithSlippage(expected) == OrZero(MaxU128, expected, BPS - config.maxSlippage, BPS)

-----------------------------------------------------------------------------
(* The valuation. *)

\* Mutant of the next definition: the pair side is not valued.
ValueOfDepositSide(lp) == OrZero(MaxU128, ReserveOfDeposit, lp, totalShares)

SharesValueInDeposit(lp) ==
  OrZero(MaxU128, ReserveOfDeposit, lp, totalShares) +
    OrZero(MaxU128, OrZero(MaxU128, ReserveOfPair, lp, totalShares), ReserveOfDeposit, ReserveOfPair)

Balance(v) == SharesValueInDeposit(shares[v])

-----------------------------------------------------------------------------
(* deposit: swap half, then add liquidity at the ratio the swap has left. *)

SwapAmount(amount) == amount \div 2

Remaining(amount) == amount - SwapAmount(amount)

\* estimate_swap and swap read the same reserves
PairReceived(amount) == SwapOut(SwapAmount(amount), ReserveOfDeposit, ReserveOfPair)

AfterSwap(amount) ==
  [reserves EXCEPT ![config.depositIdx] = @ + SwapAmount(amount),
                   ![config.pairIdx] = @ - PairReceived(amount)]

PairOptimal(amount) ==
  OrZero(MaxI128, Remaining(amount), AfterSwap(amount)[config.pairIdx],
         AfterSwap(amount)[config.depositIdx])
PairToAdd(amount) ==
  IF PairOptimal(amount) <= PairReceived(amount) THEN PairOptimal(amount) ELSE PairReceived(amount)

Desired(amount) == InPoolOrder(Remaining(amount), PairToAdd(amount))

\* what the pool keeps of the desired amounts; the rest of them it refunds
Kept(amount) ==
  LET pulled == Pulled(Desired(amount)[0], Desired(amount)[1],
                       AfterSwap(amount)[0], AfterSwap(amount)[1])
  IN  [i \in Idx |-> pulled[i + 1]]

PoolMints(amount) ==
  Liquidity(Kept(amount)[0], Kept(amount)[1], AfterSwap(amount)[0], AfterSwap(amount)[1], totalShares)

\* Mutant of the next definition: the vault is attributed the strategy's whole balance of shares.
AllShares(amount) == strategyShares + PoolMints(amount)

\* shares_after - shares_before
SharesMinted(amount) == PoolMints(amount)

\* The pool gives no less than the minimums, and takes from the strategy what it has authorised.
DepositAccepted(amount) ==
  /\ PairReceived(amount) >= MinWithSlippage(PairReceived(amount))
  /\ PoolMints(amount) >= MinWithSlippage(PoolMints(amount))
  /\ Desired(amount)[config.depositIdx] = Remaining(amount)
  /\ Desired(amount)[config.pairIdx] = PairToAdd(amount)

\* deposit(amount, v); the amount comes out of what the strategy holds, whoever sent it
DepositCall(v, amount) ==
  /\ amount > 0
  /\ amount <= heldDeposit
  /\ DepositAccepted(amount)
  /\ AddFits(shares[v], SharesMinted(amount))
  /\ shares' = [shares EXCEPT ![v] = @ + SharesMinted(amount)]
  /\ heldDeposit' = heldDeposit - SwapAmount(amount) - Kept(amount)[config.depositIdx]
  /\ heldPair' = heldPair + PairReceived(amount) - Kept(amount)[config.pairIdx]
  /\ reserves' = [i \in Idx |-> AfterSwap(amount)[i] + Kept(amount)[i]]
  /\ totalShares' = totalShares + PoolMints(amount)
  /\ strategyShares' = strategyShares + PoolMints(amount)
  /\ UNCHANGED <<config, wallet, aqua, claimable, poolEvents>>

Deposit(v) == \E amount \in Amounts : DepositCall(v, amount)

-----------------------------------------------------------------------------
(* withdraw: burn in proportion to the value, swap the pair token back. *)

\* Mutant of the next definition: asking for more than the value burns more than the vault has.
SharesToBurnUncapped(v, amount) == MulDivFloor(shares[v], amount, Balance(v))

SharesToBurn(v, amount) ==
  IF amount >= Balance(v) THEN shares[v] ELSE MulDivFloor(shares[v], amount, Balance(v))

\* min_amounts: what the burn should redeem, less the slippage
MinAmounts(lp) ==
  InPoolOrder(MinWithSlippage(OrZero(MaxU128, ReserveOfDeposit, lp, totalShares)),
              MinWithSlippage(OrZero(MaxU128, ReserveOfPair, lp, totalShares)))

AmountsOut(lp) == [i \in Idx |-> Redeemed(lp, reserves[i], totalShares)]
DepositOut(lp) == AmountsOut(lp)[config.depositIdx]
PairOut(lp) == AmountsOut(lp)[config.pairIdx]

\* what the pool pays for the redeemed pair_token, at the reserves the redemption has left
Swapped(lp) == SwapOut(PairOut(lp), ReserveOfPair - PairOut(lp), ReserveOfDeposit - DepositOut(lp))

\* Mutant of the next definition: what the swap returned is not forwarded.
TotalDepositWithoutSwap(lp) == DepositOut(lp)

TotalDeposit(lp) == DepositOut(lp) + IF PairOut(lp) > 0 THEN Swapped(lp) ELSE 0

\* the minimums of remove_liquidity and of the swap back
WithdrawAccepted(lp) ==
  /\ \A i \in Idx : AmountsOut(lp)[i] >= MinAmounts(lp)[i]
  /\ PairOut(lp) > 0 => Swapped(lp) >= MinWithSlippage(Swapped(lp))

WithdrawOk(v, amount) ==
  /\ amount > 0
  /\ shares[v] # 0
  /\ Balance(v) # 0
  /\ amount < Balance(v) => shares[v] * amount <= MaxI128
  /\ SharesToBurn(v, amount) # 0
  /\ SharesToBurn(v, amount) <= strategyShares

\* withdraw(amount, v, to)
WithdrawCall(v, to, amount) ==
  LET lp == SharesToBurn(v, amount)
      paidBack == DepositOut(lp) + Swapped(lp)
  IN  /\ WithdrawOk(v, amount)
      /\ WithdrawAccepted(lp)
      /\ shares' = [shares EXCEPT ![v] = @ - lp]
      /\ heldDeposit' = heldDeposit + paidBack - TotalDeposit(lp)
      /\ wallet' = [wallet EXCEPT ![to] = @ + TotalDeposit(lp)]
      /\ reserves' = [reserves EXCEPT ![config.depositIdx] = @ - paidBack]
      /\ totalShares' = totalShares - lp
      /\ strategyShares' = strategyShares - lp
      /\ UNCHANGED <<config, heldPair, aqua, claimable, poolEvents>>

Withdraw(v) == \E to \in Vaults, amount \in Amounts : WithdrawCall(v, to, amount)

-----------------------------------------------------------------------------
(* harvest and the admin's calls. *)

\* claim: what has accrued to all the shares the strategy holds, whoever they are attributed to
AquaHarvested == claimable

\* harvest(v): the AQUA goes to the vault named in the call; the price per share is only
\* reported in the event
Harvest(v) ==
  /\ aqua' = [aqua EXCEPT ![v] = @ + AquaHarvested]
  /\ claimable' = 0
  /\ UNCHANGED <<config, books, market, poolEvents>>

\* admin.require_auth() and the comparison with config.admin, for a call that caller signs
AuthorisedAdmin(caller) == caller \in Accounts /\ caller = config.admin

\* update_slippage(caller, slippage)
UpdateSlippage(caller, slippage) ==
  /\ AuthorisedAdmin(caller)
  /\ slippage <= MAX_SLIPPAGE_BPS
  /\ config' = [config EXCEPT !.maxSlippage = slippage]
  /\ UNCHANGED <<books, aqua, market, claimable, poolEvents>>

\* sweep(caller, token, to, amount)
Sweep(caller, token, to, amount) ==
  /\ AuthorisedAdmin(caller)
  /\ \/ /\ token = "pair" /\ amount <= heldPair
        /\ heldPair' = heldPair - amount
        /\ UNCHANGED <<heldDeposit, wallet>>
     \/ /\ token = "deposit" /\ amount <= heldDeposit
        /\ heldDeposit' = heldDeposit - amount
        /\ wallet' = [wallet EXCEPT ![to] = @ + amount]
        /\ UNCHANGED heldPair
  /\ UNCHANGED <<config, shares, aqua, market, claimable, poolEvents>>

-----------------------------------------------------------------------------
(* Around the contract. *)

\* deposit_token.transfer(vault, strategy, amount), the pre-condition of deposit
Transfer(v) ==
  \E amount \in Amounts \ {0} :
    /\ amount <= wallet[v]
    /\ wallet' = [wallet EXCEPT ![v] = @ - amount]
    /\ heldDeposit' = heldDeposit + amount
    /\ UNCHANGED <<config, shares, heldPair, aqua, market, claimable, poolEvents>>

\* somebody else swaps amount of the token with index i
Trade(i, amount) ==
  LET out == SwapOut(amount, reserves[i], reserves[1 - i])
  IN  /\ out > 0
      /\ reserves' = [reserves EXCEPT ![i] = @ + amount, ![1 - i] = @ - out]
      /\ UNCHANGED <<config, books, aqua, totalShares, strategyShares, claimable>>

\* the pool emits AQUA to those who hold its shares
RewardsAccrue(amount) ==
  /\ strategyShares > 0
  /\ claimable' = claimable + amount
  /\ UNCHANGED <<config, books, aqua, market>>

PoolEvent ==
  /\ poolEvents < MaxPoolEvents
  /\ poolEvents' = poolEvents + 1
  /\ \/ \E i \in Idx, amount \in Trades : Trade(i, amount)
     \/ \E amount \in Rewards : RewardsAccrue(amount)

Next ==
  \/ \E v \in Vaults : Transfer(v) \/ Deposit(v) \/ Withdraw(v) \/ Harvest(v)
  \/ PoolEvent

Spec == Init /\ [][Next]_vars

\* The calls of the admin, besides: none of them is ever enabled (AdminCanSweep).
AdminNext ==
  \E caller \in Accounts :
    \/ \E slippage \in Slippages : UpdateSlippage(caller, slippage)
    \/ \E token \in Tokens, to \in Vaults, amount \in Amounts : Sweep(caller, token, to, amount)

SpecWithAdmin == Init /\ [][Next \/ AdminNext]_vars

-----------------------------------------------------------------------------
(* Properties. *)

\* The shares attributed to the vaults are the shares the strategy holds: deposits attribute
\* what they minted, never what was there before, and a withdrawal burns its own.
AttributionExact == SumFunction(shares) = strategyShares

\* The strategy's shares, valued as one holding.
PositionInDeposit ==
  MulDivFloor(ReserveOfDeposit, strategyShares, totalShares)
    + MulDivFloor(MulDivFloor(ReserveOfPair, strategyShares, totalShares),
                  ReserveOfDeposit, ReserveOfPair)

\* What balance() tells all the vaults together is within the valuation of the shares the
\* strategy holds, wherever deposits, withdrawals and other traders have moved the pool.
Solvent == SumFunction([v \in Vaults |-> Balance(v)]) <= PositionInDeposit

\* No product of the valuation of v's shares overflows.
ValuationFits(v) ==
  /\ ReserveOfDeposit * shares[v] <= MaxU128
  /\ ReserveOfPair * shares[v] <= MaxU128
  /\ MulDivFloor(ReserveOfPair, shares[v], totalShares) * ReserveOfDeposit <= MaxU128

\* What swapping back the pair_token that lp shares redeem costs, at the price of before: the
\* fee and the unit of pair_token that redeeming rounds off, and the impact on the price.
SwapCost(lp) ==
  MulDivCeil(PairOut(lp) - AfterFee(PairOut(lp)) + 1, ReserveOfDeposit, ReserveOfPair)
    + MulDivCeil(PairOut(lp), DepositOut(lp), ReserveOfPair)

\* A withdrawal pays what was asked, or the balance if that is less, but for the cost of the swap
\* back, the worth of the share the burn rounds off, and a unit.  A vault that asks for less than
\* its balance is not paid more either, but for the unit that its balance is rounded down by;
\* one that asks for its balance or more gives up all of its shares.  Where the valuation has
\* overflowed, the balance is less than the shares are worth and the burn for a part of it
\* larger: the vault is then paid more than it asked, never less.
PaidAsAsked ==
  \A v \in Vaults, amount \in Amounts :
    WithdrawOk(v, amount) =>
      LET lp   == SharesToBurn(v, amount)
          paid == TotalDeposit(lp)
      IN  IF amount < Balance(v)
          THEN /\ amount <= paid + SwapCost(lp) + MulDivCeil(2, ReserveOfDeposit, totalShares) + 1
               /\ ValuationFits(v) => paid <= amount + 1
          ELSE /\ lp = shares[v]
               /\ Balance(v) <= paid + SwapCost(lp) + 1

\* What a deposit is credited is worth, at the reserves it leaves behind, at most what the vault
\* put in (the odd unit is on the side that is not swapped): swap, fee and refunds are paid by
\* the depositor, never by the vaults that are there.
DepositNotOvervalued ==
  \A amount \in Amounts \ {0} :
    DepositAccepted(amount) =>
      LET after == [i \in Idx |-> AfterSwap(amount)[i] + Kept(amount)[i]]
          lp    == totalShares + PoolMints(amount)
          part  == [i \in Idx |-> MulDivFloor(SharesMinted(amount), after[i], lp)]
      IN  part[config.depositIdx]
            + MulDivFloor(part[config.pairIdx], after[config.depositIdx], after[config.pairIdx])
          <= 2 * Remaining(amount)

\* A withdrawal leaves nothing behind: the redeemed half and what the other half was swapped for
\* both go to the vault.
WithdrawLeavesNothing ==
  [][totalShares' < totalShares => heldDeposit' = heldDeposit /\ heldPair' = heldPair]_vars

\* Estimates and execution see the same pool and vectors come in the pool's order, so that no
\* minimum and no authorisation ever refuses a call, whatever the slippage, whichever of the
\* two tokens is the pool's first and wherever other traders have moved it: a vault can leave.
NeverRefused ==
  /\ \A v \in Vaults, amount \in Amounts :
       WithdrawOk(v, amount) => WithdrawAccepted(SharesToBurn(v, amount))
  /\ \A amount \in Amounts : DepositAccepted(amount)

FairShares == INSTANCE ShareLedger WITH
  Holders <- Vaults, claims <- shares, issued <- SumFunction(shares), assets <- strategyShares

\* The attribution is a share ledger whose claims are the pool's shares themselves.
ImplementsShareLedger == FairShares!Spec

\* storage.rs: "Admin address — can update slippage and sweep stuck tokens."  What is left of
\* the pair token after a deposit, which no other call spends, can be swept by somebody.
AdminCanSweep == heldPair > 0 => \E caller \in Accounts : AuthorisedAdmin(caller)

\* storage.rs: "Maximum acceptable slippage in basis points": a deposit into a pool that other
\* traders have moved is accepted only when the half it swaps buys what the pool quoted before
\* they did, less at most the slippage.
SlippageBounded ==
  \A amount \in Amounts :
    amount \in 1..heldDeposit /\ totalShares = OtherShares /\ DepositAccepted(amount) =>
      PairReceived(amount) >=
        MinWithSlippage(SwapOut(SwapAmount(amount), ReserveDeposit, ReservePair))
=============================================================================
