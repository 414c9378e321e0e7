---------------------------- MODULE NekoStrategy ----------------------------
(***************************************************************************)
(* The strategy-neko contract: the strategy is one lender in an            *)
(* rwa-lending pool, and attributes the pool's b_tokens to the vaults.     *)
(*                                                                         *)
(* Depositing takes two calls of the vault, a transfer of the amount to    *)
(* the strategy and then deposit: between them the strategy holds tokens   *)
(* of several vaults in one balance, and other calls, accruals, a refused  *)
(* deposit and its retry come in any order.  The transfer is what          *)
(* contract.rs documents as the pre-condition of deposit; nothing in the   *)
(* contract checks it, and the balance does not say whose transfer it is:  *)
(* a deposit for any vault may use whatever the strategy holds.  A call is *)
(* one action; one that fails changes nothing.                             *)
(*                                                                         *)
(* The contract reads the pool's rate and then calls the pool, which may   *)
(* accrue interest first: the rate a deposit or a withdrawal is executed   *)
(* at is not always the rate the contract computed with.  harvest changes  *)
(* no state and balance neither, so they are no actions.                   *)
(***************************************************************************)
EXTENDS FixedPoint, FiniteSets, Functions

CONSTANTS
  SCALAR_12,   \* fixed-point scale of the pool's b_rate
  Vaults,      \* the DeFindex vaults that share the strategy
  Amounts,     \* amounts a vault transfers, deposits and withdraws
  Rates,       \* b_rates the pool moves through: "grows as interest accrues"
  PoolCash,    \* underlying other lenders left in the pool, to pay interest from
  Endowment    \* underlying each vault starts with

ASSUME NekoStrategyAssumption ==
  /\ SCALAR_12 \in Nat \ {0}
  /\ IsFiniteSet(Vaults)
  /\ Amounts \subseteq Nat
  /\ Rates \subseteq Nat \ {0}
  /\ PoolCash \in Nat
  /\ Endowment \in Nat

VARIABLES
  bTokens,    \* storage: StorageKey::BTokens(v) for every vault v
  held,       \* underlying held by the strategy contract
  wallet,     \* wallet[v]: underlying held by v
  poolRate,   \* the b_rate get_b_token_rate returns
  position,   \* b_tokens the pool holds for the strategy
  poolCash    \* underlying the pool can pay out

vars == <<bTokens, held, wallet, poolRate, position, poolCash>>

TypeOK ==
  /\ bTokens \in [Vaults -> Nat]
  /\ held \in Nat
  /\ wallet \in [Vaults -> Nat]
  /\ poolRate \in Rates
  /\ position \in Nat
  /\ poolCash \in Nat

Init ==
  /\ bTokens = [v \in Vaults |-> 0]
  /\ held = 0
  /\ wallet = [v \in Vaults |-> Endowment]
  /\ poolRate \in Rates
  /\ position = 0
  /\ poolCash = PoolCash

-----------------------------------------------------------------------------
(* Conversions of contract.rs. *)

Underlying(bTok, rate) == MulDivFloor(bTok, rate, SCALAR_12)

\* underlying_balance: an overflowing product reads as 0, it is not an error
Balance(v) ==
  IF bTokens[v] * poolRate <= MaxI128 THEN Underlying(bTokens[v], poolRate) ELSE 0

\* Mutant of the next definition: rounded down, against "round up to avoid dust".
BTokensForDown(amount, rate) == MulDivFloor(amount, SCALAR_12, rate)

BTokensFor(amount, rate) == MulDivCeil(amount, SCALAR_12, rate)

\* Mutant of the next definition: what the vault asks for is burnt, whoever owns it.
BurnUncapped(v, amount) == BTokensFor(amount, poolRate)

\* b_actual: capped at what this vault has
BTokensToBurn(v, amount) ==
  IF BTokensFor(amount, poolRate) <= bTokens[v] THEN BTokensFor(amount, poolRate)
  ELSE bTokens[v]

\* withdraw's checked arithmetic returns Some, and there is something to burn
WithdrawComputable(v, amount) ==
  /\ amount > 0
  /\ poolRate # 0
  /\ AddFits(amount * SCALAR_12, poolRate - 1)
  /\ BTokensFor(amount, poolRate) # 0
  /\ bTokens[v] # 0
  /\ BTokensToBurn(v, amount) * poolRate <= MaxI128

\* Mutant of the next definition: the vault is sent what was computed before the call.
QuotedPayment(bTok, executed) == Underlying(bTok, poolRate)

\* actual_withdrawn: what the pool paid, forwarded to the vault
Payment(bTok, executed) == Underlying(bTok, executed)

-----------------------------------------------------------------------------
(* The rwa-lending pool, as the contract uses it. *)

\* The rates the pool may execute a call at, having accrued interest first.
Accruals == {r \in Rates : r >= poolRate}

PoolMints(amount, rate) == MulDivFloor(amount, SCALAR_12, rate)

\* Mutant of the next definition: the contract computes the b_tokens from the rate it can read.
AttributedAtQuote(amount, executed) == PoolMints(amount, poolRate)

\* b_tokens_minted: what the pool's deposit returned
Attributed(amount, executed) == PoolMints(amount, executed)

-----------------------------------------------------------------------------
(* A vault's calls. *)

\* token.transfer(vault, strategy, amount), the pre-condition of deposit
Transfer(v) ==
  \E amount \in Amounts \ {0} :
    /\ amount <= wallet[v]
    /\ wallet' = [wallet EXCEPT ![v] = @ - amount]
    /\ held' = held + amount
    /\ UNCHANGED <<bTokens, poolRate, position, poolCash>>

\* deposit(amount, v); the pool takes the amount from what the strategy holds, whoever sent it
DepositCall(v, amount, executed) ==
  LET minted == Attributed(amount, executed)
  IN  /\ amount > 0
      /\ amount <= held
      /\ AddFits(bTokens[v], minted)
      /\ bTokens' = [bTokens EXCEPT ![v] = @ + minted]
      /\ position' = position + PoolMints(amount, executed)
      /\ held' = held - amount
      /\ poolCash' = poolCash + amount
      /\ poolRate' = executed
      /\ UNCHANGED wallet

Deposit(v) == \E amount \in Amounts, executed \in Accruals : DepositCall(v, amount, executed)

\* withdraw(amount, v, to)
WithdrawCall(v, to, amount, executed) ==
  LET burnt     == BTokensToBurn(v, amount)
      withdrawn == Underlying(burnt, executed)
      paid      == Payment(burnt, executed)
  IN  /\ WithdrawComputable(v, amount)
      /\ burnt <= position
      /\ withdrawn <= poolCash
      /\ held + withdrawn >= paid
      /\ bTokens' = [bTokens EXCEPT ![v] = @ - burnt]
      /\ position' = position - burnt
      /\ poolCash' = poolCash - withdrawn
      /\ held' = held + withdrawn - paid
      /\ wallet' = [wallet EXCEPT ![to] = @ + paid]
      /\ poolRate' = executed

Withdraw(v) ==
  \E to \in Vaults, amount \in Amounts, executed \in Accruals :
    WithdrawCall(v, to, amount, executed)

\* interest accrues between the calls
RateGrows ==
  /\ poolRate' \in Accruals \ {poolRate}
  /\ UNCHANGED <<bTokens, held, wallet, position, poolCash>>

Next == RateGrows \/ \E v \in Vaults : Transfer(v) \/ Deposit(v) \/ Withdraw(v)

Spec == Init /\ [][Next]_vars

-----------------------------------------------------------------------------
(* Properties. *)

\* The b_tokens attributed to the vaults are the b_tokens the pool holds for the strategy: no
\* cap, rounding or interleaving of vaults lets one vault's withdrawal burn another's.
AttributionExact == SumFunction(bTokens) = position

\* What a call adds to the worth of v's b_tokens, at the rate the call was executed at.
WorthGained(v) == Underlying(bTokens'[v], poolRate') - Underlying(bTokens[v], poolRate')

\* Every call exchanges at the rate the pool executed it at, though the contract computed with
\* the one it could read: what the strategy gives to the pool is credited to one vault, but for
\* less than a b_token costs (a deposit too small for one is lost); what a vault gives up is
\* paid out, but for the unit a rounding may cost, and none of it stays with the strategy.
CallsKeepValue ==
  [][/\ held' < held =>
          \E v \in Vaults :
            held - held' - WorthGained(v) \in 0..MulDivCeil(1, poolRate', SCALAR_12)
     /\ \A v \in Vaults :
          bTokens'[v] < bTokens[v] =>
            /\ held' = held
            /\ SumFunction(wallet') - SumFunction(wallet) + WorthGained(v) \in {-1, 0}]_vars

\* A withdrawal is refused for its arithmetic only where amount * SCALAR_12, rounded up, leaves
\* i128 (contract.rs:172), even when balance() has overflowed and reads 0.  Of a balance that
\* computes, that can only happen to an amount which takes the last b_token.  What is accepted is
\* paid in full (the pool pays no less than the rate the contract has read), an amount beyond the
\* worth of the b_tokens pays all of it, and at par or above asking for all leaves no dust.
BalanceWithdrawable ==
  \A v \in Vaults, amount \in Amounts \ {0} :
    bTokens[v] > 0 =>
      LET burnt == BTokensToBurn(v, amount)
          worth == Underlying(bTokens[v], poolRate)
      IN  /\ \/ AddFits(amount * SCALAR_12, poolRate - 1)
             \/ /\ bTokens[v] * poolRate <= MaxI128
                /\ amount <= Underlying(bTokens[v] - 1, poolRate)
             => WithdrawComputable(v, amount)
          /\ WithdrawComputable(v, amount) =>
               /\ Payment(burnt, poolRate) <= worth
               /\ Payment(burnt, poolRate) >= (IF amount <= worth THEN amount ELSE worth)
               /\ amount >= worth /\ poolRate >= SCALAR_12 => burnt = bTokens[v]

\* What balance() tells all the vaults together is there: the position in the pool is worth it.
Solvent ==
  SumFunction([v \in Vaults |-> Balance(v)]) <= Underlying(position, poolRate)

FairShares == INSTANCE ShareLedger WITH
  Holders <- Vaults, claims <- bTokens, issued <- SumFunction(bTokens), assets <- position

\* The attribution is a share ledger whose claims are the pool's b_tokens themselves.
ImplementsShareLedger == FairShares!Spec
=============================================================================
