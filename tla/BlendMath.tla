------------------------------ MODULE BlendMath -----------------------------
(***************************************************************************)
(* The pure part of strategy-blend: the conversions of StrategyReserves    *)
(* (reserves.rs) and the two quotes of utils.rs.                           *)
(*                                                                         *)
(* Three units are in play.  A vault holds shares of the strategy; the     *)
(* strategy holds b_tokens of the Blend pool; a b_token is worth           *)
(* b_rate / SCALAR_12 of the underlying asset.  Every definition takes the *)
(* reserves record R = [total_shares, total_b_tokens, b_rate] explicitly.  *)
(* An operator named ...Fits or ...Ok says when the Rust function returns  *)
(* Ok; the operator it guards is the value returned.                       *)
(***************************************************************************)
EXTENDS FixedPoint

CONSTANTS
  SCALAR_12,       \* fixed-point scale of b_rate: 10^12
  LOCKED_SHARES    \* shares of the first deposit credited to nobody: 1000

ASSUME BlendMathAssumption == /\ SCALAR_12 \in Nat \ {0}
                              /\ LOCKED_SHARES \in Nat \ {0}

Reserves == [total_shares : Nat, total_b_tokens : Nat, b_rate : Nat]

-----------------------------------------------------------------------------
(* Conversions between shares, b_tokens and underlying. *)

Unpriced(R) == R.total_shares = 0 \/ R.total_b_tokens = 0

ToSharesFits(R, bTokens) ==
  Unpriced(R) \/ MulDivFits(bTokens, R.total_shares, R.total_b_tokens)

BTokensToSharesDown(R, bTokens) ==
  IF Unpriced(R) THEN bTokens
  ELSE MulDivFloor(bTokens, R.total_shares, R.total_b_tokens)

\* Mutant of the next definition: the burn is rounded in the vault's favour.
BTokensToSharesRoundedDown(R, bTokens) == BTokensToSharesDown(R, bTokens)

BTokensToSharesUp(R, bTokens) ==
  IF Unpriced(R) THEN bTokens
  ELSE MulDivCeil(bTokens, R.total_shares, R.total_b_tokens)

SharesToBTokensDown(R, shares) ==
  MulDivFloor(shares, R.total_b_tokens, R.total_shares)

BTokensToUnderlyingDown(R, bTokens) ==
  MulDivFloor(bTokens, R.b_rate, SCALAR_12)

\* What a vault's shares are worth: the value balance, deposit and withdraw return.
SharesToUnderlying(R, shares) ==
  IF Unpriced(R) THEN 0
  ELSE BTokensToUnderlyingDown(R, SharesToBTokensDown(R, shares))

ToUnderlyingFits(R, shares) ==
  \/ Unpriced(R)
  \/ /\ MulDivFits(shares, R.total_b_tokens, R.total_shares)
     /\ MulDivFits(SharesToBTokensDown(R, shares), R.b_rate, SCALAR_12)

-----------------------------------------------------------------------------
(* calculate_optimal_deposit_amount: buy as many shares as amount pays for, *)
(* then charge only what those shares cost.                                 *)

AffordableBTokens(R, amount) == MulDivFloor(amount, SCALAR_12, R.b_rate)

AffordableShares(R, amount) ==
  BTokensToSharesDown(R, AffordableBTokens(R, amount))

\* Mutant of the next definition: the whole amount is taken, nothing is refunded.
UnoptimisedBTokens(R, amount) == AffordableBTokens(R, amount)

DepositBTokens(R, amount) ==
  IF R.total_shares = 0 THEN AffordableBTokens(R, amount)
  ELSE MulDivCeil(AffordableShares(R, amount), R.total_b_tokens, R.total_shares)

\* Mutant of the next definition: the charge is rounded down.
DepositAmountRoundedDown(R, amount) ==
  MulDivFloor(DepositBTokens(R, amount), R.b_rate, SCALAR_12)

DepositAmount(R, amount) == MulDivCeil(DepositBTokens(R, amount), R.b_rate, SCALAR_12)

DepositQuoteOk(R, amount) ==
  /\ MulDivFits(amount, SCALAR_12, R.b_rate)
  /\ R.total_shares # 0 =>
       /\ ToSharesFits(R, AffordableBTokens(R, amount))
       /\ AffordableShares(R, amount) # 0
       /\ MulDivFits(AffordableShares(R, amount), R.total_b_tokens, R.total_shares)
  /\ DepositBTokens(R, amount) > 0
  /\ MulDivFits(DepositBTokens(R, amount), R.b_rate, SCALAR_12)

-----------------------------------------------------------------------------
(* calculate_optimal_withdraw_amount: burn the fewest shares that pay for   *)
(* amount, then pay all that those shares are worth.                        *)

RequestedBTokens(R, amount) == MulDivCeil(amount, SCALAR_12, R.b_rate)

\* Mutant of the next definition: the request is rounded against the vault.
RequestedSharesDown(R, amount) ==
  BTokensToSharesDown(R, AffordableBTokens(R, amount))

RequestedShares(R, amount) == BTokensToSharesUp(R, RequestedBTokens(R, amount))

WithdrawBTokens(R, amount) ==
  MulDivFloor(RequestedShares(R, amount), R.total_b_tokens, R.total_shares)

WithdrawAmount(R, amount) == MulDivFloor(WithdrawBTokens(R, amount), R.b_rate, SCALAR_12)

WithdrawQuoteOk(R, amount) ==
  /\ MulDivFits(amount, SCALAR_12, R.b_rate)
  /\ ToSharesFits(R, RequestedBTokens(R, amount))
  /\ MulDivFits(RequestedShares(R, amount), R.total_b_tokens, R.total_shares)
  /\ MulDivFits(WithdrawBTokens(R, amount), R.b_rate, SCALAR_12)

-----------------------------------------------------------------------------
(* reserves::deposit and reserves::withdraw: the new reserves, the shares   *)
(* credited to or taken from the vault, and the conditions for Ok.          *)

\* Mutant of the next definition: the mint is rounded in the depositor's favour.
MintedSharesUp(R, bTokens) == BTokensToSharesUp(R, bTokens)

MintedShares(R, bTokens) == BTokensToSharesDown(R, bTokens)

\* Mutant of the next definition: the first vault is credited the locked shares too.
CreditedInFull(R, bTokens) == MintedShares(R, bTokens)

CreditedShares(R, bTokens) ==
  IF R.total_shares = 0 THEN MintedShares(R, bTokens) - LOCKED_SHARES
  ELSE MintedShares(R, bTokens)

\* Mutant of the next definition: the locked shares are minted on top of the first deposit.
LockedOnTop(R, bTokens) ==
  [R EXCEPT !.total_shares =
              @ + MintedShares(R, bTokens) + (IF @ = 0 THEN LOCKED_SHARES ELSE 0),
            !.total_b_tokens = @ + bTokens]

ReservesAfterDeposit(R, bTokens) ==
  [R EXCEPT !.total_shares = @ + MintedShares(R, bTokens),
            !.total_b_tokens = @ + bTokens]

BookDepositOk(R, held, bTokens) ==
  /\ bTokens > 0
  /\ ToSharesFits(R, bTokens)
  /\ MintedShares(R, bTokens) > 0
  /\ R.total_shares = 0 => MintedShares(R, bTokens) > LOCKED_SHARES
  /\ AddFits(R.total_shares, MintedShares(R, bTokens))
  /\ AddFits(R.total_b_tokens, bTokens)
  /\ AddFits(held, CreditedShares(R, bTokens))

BurntShares(R, bTokens) == BTokensToSharesUp(R, bTokens)

ReservesAfterWithdraw(R, bTokens) ==
  [R EXCEPT !.total_shares = @ - BurntShares(R, bTokens),
            !.total_b_tokens = @ - bTokens]

\* Mutant of the next definition: the vault's own shares are not compared with the burn.
BookWithdrawUnchecked(R, held, bTokens) ==
  /\ bTokens > 0
  /\ ToSharesFits(R, bTokens)
  /\ BurntShares(R, bTokens) <= R.total_shares
  /\ bTokens <= R.total_b_tokens

BookWithdrawOk(R, held, bTokens) ==
  /\ bTokens > 0
  /\ ToSharesFits(R, bTokens)
  /\ BurntShares(R, bTokens) <= R.total_shares
  /\ bTokens <= R.total_b_tokens
  /\ BurntShares(R, bTokens) <= held

=============================================================================
