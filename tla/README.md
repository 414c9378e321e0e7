# Verification of the DeFindex strategies

The repository holds four Soroban contracts that DeFindex vaults deposit into. Each
implements the same trait (`deposit`, `withdraw`, `balance`, `harvest`, `asset`) over a
different market. This directory specifies them in TLA+, model-checks small instances with
TLC, and proves the most important properties with TLAPS for every value of the constants.

## 1. The system

| Component | Source | State it keeps | Operations | Works with |
|---|---|---|---|---|
| strategy-blend | `strategy-blend/src/contract.rs` | instance: configuration, keeper, `StrategyReserves` (total shares, total b_tokens, b_rate); persistent: shares per vault | constructor, `deposit`, `withdraw`, `harvest`, `set_keeper`, `balance`, `asset`, `get_keeper` | Blend pool, BLND token, Soroswap router |
| - reserves | `reserves.rs` | the record above | conversions, bookkeeping of deposit, withdraw, harvest | storage |
| - quotes | `utils.rs` | none | optimal deposit and withdraw amounts | reserves |
| - adapters | `blend_pool.rs`, `soroswap.rs` | none | supply, withdraw, claim, reinvest, swap | pool, router |
| strategy-neko | `strategy-neko/src/*.rs` | b_tokens per vault | `deposit`, `withdraw`, `balance`, `harvest` (event only) | rwa-lending pool |
| strategy-soroswap | `strategy-soroswap/src/*.rs` | LP tokens per vault | the same; half of a deposit is swapped, the rest added as liquidity | Soroswap router and pair |
| strategy-aquarius | `strategy-aquarius/src/*.rs` | pool shares per vault; order of the pool's tokens, slippage bound, admin | the same, `update_slippage`, `sweep`; AQUA claimed by `harvest` | Aquarius pool |
| storage lifetimes | the four `storage.rs` files | time-to-live of the instance and of each vault's entry | extended by some reads and writes | ledger, archival |
| external contracts | `wasms/` | binaries | - | - |

**How they interact.** A vault calls a strategy; the strategy calls its market; markets move
on their own between calls (interest, bad debt, emissions, other traders). Nothing is shared
between two strategies. strategy-blend pulls the deposit itself and refunds what it does not
use; the other three document that the vault transfers the amount before it calls, and check
neither who calls nor who transferred what.

**What is hard.** There are no threads. A call either completes or is undone as a whole, in
the contracts it called too: the crates return `Err` or panic, and the release profile has
`overflow-checks` on and `panic = "abort"`. What can go wrong is

- the *order* of calls: several vaults, a keeper, and a market that moves between any two;
- *two computations of one quantity* that must agree: the quote and the bookkeeping of
  strategy-blend, the rate strategy-neko has read and the rate its pool executes at;
- *rounding*, in chains of up to four divisions of alternating direction, and products that
  overflow 128 bits before the division;
- *books that are estimates*: strategy-blend never reads back what a vault's deposit minted;
- pots of money *shared by several vaults*: the lender position, the LP tokens, and the
  underlying waiting with a strategy between transfer and deposit;
- values *read before a step of the same call that changes them*: strategy-soroswap swaps, then
  adds liquidity with an amount fixed before the swap; values its LP tokens, then moves the
  pair by redeeming them;
- estimates made *in the call they protect*: the minimums of strategy-aquarius come from the
  reserves the call executes at, so that they can neither refuse an honest call nor bound
  anybody's slippage; and its pool lists the two tokens in an order of its own;
- *lifetimes*: totals and positions are in different entries, renewed by different calls, and
  an entry nobody renewed is archived: every call that touches it fails until somebody
  restores it;
- what must happen *eventually*, in calls nobody is obliged to make: a vault that wants its
  money back gets it, and rewards worth a harvest are reinvested.

`PROJECT.json` lists these as hazards, each at its line, with the properties that would catch
it. What makes each component correct, in a sentence: the parts attributed to the vaults add
up to what the market holds for the strategy; nobody's call takes value from somebody else;
what `balance` says is there; a call is paid and credited at the price it is executed at.

## 2. The modules

| Module | Role |
|---|---|
| `FixedPoint` | multiply-then-divide in 128 bits, both roundings, and when it overflows |
| `BlendMath` | `reserves.rs` and `utils.rs` as operators on the reserves record |
| `BlendStrategy` | the strategy-blend contract with vaults, keeper and pool around it |
| `NekoStrategy` | the strategy-neko contract with vaults and rwa-lending pool around it |
| `ConstantProduct` | swaps and liquidity in the pools of strategy-soroswap and strategy-aquarius (external) |
| `SoroswapStrategy` | the strategy-soroswap contract with vaults, pair and other traders around it |
| `AquariusStrategy` | the strategy-aquarius contract with vaults, pool and other traders around it |
| `ShareLedger` | the abstract specification all four implement |
| `Ttl` | the lifetime of a ledger entry, as the host keeps it (external) |
| `BlendStorage`, `VaultStorage` | the entries of strategy-blend, and of the other three, and how long they live |
| `MCBlendStrategy`, `MCNekoStrategy`, `MCSoroswapStrategy`, `MCAquariusStrategy`, `MCBlendStorage`, `MCVaultStorage` | instances for TLC |
| `ArithmeticTheorems`, `ConstantProductTheorems` | lemmas on rounding and on sums over the vaults; on swaps, liquidity and its valuation |
| `BlendStrategyProofs`, `NekoStrategyProofs`, `SoroswapStrategyProofs`, `AquariusStrategyProofs`, `BlendStorageProofs`, `VaultStorageProofs` | theorems |

### ShareLedger

What a strategy owes the vaults that share it, whatever the market: a holder *joins* at the
current price of a claim or above, *leaves* at the price or below and never with more than it
has, *yield* adds assets and touches nobody's claims. `BlendStrategy` implements it with
shares as claims on booked b_tokens, `NekoStrategy` with b_tokens as claims on the lender
position, `SoroswapStrategy` and `AquariusStrategy` with LP tokens as claims on the LP tokens
they hold. While nothing is issued there is no price. TLC showed why that clause is needed: a
harvest before the first deposit, of BLND somebody sent to the strategy, books b_tokens that
no share owns, and they go to the first depositor.

### BlendStrategy

`reserves`, `vaultShares` and `keeper` are the stored entries `Reserves`, `VaultPos(v)` and
`Keeper`; `blnd` is the strategy's BLND balance; `poolRate`, `position` and `claimable` are
what the pool knows of the strategy; `wallet` is the vaults' underlying. The strategy's own
balance of the underlying is the same before and after every call, so it is no variable.

Each entry point is one action: `Deposit`, `Withdraw`, `Harvest`, `SetKeeper`. A failing call
changes nothing and is an action that is not enabled, so the guards are the code's checks,
including the overflow of each `fixed_mul_*` and `checked_*`. `Harvest` has the two outcomes
of `perform_reinvest`: below the threshold the claimed BLND stays for the next harvest, above
it the whole balance is swapped, supplied and booked; the router may return anything not
below the keeper's minimum. `RateMoves`, `RewardsAccrue` and `BlndArrives` are the
environment; their number is bounded by `MaxPoolEvents`.

The pool is external. It is modelled as the adapters use it: it mints `amount / rate` rounded
down and burns rounded up, pays what it was asked for (capped at the position), may refuse a
supply beyond its cap, and its rate may rise or fall between any two calls. Within a call the
rate is the same for the quote and for the pool, because the contract reads the reserve the
pool has brought up to date for the current ledger.

`Exit(v)` is the withdrawal of whatever the balance is at that moment; it is a `Withdraw` and
adds no behaviour. `FairSpec` assumes vaults that keep trying it and keepers that keep
harvesting (see *Fairness and liveness*).

### NekoStrategy

A deposit is two calls of the vault. `Transfer` puts the amount in the strategy's balance
(`held`), `Deposit` supplies it to the pool. Between them come other vaults' calls, interest, and
a deposit the pool refuses and the vault retries. The contract documents that a vault deposits
what it transferred, and does not check it: it asks for nobody's authorisation and keeps no
record of transfers. `Deposit(v)` is therefore enabled for every vault and any amount up to
`held`, whoever transferred it. `get_b_token_rate` may predate the accrual the pool does first,
so a deposit or a withdrawal executes at any rate not below the one read (`Accruals`).
`harvest` emits an event and changes no state; `balance` is the operator `Balance`.

### SoroswapStrategy

`lpTokens` is the stored entry `LpTokens(v)`; `heldA` and `heldB` are the strategy's balances,
`wallet` is the vaults' token_a; `reserveA`, `reserveB`, `totalLp` and `strategyLp` are the pair.
Transfer and deposit are two calls, and a deposit may use any transfer, as in `NekoStrategy`. A
deposit is one action, and the operators under it follow the
code's order: half is swapped (`SwapAmount`, `BReceived`), the optimum is computed at the
reserves the swap has left (`AfterSwapA`, `BOptimal`), liquidity is added (`LpMinted`), and
what the balance of LP tokens grew by is attributed (`LpReturned`). `Authorised` says that the
router makes just the transfers the strategy has authorised; otherwise the deposit fails. A
withdrawal burns in proportion to the spot value (`LpToBurn`), redeems (`AOut`, `BOut`), swaps
token_b back at the reserves the redemption has left (`SwappedBack`) and pays the sum. `Trade`
is anybody else's swap, between any two calls; `MaxTrades` bounds their number. The deadline
of the router calls is an hour after the call that makes them and cannot pass; `MIN_OUT` is 0
and refuses nothing.

The pair and the router are binaries. `ConstantProduct` gives them the behaviour the
strategy's own computations and comments expect of them: a fee on what comes in, the product
of the reserves kept, liquidity added in the ratio of the reserves and redeemed in proportion.

### AquariusStrategy

`config` holds what the constructor saves: the indices of the two tokens in the pool's order
(`IndexOf`, for both orders), the slippage bound, and the admin, which is the contract itself.
`shares` is the stored entry `ShareTokens(v)`; `heldDeposit` and `heldPair` are the strategy's
balances, of which a deposit may use any part of the first, refunds included; `wallet` is as
above; `reserves`, `totalShares`, `strategyShares` and `claimable` are the pool.

The strategy calls the pool without a router. Every amount crosses that border as a vector in
the pool's order (`InPoolOrder`). A deposit offers the pool all of its desired amounts; the pool
takes what the ratio of its reserves allows and refunds the rest (`Kept`), so that deposit_token
as well as pair_token may stay with the strategy. The minimums are those of the code:
`MinWithSlippage` of an estimate, and `unwrap_or(0)` where a product overflows (`OrZero`).
`DepositAccepted` and `WithdrawAccepted` are the pool's comparisons of the minimums and of the
authorised transfers with what it executes. `Harvest` claims the AQUA of the whole position and
sends it to the vault named in the call. `UpdateSlippage` and `Sweep` are the admin's;
`SpecWithAdmin` adds them to the calls of the vaults. They are kept out of `Next` because no
account can ever make them, which is what `aquarius_sweep` shows: an action that never fires
would only be noise in the other runs.

### Ttl, BlendStorage and VaultStorage

`Ttl` has what the contracts use of the host: `extend_ttl` acts at or below the threshold, never
shortens and is cut to the network's maximum; an entry whose time is over is archived, keeps its
value, and fails the calls that touch it until it is restored. There is no clock. `LedgerCloses`
ages every entry by one ledger, and `idle` and `vaultIdle[v]` count the ledgers since somebody
called the contract and since a call of `v`, up to `MaxTtl`, after which everything may have been
archived anyway.

`BlendStorage`: every entry point first extends the instance (`EntryPoint`), reading a vault's
entry extends it (`ReadTtl`), writing does not, so that a new entry has only the network's
minimum. `VaultStorage` is strategy-neko's `storage.rs`, and with other names the code of
strategy-soroswap's and strategy-aquarius's: writing extends, reading does when the position is
not empty, and nothing but the constructor extends the instance. Each call of the contracts
appears with the entries it reads and writes and in their order; `OtherCall` is `asset`, and
strategy-neko's `harvest`, which read the configuration only, while `harvest` of the other two
reads a position as `balance` does (`Read`). What shares and b_tokens are
worth is left to the strategies' own modules, which in turn have no lifetimes. They meet in the
values: a call that fails for an archived entry changes nothing there.

## 3. The properties

Each is stated with the behaviour it is about in the modules. In short:

- *strategy-blend*: shares are conserved (`SharesConserved`); the books never exceed the
  position (`BooksBacked`) and are equal to it at par or above (`BooksExact`); a share is worth
  at least one b_token (`PriceAtLeastOne`); its price never falls (`SharePriceNeverFalls`);
  nobody is diluted by another's call (`OthersNotDiluted`), nobody gains by the roundings of
  its own (`NoCallEnriches`); a balance can be withdrawn (`BalanceWithdrawable`) and all
  balances together are there (`Solvent`); quote and bookkeeping agree (`QuoteIsBooked`);
  rewards end in booked b_tokens (`RewardsNotLost`). A vault that keeps asking for its balance
  gets out (`VaultGetsOut`), and rewards worth a harvest are reinvested (`RewardsReinvested`).
- *strategy-neko*: the attribution is exact (`AttributionExact`); every call exchanges tokens for
  b_tokens at the rate the pool executed it at, whatever rate the contract had read, and keeps
  nothing for itself (`CallsKeepValue`); a withdrawal is paid in full, in part or whole, with no
  dust, and is refused for its arithmetic only where the amount times the scale, rounded up,
  leaves 128 bits, which of a balance that computes only concerns an amount that takes its last
  b_token (`BalanceWithdrawable`); the position is worth all balances together (`Solvent`).
- *strategy-soroswap*: the attribution of LP tokens is exact (`AttributionExact`) and the balances
  are within what all of them are worth (`Solvent`); a withdrawal pays what was asked, bounded from
  both sides (`PaidAsAsked`); a deposit is never credited more than it brought in
  (`DepositNotOvervalued`).
- *strategy-aquarius*: `AttributionExact`, `Solvent`, `PaidAsAsked` and `DepositNotOvervalued` as
  for strategy-soroswap; a withdrawal leaves neither token behind, and draws on nothing that
  lies with the strategy (`WithdrawLeavesNothing`); no minimum and no authorisation refuses a
  call, in either order of the tokens (`NeverRefused`). `AdminCanSweep` and `SlippageBounded` are
  what the comments of `storage.rs` say, and do not hold.
- *storage*: entries with different lifetimes agree whatever expires (`TotalsAgree`,
  `AttributionAgrees`); a contract in use is not archived (`UsedContractLives`, strategy-blend
  only); a vault that calls now and then is never locked out (`ActiveVaultServed`), its
  position never archived (`UsedPositionLives`); a vault that was away for however long gets
  its position out (`PositionRecoverable`). `BumpedOnEveryAccess` is what a comment says, and
  does not hold.
- *all modules*: `TypeOK`, which also says that no total and no vault entry turns negative,
  and, for the strategies, `ImplementsShareLedger`. `TypeOK` of `NekoStrategy`,
  `SoroswapStrategy`, `AquariusStrategy` and `BlendStorage` is left to its proof; no run repeats it.

`BalanceWithdrawable` is about the contract: the pool may still be short of liquidity.

What the money between a transfer and its deposit is used for is not a property of strategy-neko,
strategy-soroswap and strategy-aquarius: their deposit takes it from the common balance for
whichever vault the call names, and nothing in the code ties it to the vault that transferred
it. That a vault's transfer is still there when it deposits, or deposits again, rests on vaults
that make both calls in one transaction, which is not in this repository.

`PaidAsAsked` is two bounds. From above, a vault that asks for less than its balance is paid at
most one unit more, where `ValuationFits`. From below, it is paid what it asked, or its balance,
but for `SwapCost` (fee, rounding and price impact of swapping the token_b it redeemed, at the
price of before), the worth of the one LP token that the burn rounds off, and a unit. The lower
bound needs neither a fee nor a valuation that fits: where a product overflows, a term read as 0
makes the balance smaller than what the LP tokens are worth, and the part of them burnt larger, so
that the vault is paid more than it asked for, out of its own, and never less.

## 4. The runs

| Run | Instance | What it shows |
|---|---|---|
| `blend_growth` | 2 vaults, 2 keepers, scale 2, rates 2, 3, 5, supply cap 5, endowment 3, fairness, no symmetry | at par and above, through interest, rewards and harvests: exact books, no reward lost, the share ledger; every vault gets out and rewards are reinvested |
| `blend_losses` | 3 vaults, scale 3, rates 2, 3, 5, supply cap 8, endowment 4, `MaxI128` 40 | the rate falls below par and products overflow: everything else of strategy-blend, value does not move between vaults, balances are covered |
| `neko_growth` | 2 vaults, amounts up to 4 and 7, scale 2, rates 2, 3, 5, `MaxI128` 16 | all properties of strategy-neko, overflow included |
| `soroswap_shared` | 2 vaults, amounts 7, 16, pair of 48/80 with 60 LP tokens of others, 2 trades of 20, `MaxI128` 700 | all properties of strategy-soroswap |
| `aquarius_shared` | 2 vaults, amounts 11, 14, pool of 36/60 in either order with 45 shares of others, one trade of 15 or AQUA of 3, slippage 0 | all properties of strategy-aquarius |
| `blendstore_lifetimes` | 2 vaults, 3 shares; new entries live 2 ledgers, 8 at most; instance extended to 4 at 3 or less, vaults to 7 at 5 or less | totals agree, a used contract and an active vault are served, a position is recovered whatever expired |
| `vaultstore_lifetimes` | the same, for the storage of the other three strategies | positions and pool agree, a position in use lives, a position is recovered |
| `soroswap_leftover`, `soroswap_preauth` | pair of 10000/10000, amounts 40 and 4000 | violations: see the findings below |
| `aquarius_sweep`, `aquarius_slippage` | pool of 10000/10000, amounts 40 and 4000, trade of 4000, slippage 50 | violations: see the findings below |
| `vaultstore_bump` | the bounds of `vaultstore_lifetimes` | a violation: see the findings below |

**Bounds.** The contracts' scale (10^12) and locked shares (1000) become 2 or 3, and 1. What the
code distinguishes is whether the rate is below, at or above the scale, whether the shares are
fewer than the b_tokens, and the remainder of each division; with scales, rates and amounts up to
5 every combination occurs within two or three calls, and behaviours go on for about thirty. Three
vaults are enough for one to act, one to gain and one to lose. `MaxPoolEvents` of strategy-blend
allows two moves of the pool in any place of a behaviour, the fewest that let rewards accrue and
reach the price of a later call. `SupplyCap` and `Endowment` bound the position. `MaxI128` is low
where overflow is part of the question and out of reach elsewhere. The amounts of `neko_growth`
reach 7, the balance of 3 b_tokens at the rate 5 and a withdrawal the contract cannot compute with
its `MaxI128`. The pair of `soroswap_shared` is small beside the deposits, so that every swap
moves the price and every division has a remainder; there are deposits the router refuses,
deposits that leave token_b over, and trades that turn the price around before a withdrawal. Its
`MaxI128` is passed by products of a valuation, whose terms then read as 0. The violation runs use
a market of realistic proportions instead, where a deposit can be small beside the reserves. The
same goes for the pool of `aquarius_shared`, where the deposits of 11 and 14 make the pool refund
the one token or the other; the slippage of 0 is the strictest minimum there is, and a larger one
only refuses less. `MaxPoolEvents` of 1 is one trade, in either direction, or one emission of
AQUA, at any place of a behaviour; trades that follow each other are in `soroswap_shared`.
`MaxI128` is out of reach of every product of `aquarius_shared`: its `unwrap_or(0)` paths are
covered by the proofs, and those of strategy-soroswap, which compute the same valuation, also by
the run.

The lifetimes of the storage runs are a few ledgers instead of 17280 a day. What the code
distinguishes is the order of threshold, bump, the network's minimum and maximum, and what is
left of an entry. A new entry lives less than the instance's threshold, the instance less than
a vault's entry and both less than the maximum, as in the contracts, and every entry can expire
before or after every other, also between being restored and being used.

The supply cap of `blend_growth` is reached by two deposits, so that harvests are refused until
somebody withdraws; its endowment is small, to keep the graph in reach of the liveness check,
and `blend_losses` has the larger one. `AmountsTo30` holds every balance there can be: a vault
must be able to ask for its own.

Symmetry is over the vaults, which no definition distinguishes, and is not
used where liveness is checked. Bounds do not matter to the proofs.

**Deadlock** is checked in all runs but those of strategy-neko and strategy-soroswap. With the
first, a deposit may be less than one b_token costs; the pool mints none, the contract accepts
that (strategy-blend would refuse), and once all money is lost to such roundings the vaults have
nothing left to do. With the second, the router may refuse every deposit there is money for,
which then lies with the strategy, and the vaults may have nothing else.

**Fairness and liveness.** The contracts are reactive: no scheduler, no retry and no timer of
theirs makes a call happen. What they can promise is that a client who keeps calling is not
blocked for ever, and that is what the fairness says, of the client alone:

- `blend_growth`: weak fairness of `Exit(v)`, a vault that wants its balance keeps asking for it,
  and strong fairness of `Harvest(k)`, whoever is keeper tries again when the pool has refused.
  Strong, because deposits of others can fill the supply cap in between and the keeper can be
  replaced; the exits make room again and again, which is why `RewardsReinvested` rests on both
  assumptions. What the router pays for the BLND is part of the action `Harvest(k)`: a swap that
  returned too little is only sure to be repeated until one that is good enough is possible and
  taken. Nothing is assumed of deposits, of the pool's rate, of rewards or of `SetKeeper`.
- the `lifetimes` runs: weak fairness of `Restore(v)` and strong fairness of `Exit(v)`: whoever
  retries a call also pays for restoring what it touches, and an attempt that meets an archived
  entry is repeated. Ledgers close whenever they like, as often as they like, between the two.

No client is obliged to anything, so that the safety properties and all proofs are about `Spec`,
without fairness.

**Findings.** Five runs state what a comment of the repository says, and TLC refutes them.

`soroswap_leftover`: token_b is documented as "Held transiently during deposit/withdraw."
(`strategy-soroswap/src/storage.rs:16`). A deposit of 4000 buys 1662 token_b, adds the 1389
that match, and the other 273 stay: no operation spends, returns or values them.

`soroswap_preauth`: "Pre-authorize with the exact amount the router will pull."
(`soroswap_pool.rs:64`) holds for token_b, whose amount is computed after the swap, and not
always for token_a, whose amount was fixed before. The swap moves the price in favour of the
optimum; the fee takes from what was received. For a deposit below about 0.6 % of the reserve
the fee outweighs the move, the router pulls less token_a than authorised, and the deposit
fails; larger ones leave token_b over. Both findings rest on the fee of 3/1000 given to the
external pair.

`aquarius_sweep`: the admin is documented as "Admin address — can update slippage and sweep
stuck tokens." (`strategy-aquarius/src/storage.rs:32`). The constructor sets it to
`env.current_contract_address()` (`contract.rs:89`), which signs no transaction and never calls
itself. A deposit of 4000 leaves 273 of the 1662 pair tokens its swap bought with the
strategy, and no account can sweep them.

`aquarius_slippage`: `max_slippage_bps` is documented as "Maximum acceptable slippage in basis
points (e.g. 50 = 0.5%)." (`strategy-aquarius/src/storage.rs:30`). The minimum is taken from an
estimate made after the pool has moved (`aquarius_pool.rs:44`): with the pool moved from
10000/10000 to 14000/7149 between a vault's transfer and its deposit, the deposit is accepted
at about half the price the pool quoted before. `NeverRefused` is the other side of it, and a
theorem: the minimums refuse nothing.

`vaultstore_bump`: "Instance storage TTL: 30 days, bumped to 31 on every access."
(`strategy-neko/src/storage.rs:8`). `load_config`, the access every call makes (line 36),
extends nothing; only `save_config` does (line 45), and only the constructor calls it. A
contract in daily use is archived after 31 days all the same, and somebody has to restore it.
`PositionRecoverable` shows that nothing is lost by that, and `UsedContractLives` that
strategy-blend does it right.

`balance` of strategy-neko is documented as "value = vault_b_tokens * b_rate / SCALAR_12"
(`strategy-neko/src/contract.rs:236`) and reads 0 when the product overflows (lines 277-281).
No run is spent on it: with 128 bits that takes about 1.7e26 b_tokens at par, which no token of
7 decimals reaches. `neko_growth` reaches it with its small `MaxI128` and checks the rest.

The upper bound of `PaidAsAsked` allows one unit more than was asked. TLC's instance never needs
it, but the two roundings of the valuation can cost one: with 83/7408 in the pair, 10 of 208 LP
tokens and 5 asked, the vault is paid 6. One is enough (section 5), for a market with a fee.

## 5. What is proved

All theorems hold for every finite set of vaults, all amounts, rates, scales and caps, and
every width of integers; the assumptions are the named `ASSUME`s of the modules, which TLC
evaluates on every run.

*strategy-blend.* The inductive invariant is

    Books == TypeOK /\ SharesConserved /\ PriceAtLeastOne /\ BooksBacked

(`BooksHold`). None of the parts is inductive alone. A withdrawal keeps the shares conserved
only if the shares burnt are those of the vault, at most the total; the first-deposit branch
is taken again only if the total returns to 0, which the locked shares exclude; the books stay
backed only if the quote's charge pays for the b_tokens booked, and a withdrawal's b_tokens
cover what the pool burns. `PriceAtLeastOne` is the strengthening: because a share is worth at
least one b_token, rounding a number of shares to b_tokens and back returns the same number,
in both directions, so that the quote and the bookkeeping agree (`DepositQuote`,
`WithdrawQuote`, with the rounding lemmas of `ArithmeticTheorems`). From `Books` follow

- `SharesAreConserved`, `BooksAreBacked`, `PriceIsAtLeastOne`, `TypesHold`;
- `SharePriceHolds` and `ImplementsLedger`: a step either leaves the ledger's variables alone
  or is a Join, a Leave or a Yield (`StepIsFair`);
- `BalanceIsWithdrawable`, `QuotesAreBooked`, `NobodyIsDiluted`, `RewardsAreKept`;
- `BalancesAreCovered`: a balance, three divisions deep, is at most the vault's part of the
  booked b_tokens at the pool's rate (`WorthWithinPart`); the sum over the vaults is taken with
  the divisions multiplied out (`SumScales`) and meets `SharesConserved` and `BooksBacked`;
- `CallsDoNotEnrich`: whatever a call does, it leaves the others' shares, changes the booked
  b_tokens by some `d` and the wallets by some `-e` with `d * rate <= e * scale` (`CallAtPrice`: the
  charge of a deposit is rounded up, the b_tokens of a withdrawal are worth what it pays). The
  balance is a rounding of the vault's whole part and not of what the call adds to it, and still
  grows by at most `e`, because the price of a share does not fall (`WorthIsPaidFor`);
- `BooksAreExact`, for rates that are never below par (`r >= SCALAR_12` for every rate the pool may
  take). The hypothesis is needed: below par a unit of the underlying mints more than one b_token
  and the books may stay under the position, as `blend_losses` shows; `BooksBacked` is what
  remains. A rate is below par only after bad debt.

*strategy-neko.* `Attribution == TypeOK /\ AttributionExact` is inductive (`AttributionHolds`,
with `AttributionIsExact` and `TypesHold`), whichever transfers a deposit has used: a capped burn
of one vault is one of the position only because the vaults' b_tokens are the position.
`ImplementsLedger` and `BalanceIsWithdrawable` follow, the second with the overflow inside the
statement: an amount that leaves the last b_token alone is worth less than the whole by at least
what rounding adds. `CallsKeepTheirValue` bounds what the floors of mint and payment keep from the
caller (`CreditKeepsValue`, `PaymentKeepsValue`): the floors of two parts add up to the floor of
the whole or to one less. `BalancesAreCovered` follows as well: each balance is at most its
b_tokens' worth, one that overflows reads 0, and with the divisions multiplied out the sum is the
worth of the attributed b_tokens (`SumScales`), which are the position.

*strategy-soroswap.* `Attribution == TypeOK /\ AttributionExact` is inductive over a market that
moves (`AttributionHolds` and its corollaries, `ImplementsLedger`). Its types say that the
reserves are never emptied and that some LP tokens are other providers'; `ConstantProductTheorems`
proves what that needs, for every fee: a swap and a redemption of a part of the LP tokens pay less
than the reserve (`SwapBounds`, `RedeemBounds`). Three guarantees follow.

`DepositsAreNotOvervalued`: LP tokens minted for `a` and `b` redeem at most `a` and `b` of the
grown reserves (`PartWithinAdded`), and `b`, which matches at most the half that was not swapped,
is worth at most that half there (`CreditWithinAdded`, `AddedMatches`).

`WithdrawalsArePaidAsAsked`, from above and given `FeeNum > 0`: burning the part `n / value` of
the LP tokens redeems, of each reserve, at most that part of what it was valued at and one unit of
rounding (`PartOfReserve`). In token_a that unit is harmless. In token_b it could be worth many
token_a when the swap turns it into some; but the fee takes at least one unit of what is swapped
back (`FeeIsCharged`), and so what comes back is at most what the rest is worth at the spot price
of before the redemption (`SwapBackWithinSpot`). Together it is less than two units over the
request (`WithdrawalWithinRequest`). Without a fee the bound is false, by as much as one token_b
is worth; the pair's fee is 3/1000 and Aquarius pools charge one too.

From below, for any fee and with or without overflow (`PaymentAndCost`): what is redeemed of a
reserve is its part but for a unit (`RedemptionReturns`); what is swapped back returns its spot
worth but for the fee and the price impact (`SwapBackReturns`), which is `SwapCost`; and the burn
rounds off less than one LP token of what was asked (`PartPays`), since the valuation is at most
the part of the reserves (`ValuationWithinPart`), an overflow making it smaller. A vault that asks
for its balance gives up all its LP tokens and rounds off none (`WholeIsPaid`, `IsPaidInFull`).

`BalancesAreCovered` proves `Solvent`: the valuations of the vaults' parts add up to at most the
valuation of all the LP tokens of the strategy (`ValuationsAddUp`). A valuation is a sum of
floors, one of them of a floor: floors of parts add up to at most the floor of the whole
(`SumScales`), for each reserve and for the conversion, and the two sums are one (`SumAdds`). A
product that overflows reads 0.

*strategy-aquarius.* `Attribution == TypeOK /\ AttributionExact` is inductive (`AttributionHolds`,
with `AttributionIsExact` and `TypesHold`), for both orders of the pool's tokens, every slippage
bound, every fee and every width of integers. `AttributionExact` makes a burn the vault can pay
one the strategy can pay, and so keeps the strategy's shares a natural number below the pool's
total; what the pool keeps of a deposit is bounded by what it was offered (`PulledBounds`), and so
the strategy's balances stay natural numbers. From it follow `NothingIsLeftBehind`,
`ImplementsLedger` and `NoCallIsRefused`: a minimum is a floor of a fraction of what is then paid,
and an overflow makes it 0, never more (`MinimumIsMet`, `RedeemsTheMinimum`); and
`DepositsAreNotOvervalued` and `WithdrawalsArePaidAsAsked`, both bounds of it, from the lemmas
above: what the pool keeps of an offer takes the place of what the router pulls, and the order of
the pool's tokens does not matter (`LiquidityIsSymmetric`); and `BalancesAreCovered`, as for
strategy-soroswap.

`AdminNeverActs` is why `Next` has no action of the admin: the contract with them
(`SpecWithAdmin`) implies `Spec`, because the admin is the contract itself and stays so, whatever
the instance. `aquarius_sweep` is the same fact seen from the comment that says otherwise.

*storage of strategy-blend.* What the invariants say of an entry's life at one moment says
nothing of the next ledger. The inductive invariant `Kept` relates an entry's remaining time to
the time since its last use (`Lifetimes`): `instanceTtl + idle` is at least one more than the
threshold, or `MaxTtl` if that is smaller; so is `entryTtl[v] + vaultIdle[v]`, or `MinTtl` for an
entry that was never extended; and nobody used a vault's entry more recently than the contract.
A ledger closing moves one from each first term to the second; a call sets the second to 0 and
renews the first; a restoration only adds. `StorageHolds`, and from it `TotalsAlwaysAgree`,
`UsedContractIsLive` and `ActiveVaultIsServed`, hold for all lifetimes, minima and maxima with
thresholds below their bumps.

*storage of the other three.* `VaultStorageProofs` has the same invariant with the roles of reads
and writes exchanged: a write extends an entry, so that a new position already lives past the
threshold, and a read extends only what is not empty, so that `Lifetimes` speaks of positions and
not of entries. `AttributionAlwaysAgrees` needs to know that a vault that never wrote has nothing
(`Values`). From `StorageHolds` follow `TypesHold`, `AttributionAlwaysAgrees` and
`UsedPositionIsLive`.

*Sums.* The models add up a function over the vaults with `SumFunction` of the community
modules, a fold. What a fold computes cannot be proved by the library's induction theorems,
which take an operator parameter. `ArithmeticTheorems` takes another way: a *measure* of a
function is a function on the subsets of its domain that is 0 on the empty set and adds the value
of the element taken out; a subset smallest among counterexamples (`SmallestSubset`) shows that a
measure exists and agrees with the fold, and `SumOfUpdate`, `SumChanges`, `SumOfZeros`,
`SumBoundsEach`, `NaturalSum`, `SumScales` (sums compare as their terms do) and `SumAdds` (the
sum of two functions is the sum of their sums) follow.

*Only model-checked*: the liveness properties `VaultGetsOut`, `RewardsReinvested` and
`PositionRecoverable` (of both storage modules), and the violations. Fairness and ENABLED are out
of reach of the provers used, as is induction over data, which is why no module that is proved
about declares a RECURSIVE operator. Every safety property of a passing run is a theorem.

## 6. What is not modelled

- Authorisation entries, events, address resolution in constructors and the decoding of
  `init_args`: they carry no state of the models. Where a call begins with `require_auth`
  (strategy-blend's `deposit`, `withdraw`, `harvest` and `set_keeper`, and the admin's calls of
  strategy-aquarius), the actor of the action is the account that signed.
  `deposit` and `withdraw` of the other three call none: the action's vault is the account the call
  names, and anybody may have made the call, which makes no difference to what it does.
- `asset`, `get_keeper`: reads of the configuration, actions only in the storage modules
  (`OtherCall`), where they matter for lifetimes.
- The inside of the external contracts, what a fee or an amplification other than the one of
  `ConstantProduct` would do, and a pool that stops answering.
- Crate roots, the imports of the wasm interfaces and the build profile: they hold no state; the
  profile's `overflow-checks` and `panic = "abort"` are why an overflow is a failing call.
- Fees and rents of restoring an entry, and the lifetime of the contracts' code.
- The division of AQUA among vaults: the model has what `harvest` does, and no document says what
  it should do.
- Liquidity of the Blend pool: a withdrawal it cannot pay fails as a whole and changes nothing.

## 7. Plan

Done: the four strategies, the storage of all of them, the abstract ledger they implement, and
the proofs above. Every safety property is proved. Left:

1. The safety half of the liveness properties: that a vault's exit is accepted in every state in
   which nothing is archived, stated without ENABLED, as a condition on the state.
2. `ValuationFits` as a bound on reserves and LP supply under which no valuation overflows.
