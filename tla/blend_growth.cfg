SPECIFICATION FairSpec
CONSTANTS
  v1 = v1  v2 = v2  v3 = v3  k1 = k1  k2 = k2
  MaxI128 = 1000
  SCALAR_12 = 2
  LOCKED_SHARES = 1
  Vaults <- TwoVaults
  Keepers <- TwoKeepers
  Amounts <- AmountsTo30
  Rates <- Growing
  SwapOuts <- Outs
  MinOuts <- Minimums
  Rewards <- Emissions
  RewardThreshold = 2
  SupplyCap = 5
  Endowment = 3
  MaxPoolEvents = 2
INVARIANTS TypeOK BooksExact PriceAtLeastOne
PROPERTIES RewardsNotLost ImplementsShareLedger VaultGetsOut RewardsReinvested
