SPECIFICATION Spec
CONSTANTS
  v1 = v1  v2 = v2  v3 = v3  k1 = k1  k2 = k2
  MaxI128 = 40
  SCALAR_12 = 3
  LOCKED_SHARES = 1
  Vaults <- ThreeVaults
  Keepers <- OneKeeper
  Amounts <- SomeAmounts
  Rates <- AroundPar
  SwapOuts <- Outs
  MinOuts <- Minimums
  Rewards <- OneEmission
  RewardThreshold = 2
  SupplyCap = 8
  Endowment = 4
  MaxPoolEvents = 2
SYMMETRY ThreeVaultSymmetry
INVARIANTS SharesConserved BooksBacked BalanceWithdrawable QuoteIsBooked Solvent
PROPERTIES SharePriceNeverFalls OthersNotDiluted NoCallEnriches
