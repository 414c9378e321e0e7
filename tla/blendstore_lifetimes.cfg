SPECIFICATION FairSpec
CONSTANTS
  v1 = v1  v2 = v2
  Vaults <- TwoVaults
  MaxShares = 3
  MinTtl = 2
  MaxTtl = 8
  INSTANCE_LIFETIME_THRESHOLD = 3
  INSTANCE_BUMP_AMOUNT = 4
  PERSISTENT_LIFETIME_THRESHOLD = 5
  PERSISTENT_BUMP_AMOUNT = 7
INVARIANTS TotalsAgree UsedContractLives ActiveVaultServed
PROPERTIES PositionRecoverable
