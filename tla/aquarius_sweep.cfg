SPECIFICATION SpecWithAdmin
CONSTANTS
  v1 = v1  v2 = v2  deployer = deployer  self = self
  MaxI128 = 200000000
  FeeNum = 3
  FeeDen = 1000
  Vaults <- TwoVaults
  Accounts <- SomeAccounts
  Strategy <- self
  Amounts <- SmallAndLarge
  Trades <- Nothing
  Rewards <- Nothing
  Slippages <- HalfPercent
  ReserveDeposit = 10000
  ReservePair = 10000
  OtherShares = 10000
  Endowment = 4000
  MaxPoolEvents = 0
SYMMETRY TwoVaultSymmetry
INVARIANTS AdminCanSweep
