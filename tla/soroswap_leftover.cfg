SPECIFICATION Spec
CONSTANTS
  v1 = v1  v2 = v2
  MaxI128 = 2000000000
  FeeNum = 3
  FeeDen = 1000
  Vaults <- TwoVaults
  Amounts <- SmallAndLarge
  Trades <- NoTrades
  ReserveA = 10000
  ReserveB = 10000
  OtherLp = 10000
  Endowment = 4000
  MaxTrades = 0
CHECK_DEADLOCK FALSE
SYMMETRY TwoVaultSymmetry
INVARIANTS HeldTransiently
