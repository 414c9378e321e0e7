SPECIFICATION Spec
CONSTANTS
  v1 = v1  v2 = v2
  MaxI128 = 700
  FeeNum = 3
  FeeDen = 1000
  Vaults <- TwoVaults
  Amounts <- SomeAmounts
  Trades <- SomeTrades
  ReserveA = 48
  ReserveB = 80
  OtherLp = 60
  Endowment = 16
  MaxTrades = 2
CHECK_DEADLOCK FALSE
SYMMETRY TwoVaultSymmetry
INVARIANTS AttributionExact Solvent PaidAsAsked DepositNotOvervalued
PROPERTIES ImplementsShareLedger
