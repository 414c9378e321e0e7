SPECIFICATION Spec
CONSTANTS
  v1 = v1  v2 = v2  deployer = deployer  self = self
  MaxI128 = 100000000
  FeeNum = 3
  FeeDen = 1000
  Vaults <- TwoVaults
  Accounts <- SomeAccounts
  Strategy <- self
  Amounts <- SomeAmounts
  Trades <- SomeTrades
  Rewards <- OneReward
  Slippages <- NoSlippage
  ReserveDeposit = 36
  ReservePair = 60
  OtherShares = 45
  Endowment = 14
  MaxPoolEvents = 1
SYMMETRY TwoVaultSymmetry
INVARIANTS AttributionExact Solvent PaidAsAsked DepositNotOvervalued NeverRefused
PROPERTIES WithdrawLeavesNothing ImplementsShareLedger
