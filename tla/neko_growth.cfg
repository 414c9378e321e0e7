SPECIFICATION Spec
CONSTANTS
  v1 = v1  v2 = v2
  MaxI128 = 16
  SCALAR_12 = 2
  Vaults <- TwoVaults
  Amounts <- AmountsTo4And7
  Rates <- Growing
  PoolCash = 4
  Endowment = 4
\* a vault that deposited less than one b_token costs, again and again, has nothing left to do
CHECK_DEADLOCK FALSE
SYMMETRY TwoVaultSymmetry
INVARIANTS Solvent AttributionExact BalanceWithdrawable
PROPERTIES CallsKeepValue ImplementsShareLedger
