SPECIFICATION Spec
CONSTANTS
  v1 = v1  v2 = v2
  Vaults <- TwoVaults
  MaxBTokens = 3
  MinTtl = 2
  MaxTtl = 8
  INSTANCE_TTL = 3
  INSTANCE_BUMP = 4
  PERSISTENT_TTL = 5
  PERSISTENT_BUMP = 7
SYMMETRY TwoVaultSymmetry
INVARIANTS BumpedOnEveryAccess
