SPECIFICATION Spec
CONSTANTS
  cli = cli
  mcp = mcp
  k1 = k1
  k2 = k2
  staging = staging
  Openers = {cli, mcp}
  Keys = {k1, k2}
  EnvIds = {1}
  EnvName <- Name
  None = None
  Killable <- AnywhereButCopying
  Vaults <- OldVaults
INVARIANTS
  MigrationComplete
