SPECIFICATION Spec
CONSTANTS
  ui = ui
  tab = tab
  a = a
  b = b
  staging = staging
  k = k
  v = v
  w = w
  Procs = {ui, tab}
  Slugs = {a, b}
  Envs = {staging}
  Keys = {k}
  Values = {v, w}
  Shared = Shared
  AllEnvs = AllEnvs
  Empty = Empty
  None = None
  MaxProjects = 3
  Requests <- CoreRequests
INVARIANTS
  TypeOK
  OneDefinitionPerScope
  NoOrphanedProjectRows
  SecretsNameAnEnvironment
  MostSpecificScopeWins
PROPERTIES
  OnlyTheNamedProject
  PutStoresItsRow
