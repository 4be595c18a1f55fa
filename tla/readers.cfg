SPECIFICATION ReadersSpec
CONSTANTS
  a = a
  b = b
  staging = staging
  live = live
  k = k
  v = v
  w = w
  Slugs = {a, b}
  Envs = {staging, live}
  Keys = {k}
  Values = {v, w}
  Shared = Shared
  AllEnvs = AllEnvs
  Empty = Empty
  None = None
  MaxProjects = 3
  MaxCopied = 2
  MaxJobs = 3
  MaxMeanwhile = 2
  MaxEdits = 3
  Writes <- VaultWrites
  Edits <- ViewEdits
INVARIANTS
  ExportRegular
  ImportRestores
  PageRegular
  SensitiveStaysHidden
  NotFoundMeansDeleted
PROPERTIES
  ImportSparesOthers
CHECK_DEADLOCK FALSE
