SPECIFICATION Spec
CONSTANTS
  k = k
  c = c
  Calls = {c}
  Keys = {k}
  Requests <- AllTools
  MaxProjects = 2
INVARIANTS
  TypeOK
  EffectWasAllowed
  CommandsAudited
  NoSurvivors
  ResultMeansExited
PROPERTIES
  CallsReturn
