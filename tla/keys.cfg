SPECIFICATION Spec
CONSTANTS
  a = a
  b = b
  p1 = p1
  p2 = p2
  d1 = d1
  d2 = d2
  Processes = {a}
  Passphrases = {p1, p2}
  Commands <- Verified
  Definitions = {d1, d2}
  MaxMade = 3
INVARIANTS
  TypeOK
  OneKey
  StillReadable
PROPERTIES
  MismatchMeansOtherKey
