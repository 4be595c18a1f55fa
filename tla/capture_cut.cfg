SPECIFICATION Spec
CONSTANTS
  k1 = k1
  k2 = k2
  k3 = k3
  x = x
  y = y
  z = z
  Symbols = {x, y, z}
  Cut = Cut
  Secrets <- ApartKeys
  Value <- Apart
  MinLen = 2
  MarkerLen = 1
  MaxOutput = 3
  Encodings = {"utf8"}
  Zero = Zero
  EF = EF
  BB = BB
  BF = BF
  FF = FF
  FE = FE
  Lost = Lost
  Sample = 5
  MaxSent = 7
  MaxWrite = 3
CHECK_DEADLOCK FALSE
INVARIANTS
  StraddlingRedacted
