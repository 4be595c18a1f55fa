SPECIFICATION Spec
CONSTANTS
  Single = Single
  Double = Double
  Escape = Escape
  Open = Open
  Close = Close
  K = K
  x = x
  Symbols <- Letters
  Keys <- Names
  Commands <- AllCommands
  MaxUnmatched = 2
INVARIANTS
  RewritesExpand
  RefusedRightly
  OnlyTagsChange
CHECK_DEADLOCK FALSE
