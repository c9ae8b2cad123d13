CONSTANTS
  x = x
  eol = eol
  EOF = EOF
  NUL = NUL
  Null = Null
  Char <- TwoChars
  NL <- eol
  MinGap = 1
  CacheSize = 3
  InitialText <- OnlyEmpty
  Inserts <- Keys
  MaxDelete = 2
  MaxText = 2
  MaxEdits = 2
  MaxLookups = 1
  MaxGroup = 2
SPECIFICATION Spec
INVARIANT TextIsVersion
CHECK_DEADLOCK FALSE
