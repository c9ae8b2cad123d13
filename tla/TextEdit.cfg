CONSTANTS
  x = x
  eol = eol
  EOF = EOF
  NUL = NUL
  Null = Null
  Char <- TwoChars
  NL <- eol
  MinGap = 1
  CacheSize = 3
  InitialText <- EmptyAndFour
  Inserts <- Lines
  MaxDelete = 2
  MaxText = 4
  MaxEdits = 3
  MaxLookups = 2
  MaxGroup = 1
SPECIFICATION Spec
INVARIANTS
  TypeOK
  RowsMatchText
  LookupsMatchText
  TextIsVersionUnlessSpoilt
  LazyCopyIsReachable
  BatchesStayWhole
PROPERTIES
  ImplementsEditHistory
CHECK_DEADLOCK FALSE
