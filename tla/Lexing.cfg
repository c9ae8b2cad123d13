\* A field of a few characters: the first text and three more calls of tokenize(),
\* by edits of one or two characters anywhere, undos, respan() and onDestroy; every
\* interleaving of the UI thread with the workers.  It stops when the calls are used.
SPECIFICATION Spec

CONSTANTS
  None = None
  Edits <- MCEdits
  MaxLength = 3
  MaxCalls = 3

INVARIANTS
  TypeOK
  SpansCoverText
  RunningWorkerIsNamed
  FreshWhenQuiet

PROPERTIES
  ResultsInOrder
  HighlightingArrives

CHECK_DEADLOCK FALSE
