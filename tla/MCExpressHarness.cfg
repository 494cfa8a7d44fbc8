CONSTANTS
  Output <- MCOutput
  PipeCap = 2
  ExitBeforeReady = FALSE
SPECIFICATION Spec
PROPERTIES RunReturns ReaderEnds
\* The script ends: the main thread has stopped and the reader has broken out.
CHECK_DEADLOCK FALSE
