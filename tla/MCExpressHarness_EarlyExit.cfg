CONSTANTS
  Output <- MCOutput
  PipeCap = 2
  ExitBeforeReady = TRUE
SPECIFICATION Spec
PROPERTY RunReturns
\* The script ends: the main thread has stopped and the reader has broken out.
CHECK_DEADLOCK FALSE
