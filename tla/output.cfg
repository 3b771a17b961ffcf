\* Drivers without a buffer and with one smaller than a word, one that whole
\* words fill, and one they do not; three calls, two failures.
CONSTANTS
  Buffers <- MCBuffers
  Shorts <- MCShorts
  Sysexes <- MCSysexes
  BUFLEN = 2
  FillLengths = {0, 3, 5, 8}
  MaxCalls = 3
  MaxFaults = 2
SPECIFICATION Spec
INVARIANTS FillInBounds AllIsFlushed
PROPERTIES RefusedOnce IsByteStream EveryCallReturns
CHECK_DEADLOCK FALSE
