\* One Pm_Write of a sysex with a real-time message between its words.
CONSTANTS
  Buffers <- MCEmbedded
  Shorts = {}
  Sysexes = {}
  BUFLEN = 2
  FillLengths = {8}
  MaxCalls = 1
  MaxFaults = 0
SPECIFICATION Spec
INVARIANT NoEcho
CHECK_DEADLOCK FALSE
