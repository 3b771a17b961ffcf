\* The real bar, key 2, and the longest extension the host accepts (10).
\* Bytes: key 2, the parameter 10, extension on (96), wake (127).
CONSTANTS
  NumKeys = 88
  NumLeds = 288
  RingBase = 226
  RingLen = 60
  NumChannels = 1
  BootColor <- MCBoot
  FirstColor <- MCFirst
  RainbowColor <- MCRainbow
  BootBrightness = 100
  DivByZero <- MCDivByZero
  Inputs = {2, 10, 96, 127}
SPECIFICATION Spec
INVARIANT ExtendInBounds
