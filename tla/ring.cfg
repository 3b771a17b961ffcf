\* One key that lights LEDs (key 2 of three), a circle of two LEDs right above
\* the bar, and any sequence of the key, the key above it ("clear"), every other
\* command, and the parameter 5.  Each byte may also be a parameter.
CONSTANTS
  NumKeys = 3
  NumLeds = 11
  RingBase = 7
  RingLen = 2
  NumChannels = 1
  BootColor <- MCBoot
  FirstColor <- MCRing
  RainbowColor <- MCRainbow
  BootBrightness = 100
  DivByZero <- MCDivByZero
  Inputs = {2, 3, 4, 5, 6, 7, 8, 9, 10, 11, 12, 13, 14, 15, 16, 17, 18, 40, 42}
CONSTRAINT MCFewAway
SPECIFICATION Spec
INVARIANTS TypeOK RingErasesBehind
