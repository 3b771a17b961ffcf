\* Two neighbouring keys that light LEDs (2 and 3 of four), every command the
\* bar reacts to, and one value of each parameter: colour 10 beside the 5 of
\* FirstColor, two neighbours, two ticks.  2 is also a key, 10 is also
\* "rainbow on".
CONSTANTS
  NumKeys = 4
  NumLeds = 12
  RingBase = 9
  RingLen = 1
  NumChannels = 1
  BootColor <- MCColor
  FirstColor <- MCColor
  RainbowColor <- MCRainbow
  BootBrightness = 100
  DivByZero <- MCDivByZero
  Inputs = {2, 3, 4, 5, 6, 10, 11, 12, 14, 15, 16, 17, 18, 19, 41, 43}
  Levels = {10}
  Spreads = {2}
  Times = {2}
  MaxTicks = 3
SPECIFICATION FairUse
CONSTRAINT MCNoCircle
INVARIANTS BarIsSumOfHeld FadeCovers
PROPERTY EveryReleaseFades
