\* One preset, a lossless line, every switch, command and rainbow, one key (2) and
\* the byte 3, which is the key above it and "clear".
CONSTANTS
  NumKeys = 3
  NumChannels = 2
  NumColors = 2
  NumSets = 1
  Palettes <- MCPalettes1
  Presets <- MCPresets1
  Brights = {60}
  Spreads = {1}
  Times = {}
  BackBrights = {64, 0}
  EffectWidth = 1
  Notes = {2, 3}
  CommuTail <- MCTail
  LineCap = 0
  Inputs = {}
  NumLeds = 10
  RingBase = 7
  RingLen = 2
  BootColor <- MCBlack
  FirstColor <- MCBlack
  RainbowColor <- MCBlack
  BootBrightness = 100
  DivByZero <- MCDivByZero
  MaxFaults = 0
  MaxChanged = 1
SPECIFICATION PianoSpec
VIEW MCView
INVARIANTS ConfigInSync FlagsFollowKeys
CONSTRAINT MCNearBackground
