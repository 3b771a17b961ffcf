\* Two presets with opposite switches and one fault: a byte lost, or the board
\* powered off and on, at any point of any message.
CONSTANTS
  NumKeys = 3
  NumChannels = 3
  NumColors = 2
  NumSets = 2
  Palettes <- MCPalettes2
  Presets <- MCPresets2
  Brights = {60, 300}
  Spreads = {}
  Times = {4}
  BackBrights = {64, 0}
  EffectWidth = 1
  Notes = {}
  CommuTail <- MCTail
  LineCap = 0
  Inputs = {}
  NumLeds = 10
  RingBase = 7
  RingLen = 2
  BootColor <- MCBlack
  FirstColor <- MCBlack
  RainbowColor <- MCBlack
  BootBrightness = 100
  DivByZero <- MCDivByZero
  MaxFaults = 1
  MaxChanged = 0
SPECIFICATION PianoSpec
VIEW MCView
INVARIANTS ConfigInSync  
CONSTRAINTS MCNearPreset MCFewDrifts MCNoRainbow
