\* Two presets, "set select" among the commands, no faults.
CONSTANTS
  NumKeys = 3
  NumChannels = 3
  NumColors = 2
  NumSets = 2
  Palettes <- MCPalettes2
  Presets <- MCPresets2
  Brights = {60}
  Spreads = {}
  Times = {4}
  BackBrights = {64}
  EffectWidth = 1
  Notes = {}
  CommuTail <- MCTail
  LineCap = 0
  Inputs = {}
  NumLeds = 10
  RingBase = 7
  RingLen = 2
  BootColor <- MCBlack
  FirstColor <- MCBlack
  RainbowColor <- MCBlack
  BootBrightness = 100
  DivByZero <- MCDivByZero
  MaxFaults = 0
  MaxChanged = 1
SPECIFICATION PianoSpec
VIEW MCView
PROPERTY PresetsKeepApart
CONSTRAINT MCNearPreset
