\* Two timers and two calls of Pt_Stop, so that one timer is restarted; two
\* sessions of portmidi; two devices in steps of one.
CONSTANTS
  Platforms = {"linux", "mach", "cf", "winmm"}
  MaxTimers = 2
  MaxStops = 2
  Found <- MCFound
  Inputs <- MCInputs
  Growth = 1
  Ids <- MCIds
  MaxSessions = 2
SPECIFICATION Spec
INVARIANTS DevicesKeepTheirPlace OpenedHasOneStream NothingIsLeftBehind NoCallAfterStop
PROPERTIES StopIsHeard KeepsCalling
CHECK_DEADLOCK FALSE
