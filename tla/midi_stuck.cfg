\* Effect_Piano's loop as the client.
CONSTANTS
  Capacity = 2
  Gap = Gap
  Messages <- MCMessages
  Shorts <- MCShorts
  Sysexes <- MCSysexes
  Filters <- MCFilters
  MaxCuts = 0
SPECIFICATION HostSpec
PROPERTY OverflowEnds
