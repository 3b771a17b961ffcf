\* A client that polls and reads as it likes.
CONSTANTS
  Capacity = 2
  Gap = Gap
  Messages <- MCMessages
  Shorts <- MCShorts
  Sysexes <- MCSysexes
  Filters <- MCFilters
  MaxCuts = 1
SPECIFICATION Spec
INVARIANTS TypeOK  
 
CONSTRAINT MCFewClocks
