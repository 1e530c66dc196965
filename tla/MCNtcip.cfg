SPECIFICATION Spec
CHECK_DEADLOCK FALSE
CONSTANTS
  Groups <- MCGroups
  Lamps <- MCLamps
  MaxAsked = 2
  MaxFaults = 1
  Junk <- MCJunk
  HitSets <- MCHits
INVARIANTS DbIsShown Aligned
PROPERTIES Recorded
