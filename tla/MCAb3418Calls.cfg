\* Up to two frames left over on the line of a probe or of another program.
CONSTANTS
  Ranges <- MCRanges
  Values <- MCValues
  MAX_BYTES = 2
  MAX_SHORT = 6
  MaxOver = 2
SPECIFICATION Spec
CHECK_DEADLOCK FALSE
INVARIANTS
  AnswerLag
  SubstitutedCell
PROPERTIES
  CallEnds
  ProbeEnds
