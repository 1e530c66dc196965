\* Four answers and two faults, with a buffer that one answer fills.
CONSTANTS
  Requests <- MCRequests
  Responses <- MCResponses
  MaxIndex = 9
  MaxFrames = 4
  MaxFaults = 2
SPECIFICATION FrameSpec
CHECK_DEADLOCK FALSE
INVARIANTS
  AcceptedWasSent
  ThreePerFault
  FlagsAreEscaped
PROPERTY ReadEnds
