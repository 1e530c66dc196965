\* The requests of ab3418comm on a line without faults.
CONSTANTS
  Requests <- MCRequests
  Responses <- MCResponses
  MaxIndex = 9
  MaxFrames = 1
  MaxFaults = 0
SPECIFICATION FrameSpec
CHECK_DEADLOCK FALSE
INVARIANT RequestIsFramed
