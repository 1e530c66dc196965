SPECIFICATION Spec
CONSTANTS
  CommandLines <- MCCommandLines
  Lane <- MCLane
  Commands <- MCCommands
  Requests <- MCRequests
  Moments <- MCMoments
  FirstSetting <- MCFirstSetting
  MaxCommands = 3
  MaxFaults = 2
  MaxFds = 3
INVARIANTS NoControlHeld PollsDoNotLeak
PROPERTIES ExitGivesBack GivenBack
