SPECIFICATION Spec
CONSTANTS
  Cycle = 66
  FreeCycle = 60
  ForceOff <- MCForceOff
  Yellow <- MCYellow
  AllRed <- MCAllRed
  EarlyForceOff = {40, 45}
  MaxLag = 1
  MaxSilence = 7
  MaxRequests = 2
  MaxFree = 1
INVARIANTS CountdownRight ExtensionRed SavedRight PriorityIsGiven
