SPECIFICATION TFairSpec
CONSTANTS
  Phase = {2}
  Plan = {1, 3}
  GreenLen <- MCGreenLen
  YellowLen <- MCYellowLen
  CycleLen <- MCCycleLen
  TimingType <- MCTimingType
  SniffGreen = TRUE
  SniffYellow = TRUE
  Sources = {1, 2, 3}
  Sites <- OneKindEach
  Readings <- GreenOrLit
  Period = 1
  TenthsPerTick = 2
  MaxAge = 5
  GarbageBit = {0, 7}
  GarbageAge <- OneAge
  GarbageColor = {77}
  GarbageLamps <- GreenOrNot
  GarbageSource = {0, 2}
INVARIANTS
  TTypeOK
  GreenOnlyInv
  StartUnknownWhenTriggeredFirst
  YellowWindow
  BroadcastAgrees
  CountdownAnchored
PROPERTIES
  ColorOrder
  YellowEnds
