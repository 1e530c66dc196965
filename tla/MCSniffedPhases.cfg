SPECIFICATION SSpec
CONSTANTS
  Phase = {2}
  Plan = {1}
  GreenLen <- ShortLen
  YellowLen <- MCYellowLen
  CycleLen <- NoCycle
  TimingType <- MCTimingType
  SniffGreen = TRUE
  SniffYellow = FALSE
  Sources = {3}
  Readings <- DarkOnly
  Period = 1
  TenthsPerTick = 2
  MaxAge = 12
  GarbageBit = {0}
  GarbageAge = {0}
  GarbageColor = {0}
  GarbageLamps <- DarkOnly
  GarbageSource = {0}
  Wire <- GreenWires
  PollPeriod = 1
  MinShow = 1
  MaxDelay = 2
INVARIANTS
  GreenPrompt
  TriggersNotStale
  YellowEndToEnd
