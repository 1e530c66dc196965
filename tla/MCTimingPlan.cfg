SPECIFICATION DaySpec
CONSTANTS
  Hours = 4
  Minutes = 2
  Plan = {1, 2}
  Limit = 4
INVARIANTS
  PlanInEffect
