SPECIFICATION FairSpec
CONSTANTS
  N = 2
  MaxSlot = 3
  Junk = {0, 3}
  Capacity = 2
  MaxPass = 3
  MaxAir = 2
INVARIANTS
  QuietReadIsWhole
PROPERTIES
  ShownMixture
  LastPassShown
