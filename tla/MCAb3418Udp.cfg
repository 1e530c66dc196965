\* Up to two answers that come too late, any number that is lost.
CONSTANTS
  Lamps <- MCLamps
  MaxLate = 2
SPECIFICATION Spec
INVARIANTS
  LagIsLate
  WholeStatus
  ColorsAgree
PROPERTY Stops
