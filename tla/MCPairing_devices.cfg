SPECIFICATION Spec
CONSTANTS
  d1 = d1
  d2 = d2
  Doors = {d1, d2}
  MaxAttempts = 1
INVARIANT EveryDeviceListed
