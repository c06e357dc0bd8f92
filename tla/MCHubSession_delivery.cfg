SPECIFICATION Spec
CONSTANTS
  c1 = c1
  c2 = c2
  k1 = k1
  Calls = {c1, c2}
  Connects = {k1}
  NoOne = NoOne
  Lifetime = 1
  Throttles = {0, 1}
  Faults = {"error", "garbled", "noSecret"}
  Cancellable = {c1, c2}
  Uptimes = {0}
  MaxClock = 1
SYMMETRY Symmetry
INVARIANTS TypeOK OneCallAtATime ExecutedAtMostOnce
PROPERTY ImplementsAtMostOnce
