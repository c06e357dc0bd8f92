SPECIFICATION Spec
CONSTANTS
  c1 = c1
  c2 = c2
  k1 = k1
  Calls = {c1}
  Connects = {}
  NoOne = NoOne
  Lifetime = 1
  Throttles = {0, 1}
  Faults = {}
  Cancellable = {}
  Uptimes = {0}
  MaxClock = 1
PROPERTY RejectedTwiceIsAuthError
