SPECIFICATION FairSpec
CONSTANTS
  c1 = c1
  c2 = c2
  k1 = k1
  Calls = {c1, c2}
  Connects = {}
  NoOne = NoOne
  Lifetime = 1
  Throttles = {0, 1}
  Faults = {"denied", "error", "garbled", "noSecret", "badLimit"}
  Cancellable = {c1}
  Uptimes = {1}
  MaxClock = 3
INVARIANTS RetryUsesOwnSession TornSessionUnused
PROPERTIES SessionAccessSerialized RateLimitRespected EveryOpEnds
