SPECIFICATION Spec
CONSTANTS
  c1 = c1
  c2 = c2
  Calls = {c1, c2}
  Histories = {c1, c2}
  Margin = 1
  Floor = 1
  DefaultExpiry = 3
  Grants = {2}
  Unread = {2}
  InfoDelay = 1
  MessageDelay = 2
  MaxClock = 6
SYMMETRY Symmetry
INVARIANTS TypeOK OverrunBounded StampFresh
PROPERTY ImplementsAtMostOnce
