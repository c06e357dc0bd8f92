SPECIFICATION Spec
CONSTANTS
  c1 = c1
  c2 = c2
  Calls = {c1}
  Histories = {}
  Margin = 1
  Floor = 1
  DefaultExpiry = 60
  Grants = {60}
  Unread = {}
  InfoDelay = 1
  MessageDelay = 2
  MaxClock = 2
PROPERTY AuthErrorMeansRejected
