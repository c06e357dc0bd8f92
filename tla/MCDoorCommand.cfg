SPECIFICATION Spec
CONSTANTS
  c1 = c1
  c2 = c2
  c3 = c3
  q1 = q1
  Senders = {c1, c2}
  Setters = {c3}
  Queries = {q1}
  MaxRough = 3
SYMMETRY Symmetry
INVARIANTS TypeOK EveryErrorIsReal ExactVerdict StatusIsOwn CalmQueriesExact
