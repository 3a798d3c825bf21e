SPECIFICATION Spec
CONSTANTS
  r1 = r1
  r2 = r2
  Results = {r1, r2}
  Sizes <- MCSizes
  MaxResults = 2
  MaxCalls = 2
INVARIANTS ResultsInOrder
\* A test ends.
CHECK_DEADLOCK FALSE
