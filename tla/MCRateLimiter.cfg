SPECIFICATION Spec
CONSTANTS
  Request = {q1, q2, q3, q4}
  Limit = 2
  Window = 2
  MaxClock = 4
  MaxFailures = 1
INVARIANTS RefusedIsJust LimitExact
SYMMETRY MCSymmetry
CHECK_DEADLOCK FALSE
