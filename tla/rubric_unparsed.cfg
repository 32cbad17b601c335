\* An upload, an activation and a check.
SPECIFICATION Spec
CONSTANTS
  None = None
  Initial = 1
  LastId = 2
  Requests = {q1, q2, q3}
  Programs = {p1}
  MaxDeaths = 0
PROPERTY PinnedUnchanged
CHECK_DEADLOCK FALSE
