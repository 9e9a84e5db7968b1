SPECIFICATION Spec
CONSTANTS
  p1 = p1
  p2 = p2
  w1 = w1
  w2 = w2
  edit = edit
  Widget = {w1, w2}
  Plan = {p1, p2}
  Change <- MCChange
  Body <- MCBody
  MaxCalls = 3
  MaxFailures = 1
  MaxEntries = 2
  Refused = Refused
  None = None

SYMMETRY MCSymmetry
INVARIANTS OncePerIntent ShownIsAcknowledged
CHECK_DEADLOCK FALSE
