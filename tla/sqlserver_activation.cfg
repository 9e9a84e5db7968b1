SPECIFICATION SqlSpec
CONSTANTS
  p1 = p1
  p2 = p2
  k1 = k1
  k2 = k2
  i1 = i1
  Null = Null
  Plan = {p1}
  Activation = {k1, k2}
  Import = {i1}
  MaxReads = 2
  MaxEvents = 2
INVARIANTS ActivationIsProven
PROPERTIES SealedStays CommittedIsFinalized
CHECK_DEADLOCK FALSE
