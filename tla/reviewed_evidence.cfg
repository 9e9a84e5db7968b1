SPECIFICATION Spec
CONSTANTS
  ask = ask
  Receipt = {r1, r2}
  Table = {t1, t2}
  Question = {ask}
  Pack = {plain, extended}
  QuestionOf <- SameQuestion
  MaxRuns = 1
  None = None
SYMMETRY Symmetry
CHECK_DEADLOCK FALSE
INVARIANTS ConfirmedAnswersAgree CurrentIsReviewed
PROPERTY AuditedForGood
