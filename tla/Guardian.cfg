CONSTANTS
  None = None
  Sent <- MCSent
  Claims = {0, 255}
  Sessions = {s1}
  Requests = {r1, r2}
SPECIFICATION Spec
SYMMETRY Symmetry
INVARIANTS
  TypeOK
  RiskIsMonotone
  CreditIsBounded
  AnswersAreRecorded
