CONSTANTS
  None = None
  Ceremonies = {c1, c2, c3}
  Total = 3
  Required = {0, 2}
  Gateways = {g1, g2}
  Requests = {r1, r2}
SPECIFICATION Spec
SYMMETRY Symmetry
INVARIANTS
  TypeOK
  ProgressCountsAdvances
  CompletedCeremonyIsDone
PROPERTIES
  AcceptedAdvanceIsCurrent
  ImplementsCeremony
