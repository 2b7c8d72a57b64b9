CONSTANTS
  None = None
  Flows = {f1, f2}
  Keys = {k1, k2}
  Sessions = {s1, s2}
  Users = {u1, u2}
SPECIFICATION Spec
SYMMETRY Symmetry
INVARIANTS
  TypeOK
  TrustedKeysAreKept
PROPERTIES
  UsableKeysAreNotCleared
