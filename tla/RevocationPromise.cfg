CONSTANTS
  None = None
  i1 = i1
  i2 = i2
  s1 = s1
  s2 = s2
  c1 = c1
  c2 = c2
  c3 = c3
  Identities = {i1}
  Keys = {k1}
  Sessions = {s1, s2}
  Challenges = {c1, c2}
  Requests = {r1, r2}
  SessionIdentity <- OneIdentity
SPECIFICATION Spec
SYMMETRY Symmetry
INVARIANTS
  RevokedDeviceHasNoActiveSession
