CONSTANTS
  None = None
  Logins = {l1, l2}
  Codes = {c1, c2, c3}
  Subjects = {u1, u2}
  Sessions = {s1, s2}
  Requests = {r1, r2, r3}
SPECIFICATION Spec
SYMMETRY Symmetry
INVARIANTS
  TypeOK
  SessionIsProvisioned
  BootstrapFindsOwner
PROPERTIES
  ImplementsSignIn
