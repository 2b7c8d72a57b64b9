CONSTANTS
  None = None
  Identities = {u1, u2}
  Items = {i1, i2}
  Versions = {v1, v2, v3}
  Nodes = {n1, n2}
  Requests = {r1, r2, r3}
SPECIFICATION Spec
SYMMETRY Symmetry
INVARIANTS
  TypeOK
  EveryItemOpensEverywhere
PROPERTIES
  RetiredKeysStayUnused
  ImplementsSecretStore
