CONSTANTS
  None = None
  Keys = {k1}
  Versions = {1}
  Texts = {"plain"}
  Paddings = {TRUE}
  MaxU32 = 2
  Stores = {s1, s2, s3}
  Models = {m1, m2, m3}
  Hashes = {h1, h2}
SPECIFICATION Spec
SYMMETRY Symmetry
INVARIANTS
  ReadyStoreHasItsModel
