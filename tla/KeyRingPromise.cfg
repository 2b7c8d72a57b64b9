CONSTANTS
  None = None
  Keys = {k1, k2, k3}
  Versions = {1, 2}
  Texts = {"plain", "spaced"}
  Paddings = {TRUE}
  MaxU32 = 2
  Stores = {s1}
  Models = {m1}
  Hashes = {h1}
SPECIFICATION Spec
SYMMETRY Symmetry
INVARIANTS
  ValidRingsKeepItems
