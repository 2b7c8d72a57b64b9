CONSTANTS
  None = None
  Keys = {k1, k2}
  Versions = {1, 2, 3}
  Texts = {"plain", "spaced"}
  Paddings = {TRUE, FALSE}
  MaxU32 = 2
  Stores = {s1, s2}
  Models = {m1, m2}
  Hashes = {h1, h2}
SPECIFICATION Spec
SYMMETRY Symmetry
INVARIANTS
  TypeOK
  KeysSurvive
  VaultOpensItems
  ModelBelongsToStore
PROPERTIES
  ReadyVaultStarts
