SPECIFICATION Spec
CONSTANTS
  Keys = {k1, k2, k3}
  NoKey = NoKey
INVARIANTS
  KeptIsInFile
  MadeIsDurable
PROPERTIES
  SameIdentity
