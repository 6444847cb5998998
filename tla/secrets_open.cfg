SPECIFICATION Spec
CONSTANTS
  Bytes = {0, 1}
  IvLength = 1
  TagLength = 1
  Plains <- NoAndOneByte
  Keys = {k1, k2}
  NoKey = NoKey
  MaxSecrets = 2
INVARIANTS SealedOpens
