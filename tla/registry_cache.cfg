SPECIFICATION Spec
CONSTANTS
  Backends = {b1, b2}
  Names = {n1, n2}
  NoBackend = NoBackend
  Keys = {k1}
  NoKey = NoKey
  Quality = {"good", "bad"}
  Ops = {"add", "remove", "chat", "stream", "set"}
  MaxCalls = 4
SYMMETRY RegistrySymmetry
INVARIANTS TypeOK CommittedRowsInitialize StaleOnlyThroughOthersOrRollback
\* Clients stop after MaxCalls calls.
CHECK_DEADLOCK FALSE
