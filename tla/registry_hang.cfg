SPECIFICATION FairSpec
CONSTANTS
  Backends = {b1, b2}
  Names = {n1}
  NoBackend = NoBackend
  Keys = {}
  NoKey = NoKey
  Quality = {"good", "bad"}
  Ops = {"add", "chat"}
  MaxCalls = 3
PROPERTIES EveryCallReturns
\* Clients stop after MaxCalls calls.
CHECK_DEADLOCK FALSE
