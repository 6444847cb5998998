SPECIFICATION FairSpec
CONSTANTS
  Backends = {b1, b2}
  Sessions = {s1}
  NoBackend = NoBackend
  Caps <- RefusedNoneAndMore
  Timeouts = {0}
  Ops = {"create", "chat", "set_max", "set_state", "delete"}
  MaxClock = 0
  MaxCalls = 5
  CallsPerTxn = 1
INVARIANTS HistoryWithinOfferedCap
PROPERTIES ActsAsBoundedHistory EveryCallEnds
\* Clients stop after MaxCalls calls.
CHECK_DEADLOCK FALSE
