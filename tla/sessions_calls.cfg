SPECIFICATION Spec
CONSTANTS
  Backends = {b1, b2, b3}
  Sessions = {s1, s2}
  NoBackend = NoBackend
  Caps = {1, 3}
  Timeouts = {0, 1}
  Ops = {"create", "chat", "delete", "cleanup", "set_state", "set_max"}
  MaxClock = 2
  MaxCalls = 4
  CallsPerTxn = 2
SYMMETRY FullSymmetry
INVARIANTS TypeOK HistoryWithinCap RetainedAreNewest TurnsWhole NoOrphans LockDiscipline CleanupSparesActive CyclesGoThroughDeletedRows
PROPERTIES AnswersInCommitOrder
\* Clients stop after MaxCalls calls.
CHECK_DEADLOCK FALSE
