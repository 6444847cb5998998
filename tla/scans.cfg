SPECIFICATION Spec
CONSTANTS
  Portals = {p1, p2}
  NoPortal = NoPortal
  Queries <- Statements
  Replies <- Streamable
  MaxStored = 2
  ChunkSize = 2
  MockChunkSize = 1
SYMMETRY PortalSymmetry
INVARIANTS TypeOK HoldingsBalance FromScansWhole TakenFromLater UndefinedExplained ReadersFinishTheirOwn StreamsSpellTheirReply
\* Clients stop after the statements of Portals.
CHECK_DEADLOCK FALSE
