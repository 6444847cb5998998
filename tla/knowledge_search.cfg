SPECIFICATION Spec
CONSTANTS
  Backends = {b1, b2}
  Bytes = {"x", "X", "y", "L", "T", "percent", "underscore", "backslash"}
  Leads = {"L"}
  Trails = {"T"}
  Lower <- LowerCase
  VerifiesText = TRUE
  Contents <- Notes
  Queries <- Words
  ChunkSizes <- SizeOptions
  SmallestChunk = 2
  Limits <- LimitOptions
  Distance <- LengthDistance
  MaxDocuments = 2
  MaxSearches = 1
SYMMETRY BackendSymmetry
INVARIANTS TypeOK SearchesSeeWholeDocuments WordsAreFound RefusedForSplitCharacters
\* Clients stop after MaxDocuments documents and MaxSearches searches.
CHECK_DEADLOCK FALSE
