SPECIFICATION Spec
CONSTANTS
  Programs <- MCPrograms
  Exits = {"jmpreg"}
  Branches = {"jcc"}
  MaxEdits = 2
  MaxWrites = 2
  IdMultiple = 4
  SCOOP_CHUNK_SIZE = 3
  SCOOP_THRESHOLD = 4
  FullChunks = TRUE
INVARIANT ScoopsReadBack
