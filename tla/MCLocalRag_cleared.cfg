CONSTANTS
  Scopes = {"common", "own"}
  Docs = 2
  ScopeOf <- TwoScopes
  Score <- Scores
  ChunkSize = 3
  Overlap = 1
  TopK = 1
  Words = {2, 4}
  Kinds = {"index", "query", "clear", "delete"}
  Stores = {"sqlite", "indexeddb"}
  Requests = 2
  Sessions = 2
SPECIFICATION Spec
INVARIANT ClearedIsGone
CHECK_DEADLOCK FALSE
