SPECIFICATION FairSpec
CONSTANTS
  Conns = {1, 2}
  AuthTokens = {"token-0"}
  Anonymous = "anonymous"
  MaxConnectionsTotal = 2
  MaxConnectionsPerToken = 1
  Capacity = 1
INVARIANTS
  LiveBounded
PROPERTIES
  EntryReturned
  DrainEnds
CHECK_DEADLOCK FALSE
