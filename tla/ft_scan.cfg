SPECIFICATION FairSpec
CONSTANTS
  Paths <- MCPaths
  Watched <- MCWatched
  Order <- MCOrder
  MaxNodes = 5
  MaxChanges = 4
INVARIANTS TypeOK MemoryIsSound ToldWhatTreeHolds ScansWhatIsWatched QuietScanIsExact
PROPERTIES ListenerCatchesUp
