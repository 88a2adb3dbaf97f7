SPECIFICATION Spec
CONSTANTS
    None = None
    Kinds = {"trajectory", "tuned", "streaming", "writer", "structured"}
    Tables = {"t"}
    MaxEnqueuedInserts = 1
    Streams = {1, 2}
    BreakStatuses = {"unavailable", "unknown"}
    ChunkerOptions <- MCChunkerOptions
    LargeChunks <- MCLargeChunks
    ItemLengths <- MCItemLengths
    Strides = {1}
    ItemTables <- MCItemTables
    SignatureTables = {"t", "u"}
    Increments <- MCIncrements
    Ignored = {1}
    NumItemsToScore = 1
    ChunkLength = 2
    MaxTimesteps = 3
    MaxInFlightItems = 1
    Configs <- MCConfigs
    Columns <- MCColumns
    Values <- MCValues
    MaxSteps <- MCMaxSteps
    MaxItems <- MCMaxItems
    MaxEpisodes <- MCMaxEpisodes
INVARIANTS
  ServerFindsChunks
  NothingLostSilently
  ReadingResumes
  ReferencesAreUsable
  ItemsDenoteCells
  PatternsExact
CHECK_DEADLOCK FALSE
