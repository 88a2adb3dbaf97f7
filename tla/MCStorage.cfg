SPECIFICATION Spec
CONSTANTS
  SamplesPerInsert = 1
  Unit = 1
  MinSizeToSample = 1
  MinDiff = 0
  MaxDiff = 10
  Keys = {1, 2, 3}
  Episodes = {"a", "b"}
  Priorities <- MCPriorities
  SamplerRejects <- MCRejected
  RemoverRejects = {}
  MaxSize = 2
  MaxTimesSampled = 2
  HasAsyncExtensions = FALSE
  None = None
  ChunkCount <- MCChunkCount
  ChunksOf <- MCChunksOf
  PriorityExponent = 2
  Removers = {"max_heap"}
  Fallbacks <- MCFallbacks
  Savers = {s1, s2}
  KeepLatest = 1
  MaxSaves = 2
  MaxOps = 2
  MaxStarts = 2
  UseKinds = {"fifo", "lifo", "uniform", "prioritized", "min_heap", "max_heap"}
  UsePriorities = {0, 1}
  MaxInserts = 6
  MaxChanges = 2
INVARIANTS
  SelectorsDrawRightly
  SavedCheckpointIsFound
  RestoreIsExact
  ServerStartsAgain
  LimiterCountsItems
SYMMETRY SaverSymmetry
CHECK_DEADLOCK FALSE
