SPECIFICATION Spec
CONSTANTS
  SamplesPerInsert = 3
  Unit = 2
  MinSizeToSample = 1
  MinDiff = 0
  MaxDiff = 6
  Keys = {k1, k2, k3}
  Episodes = {e1, e2}
  Priorities = {p}
  SamplerRejects = {}
  RemoverRejects = {}
  MaxSize = 2
  MaxTimesSampled = 2
  HasAsyncExtensions = TRUE
  InsertRequests = {i1, i2, i3}
  BlockingInserts = {}
  SampleRequests = {s1}
  FiniteDeadlines = {}
  Clients = {c1}
  MaxEnqueuedExtensionOps = 1
  None = None
  ChunkCount <- MCChunkCount
  BatchSize <- MCBatchSize
  Calls <- MutateOrDestroyCalls
  k1 = k1
  k2 = k2
  e1 = e1
  e2 = e2
  p = p
  bad = bad
  s1 = s1
INVARIANTS
  TypeOK
  SizeWithinBound
  SamplesRespectLimit
  NeverSamplesEmptyTable
  CursorWithinDiffs
  NeverBothBlocked
  ExtensionsFollowTable
  EpisodeRefsExact
SYMMETRY ThreadSymmetry
CHECK_DEADLOCK FALSE
