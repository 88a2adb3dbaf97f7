SPECIFICATION Spec
CONSTANTS
  SamplesPerInsert = 1
  Unit = 1
  MinSizeToSample = 1
  MinDiff = 0
  MaxDiff = 2
  Keys = {k1, k2}
  Episodes = {e1, e2}
  Priorities = {p}
  SamplerRejects = {}
  RemoverRejects = {}
  MaxSize = 1
  MaxTimesSampled = 2
  HasAsyncExtensions = TRUE
  InsertRequests = {i1, i2}
  BlockingInserts = {}
  SampleRequests = {s1}
  FiniteDeadlines = {}
  Clients = {c1}
  MaxEnqueuedExtensionOps = 1
  None = None
  ChunkCount <- MCChunkCount
  BatchSize <- MCBatchSize
  Calls <- MutateOrResetCalls
  k1 = k1
  k2 = k2
  e1 = e1
  e2 = e2
  p = p
  bad = bad
  s1 = s1
INVARIANTS
  NeverSamplesEmptyTable
SYMMETRY ThreadSymmetry
CHECK_DEADLOCK FALSE
