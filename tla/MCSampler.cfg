SPECIFICATION Spec
CONSTANTS
  Options <- MCOptions
  MaxSamples = 2
  MaxSamplesPerStream = 2
  InitialSampleBatchSize = 1
  InitialGrpcSampleBatchSize = 1
  MaxQueuedResponses = 2
  Streams = {1, 2}
  Samples = {1, 2, 3}
  TableErrors = {"timeout"}
  Timesteps = 2
  Incompatible = {3}
  Split = {3}
  LargeChunks <- MCLargeChunks
  None = None
  NoSample = NoSample
INVARIANTS
  ReservationsMatch
  BudgetExact
  WaitingConsumerIsServed
  OrderKept
  WritesAreExclusive
  CloseReachesEveryWorker
PROPERTIES
  ImplementsSource
CHECK_DEADLOCK FALSE
