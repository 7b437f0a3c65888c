SPECIFICATION FairSpec
CONSTANTS
  jobA = jobA
  jobB = jobB
  jobC = jobC
  thenJob = thenJob
  catchJob = catchJob
  finallyJob = finallyJob
  queue1 = queue1
  queue2 = queue2
  host1 = host1
  host2 = host2
  run1 = run1
  run2 = run2
  batch1 = batch1
  key1 = key1
  Job = {jobA}
  Queue = {queue1}
  Batch = {}
  NoBatch = NoBatch
  DebounceKey = {}
  NoKey = NoKey
  Visibility = 2
  Def <- LoneDef
  Solo = {jobA}
  BatchDef <- NoBatches
  Registered = {jobA}
  Unbuildable = {}
  DefaultPolicy <- Fallback
  QueueList <- OneQueue
  Process = {host1}
  Runner = {run1}
  Host <- OneHost
  CommandLoop = {}
  Pooled = {host1}
  Admin = {host1, host2}
  DrainLimit = 1
  Faults <- Operations
  Nobody = Nobody
PROPERTIES
  EveryJobSettles
CHECK_DEADLOCK FALSE
