SPECIFICATION FairSpec
CONSTANTS
  jobA = jobA
  jobB = jobB
  jobC = jobC
  thenJob = thenJob
  catchJob = catchJob
  finallyJob = finallyJob
  queue1 = queue1
  queue2 = queue2
  host1 = host1
  host2 = host2
  run1 = run1
  run2 = run2
  batch1 = batch1
  key1 = key1
  Job = {jobA, jobB, jobC, thenJob, catchJob, finallyJob}
  Queue = {queue1}
  Batch = {batch1}
  NoBatch = NoBatch
  DebounceKey = {}
  NoKey = NoKey
  Visibility = 2
  Def <- BatchJobDef
  Solo = {}
  BatchDef <- OneBatch
  Registered = {jobA, jobB, jobC, catchJob, finallyJob}
  Unbuildable = {jobC, catchJob}
  DefaultPolicy <- Fallback
  QueueList <- OneQueue
  Process = {host1, host2}
  Runner = {run1, run2}
  Host <- TwoHosts
  CommandLoop = {run1}
  Pooled = {}
  Admin = {}
  DrainLimit = 1
  Faults <- OneCrash
  Nobody = Nobody
INVARIANTS
  ChainOrdered
  AttemptsHonoured
  BatchCallbacksSound
PROPERTIES
  SuccessStands
  WorkflowProceeds
CHECK_DEADLOCK FALSE
