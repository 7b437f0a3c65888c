SPECIFICATION Spec
CONSTANTS
  jobA = jobA
  jobB = jobB
  jobC = jobC
  thenJob = thenJob
  catchJob = catchJob
  finallyJob = finallyJob
  queue1 = queue1
  queue2 = queue2
  host1 = host1
  host2 = host2
  run1 = run1
  run2 = run2
  batch1 = batch1
  key1 = key1
  Job = {jobA, jobB}
  Queue = {queue1, queue2}
  Batch = {}
  NoBatch = NoBatch
  DebounceKey = {key1}
  NoKey = NoKey
  Visibility = 2
  Def <- DebounceDef
  Solo = {jobA, jobB}
  BatchDef <- NoBatches
  Registered = {jobA, jobB}
  Unbuildable = {}
  DefaultPolicy <- Fallback
  QueueList <- TwoQueues
  Process = {host1, host2}
  Runner = {run1, run2}
  Host <- TwoHosts
  CommandLoop = {run1}
  Pooled = {}
  Admin = {host1}
  DrainLimit = 1
  Faults <- CrashErrorOrConsole
  Nobody = Nobody
INVARIANTS
  TypeOK
  NoDoubleProcessing
  NoJobLost
  KeysUnique
CHECK_DEADLOCK FALSE
