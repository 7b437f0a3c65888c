SPECIFICATION FairSpec
CONSTANTS
  jobA = jobA
  jobB = jobB
  jobC = jobC
  key1 = key1
  work1 = work1
  work2 = work2
  Job = {jobA, jobB, jobC}
  Key = {key1}
  NoKey = NoKey
  Def <- MixedDef
  Worker = {work1, work2}
  Visibility = 2
  Faults <- OneCrash
  None = None
  Dispatched = 2
INVARIANTS
  OnePlace
PROPERTIES
  ImplementsQueue
  EveryTaskSettles
CHECK_DEADLOCK FALSE
