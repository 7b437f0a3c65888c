SPECIFICATION FairSpec
CONSTANTS
  callA = callA
  callB = callB
  callC = callC
  Call = {callA, callB, callC}
  Nobody = Nobody
  Size = 2
  MaxPending = 1
  MaxRespawns = 1
  MaxLost = 2
  Notices = {1, 2}
INVARIANTS
  TypeOK
  ResultsBelong
  NoLeakedThread
PROPERTIES
  CallsAnswered
CHECK_DEADLOCK FALSE
