SPECIFICATION FairSpec
CONSTANTS
  call1 = call1
  call2 = call2
  call3 = call3
  proc1 = proc1
  proc2 = proc2
  body1 = body1
  body2 = body2
  Call = {call1, call2, call3}
  Process = {proc1, proc2}
  Home <- Homes
  Body <- Bodies
  Mode <- AllModes
  Ttl = 2
  Wait <- Waits
  Keep = 1
  Events <- OneEvent
  Nobody = Nobody
  None = None
  Error = Error
  Conflict = Conflict
INVARIANTS
  TypeOK
  OneAtATime
  OneEffect
PROPERTIES
  StaleHeals
  EveryCallAnswered
CHECK_DEADLOCK FALSE
