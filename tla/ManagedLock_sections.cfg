SPECIFICATION FairSpec
CONSTANTS
  lockA = lockA
  lockB = lockB
  Lock = {lockA, lockB}
  Nobody = Nobody
  Ttl = 2
  Every = 1
  Timeout = 2
  Settings <- AllDrivers
INVARIANTS
  TypeOK
  TrustedExclusive
  LossNoticed
  NothingLeftHeld
PROPERTIES
  Unblocks
  KeepsPromise
CHECK_DEADLOCK FALSE
