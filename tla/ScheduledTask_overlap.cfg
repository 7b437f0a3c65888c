SPECIFICATION FairSpec
CONSTANTS
  run1 = run1
  run2 = run2
  run3 = run3
  run4 = run4
  host1 = host1
  host2 = host2
  Run = {run1, run2, run3, run4}
  Host = {host1, host2}
  Home <- Homes
  Ttl = 2
  Faults <- TwoFaults
  Nobody = Nobody
  None = None
INVARIANTS
  NoOverlap
  ReleasedWhenDone
PROPERTIES
  LockComesBack
CHECK_DEADLOCK FALSE
