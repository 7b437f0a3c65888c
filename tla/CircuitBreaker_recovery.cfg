SPECIFICATION FairSpec
CONSTANTS
  client1 = client1
  client2 = client2
  client3 = client3
  Caller = {client1, client2, client3}
  Threshold = 2
  ResetTimeout = 2
  MaxFailures = 3
  MaxResets = 1
  Flaps = 3
INVARIANTS
  TripsAtThreshold
PROPERTIES
  OpenRests
  Recovers
