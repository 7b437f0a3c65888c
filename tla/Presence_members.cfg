SPECIFICATION FairSpec
CONSTANTS
  alice = alice
  bob = bob
  a1 = a1
  a2 = a2
  b1 = b1
  b2 = b2
  Client = {alice, bob}
  Conn = {a1, a2, b1, b2}
  Owner <- Owners
  First <- Firsts
  Signing <- Both
  Events <- Prompt
  None = None
INVARIANTS
  OneConnection
  NoGhost
  ViewsAgree
PROPERTIES
  MembershipFollows
CHECK_DEADLOCK FALSE
