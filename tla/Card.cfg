SPECIFICATION FairSpec
CONSTANTS
  s1 = s1
  p1 = p1
  p2 = p2
  Blank = Blank
  Slot <- MCSlot
  Packet <- MCPacket
  AccessSize = 2
  MaxChanges = 3
  MaxRestarts = 1
INVARIANTS
  DriverAsserts
  InUseWhileHeld
  WholeUnlessFailed
PROPERTIES
  
  CardFound
