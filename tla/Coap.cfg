SPECIFICATION Spec
CONSTANTS
  Client = {c1, c2}
  NoClient = NoClient
  Block = {b1, b2, b3}
  NoBlock = NoBlock
  Slot <- MCSlot
  Mid <- MCMid
  NoMid = 0
  MaxRetransmit = 2
  Timeout = {1}
  Refresh = 4
  QueueMax = 2
  MaxJumps = 1
  Jump = {4}
SYMMETRY Symmetry
INVARIANTS
  NoBlockLeaked
  RetryPending
  RoomForRequests
  OpenPacketIntact
PROPERTIES
  SilentClientForgotten
