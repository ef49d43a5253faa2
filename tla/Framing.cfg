SPECIFICATION Spec
CONSTANTS
  Width = 8
  Start = 5
  Preamble <- MCPreamble
  HeaderLen = 4
  BufSize = 15
  Length = {5, 7, 9}
  Filling = {0, 5}
  MaxPackets = 2
  MaxLost = 3
CHECK_DEADLOCK FALSE
INVARIANTS
  WithinBuffer
  LossStaysLocal
