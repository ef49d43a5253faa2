SPECIFICATION Spec
CONSTANTS
  N = 3
  Channel <- MCOneChannel
  WithCallback = {0}
  Restarted = {0}
  Period = {1, 2}
  Delay = {2}
  CountWidth = 32
  SecWidth = 2
  TickWidth = 6
  SetLevels = {0}
  Stamp = {0}
  EtimerDelay = {}
  NoEtimer = NoEtimer
  MaxSets = 1
  MaxNest = 2
INVARIANTS
  MainHasInterrupts
