SPECIFICATION AcqSpec
CONSTANTS
  N = 3
  Channel <- MCChannel
  WithCallback = {0}
  Restarted = {}
  Period = {1}
  Delay = {1}
  CountWidth = 32
  SecWidth = 4
  TickWidth = 12
  SetLevels = {}
  Stamp = {}
  EtimerDelay = {}
  NoEtimer = NoEtimer
  MaxSets = 0
  MaxNest = 1
  HeaderAt = {1}
  Slots = 2
  Wanted = {1}
  Faults = {}
  Late = 1
  Blank = Blank
INVARIANTS
  EmptyOnlyIfMissing
