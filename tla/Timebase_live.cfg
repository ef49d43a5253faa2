SPECIFICATION FairSpec
CONSTANTS
  N = 3
  Channel <- MCOneChannel
  WithCallback = {}
  Restarted = {}
  Period = {}
  Delay = {2}
  CountWidth = 32
  SecWidth = 7
  TickWidth = 21
  SetLevels = {}
  Stamp = {}
  EtimerDelay = {1}
  NoEtimer = NoEtimer
  MaxSets = 0
  MaxNest = 1
PROPERTIES
  SingleShotExpires
  EtimerPosted
