SPECIFICATION Spec
CONSTANTS
  N = 3
  Channel <- MCChannel
  WithCallback = {0}
  Restarted = {1}
  Period = {1, 2}
  Delay = {}
  CountWidth = 32
  SecWidth = 2
  TickWidth = 6
  SetLevels = {2}
  Stamp = {1}
  EtimerDelay = {}
  NoEtimer = NoEtimer
  MaxSets = 1
  MaxNest = 2
INVARIANTS
  SecondHasNTicks
  NotReentered
  ChannelOnTime
  FullSecondAtReset
  CallbacksOnAgain
PROPERTIES
  TimeMovesForward
