SPECIFICATION FairSpec
CONSTANTS
  tcpip = tcpip
  receiver = receiver
  manager = manager
  periodic = periodic
  retransmission = retransmission
  resource = resource
  None = None
  Proc <- MCProc
  Callee <- MCCallee
  Timer <- MCTimer
  Home <- MCHome
  Borrowed <- MCBorrowed
  Interval <- MCInterval
  NumEvents = 2
  MaxCalls = 2
  MaxLate = 1
  MaxBusy = 2
INVARIANTS
  NoTimerForgotten
  OwnedByHome
PROPERTIES
  NoEventDropped
  TimersFire
