SPECIFICATION FairSpec
CONSTANTS
  Size = 4
  TxByte <- MCOneByte
  RxByte <- MCOneByte
  Zero = 0
  None = None
INVARIANTS
  NoLostWakeup
  StartedListens
PROPERTIES
  TxIsFifo
  SpinEnds
  LossOnlyWhenFull
  RxIsFifo
