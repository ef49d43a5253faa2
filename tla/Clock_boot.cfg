SPECIFICATION Spec
CONSTANTS
  Stamp <- MCBootStamp
  Transfers <- MCWhole
  Beyond <- MCBeyond
  DayWidth = 50000
  MaxSets = 1
  MaxHours = 0
PROPERTIES
  RewrittenOnlyWhenOld
