SPECIFICATION FairSpec
CONSTANTS
  Stamp <- MCStamp
  Transfers <- MCTransfers
  Beyond <- MCBeyond
  DayWidth = 50000
  MaxSets = 2
  MaxHours = 1
INVARIANTS
  ClockTypeOK
  Agreement
PROPERTIES
  SurvivesRestart
  BootGivesTime
  SettingEnds
