CONSTANTS
  Config <- MCConfig
  Sources <- MCSources
  Suffix <- MCSuffix
  MaxWrites = 2
  MaxReloads = 2
  MaxFails = 1
  MaxSplits = 2
  MaxSplitFails = 1
SPECIFICATION SystemSpec
INVARIANTS AllOrNothing OneSelectorRuns ClosingIsSafe LazyCores SplitIsolates SplitKeepsCore
PROPERTY SettlesOnFile
CHECK_DEADLOCK FALSE
