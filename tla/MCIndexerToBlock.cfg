CONSTANTS
  Configs <- RangeConfigs
  InitialDbs <- PrehistoryDbs
  Genesis = 1
  BatchSize = 2
  RetryMax = 1
  MaxHeight = 3
  MaxCrashes = 0
  Failing = {}
  NoBlock = NoBlock
SPECIFICATION Spec
INVARIANT ToBlockIsExclusive
CHECK_DEADLOCK FALSE
