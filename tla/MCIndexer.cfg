CONSTANTS
  Configs <- AllConfigs
  InitialDbs <- AllDbs
  Genesis = 1
  BatchSize = 2
  RetryMax = 1
  MaxHeight = 3
  MaxCrashes = 2
  Failing = {"readFile", "insertBlock", "getBlock", "removeFile", "removeFolder", "blockNumber"}
  NoBlock = NoBlock
SPECIFICATION LiveSpec
INVARIANTS TypeOK NoGap RemovedOnlyIndexed  FolderOutlivesItsBatch 
  
CHECK_DEADLOCK FALSE
