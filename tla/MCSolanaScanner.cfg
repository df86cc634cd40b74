SPECIFICATION LiveSpec
CONSTANTS
  Tokens = {"a", "b", "m", "o"}
  Txs <- MCTxs
  Asset <- MCAsset
  Corridor <- MCCorridor
  Reader = {"a", "b", "m", "o"}
  Lists <- MCLists
  Configs <- MCConfigs
  ChainId = 7
  MaxBatch = 1
  MaxPages = 3
  MAX_QUARANTINED = 2
  MaxTxs = 3
  MaxFaults = 1
  MaxCrashes = 1
CHECK_DEADLOCK FALSE
INVARIANTS ScanIsFaithful
PROPERTY EverySendIsSigned
