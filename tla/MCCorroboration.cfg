SPECIFICATION LoopsSpec
CONSTANTS
  None = None
  N = 3
  Event <- MCEvent
  Scale <- MCScale
  SourceScale = 1
  Via <- MCVia
  require = TRUE
  Confirmations = 1
  HEAD_LAG_ROTATE = 1
  max_block_range = 2
  MaxBlock = 5
  MaxLag = 1
  MaxFaults = 1
  Timeout = 2
  FirstStep = 1
  SrcBlocks = 5
  DstBlocks = 3
INVARIANTS EvidenceIsTrue NothingPassedOver
PROPERTY OneCannotStall
CHECK_DEADLOCK FALSE
