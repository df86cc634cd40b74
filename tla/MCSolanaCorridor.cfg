SPECIFICATION LiveSpec
CONSTANTS
  Attester = {"a1", "a2"}
  Faulty = {"f"}
  threshold = 2
  Timeout = 2
  Gaps = {1}
  Window = 4
  block_confirmation = 1
  Rows <- MCRows
  REFUND_PAGE = 1
  MAX_REFUND_PAGES = 1
  MaxForks = 1
INVARIANT SettledOnlyIfDue
PROPERTIES DeliveredEarnsNothing Settles
