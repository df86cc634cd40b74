SPECIFICATION ReadersSpec
CONSTANTS
  B = B
  C = C
  v1 = v1
  Log <- MCLog
  MaxBlock = 2
  Patience = {TRUE, FALSE}
  RescanFrom = {0, 2}
  MaxCalls = 2
  MaxFailures = 1
  MaxCrashes = 1
  MaxLies = 1
  Poster = {v1}
  Site <- MCSite
  MaxFailed = 2
  MaxCollected = 1
INVARIANTS NothingSkipped OperatorIsObeyed QueuesAreTrue
PROPERTIES EverySendIsSigned SettlementIsShown
