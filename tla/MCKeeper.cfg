SPECIFICATION QueuesSpec
CONSTANTS
  c1 = c1
  c2 = c2
  r1 = r1
  Claims = {c1, c2}
  Refunds = {r1}
  Backlog = {{}, {c1}, {c2}, {r1}}
  Routed = {r1}
  Unpayable = {c2}
  Price = {1, 3}
  FEE_BUMP_DIVISOR = 8
  MAX_FEE_BUMPS = 2
  MAX_FEE_MULTIPLE = 2
  MaxMoves = 2
  MaxFaults = 1
  Incoming = {"i1", "i2", "i3", "bad"}
  Outgoing = {"o1"}
  Traffic = {{"i1"}, {"i1", "i2", "bad"}, {"i1", "i3", "o1"}}
  Worth <- MCWorth
  Intent <- MCIntent
  Sizes = {1, 2}
  FALLBACK_GRACE = 1
  STABLE_RESCUE_DELAY = 1
  STABLE_RESCUE_WINDOW = 0
  MaxTime = 3
  MaxBlockages = 1
  Followed = "i1"
  Deployments <- MCDeployments
  MaxOutages = 1
INVARIANTS NoCompetingTxs
PROPERTIES HeadSparesTracked  RouterKeepsFaith DeliveriesReachTheUser
CHECK_DEADLOCK FALSE
