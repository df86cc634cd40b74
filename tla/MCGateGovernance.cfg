SPECIFICATION Spec
CONSTANTS
  v1 = v1
  v2 = v2
  o = o
  i1 = i1
  k1 = k1
  k2 = k2
  d1 = d1
  t1 = t1
  t2 = t2
  s1 = s1
  NoAccount = NoAccount
  Unset = Unset
  Validator = {v1, v2}
  Founders = {v1}
  Quorum0 = 1
  Account = {o}
  Deployer = o
  Asset = {d1}
  Token = {t1, t2}
  Scale = {s1}
  Impl = {i1}
  Code = {k1, k2}
  Data = {"none", "init"}
  Delay = 1
  Grace = 2
  SetupWindow = 2
  Vigilant = TRUE
  MaxTime = 5
  MaxSchedules = 2
INVARIANT ThresholdReachable
PROPERTIES EveryPowerWasAnnounced HostileOwnerIsContained
