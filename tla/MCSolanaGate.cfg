SPECIFICATION Spec
CONSTANTS
  k1 = k1
  k2 = k2
  k3 = k3
  g1 = g1
  C = C
  D = D
  a = a
  b = b
  v = v
  w = w
  NoAccount = NoAccount
  Key = {k1, k2, k3}
  Account = {g1}
  Genesis <- MCGenesis
  MAX_THRESHOLD = 2
  MaxValidators = 2
  MaxCorridors = 1
  Self = Self
  Peer = {C, D}
  DebridgeId = {a, b}
  Vault = {v, w}
  Decimals <- MCDecimals
  Scale = {0, 1}
  Legacy <- MCLegacy
  Liquidity <- MCLiquidity
  LocalAmount = {10}
  Inbound <- MCInbound
  MaxU64 = 20
  Delay = 1
  Grace = 0
  SetupWindow = 0
  MaxTime = 3
  MaxNonce = 1
  MaxSchedules = 1
INVARIANTS VaultsAreSound ConfigStaysUsable
PROPERTIES SlotsAreFinal EveryPowerWasAnnounced
