SPECIFICATION PoolLiveSpec
CONSTANTS
  PRICE_ONE = 10
  BPS_DENOM = 10
  MAX_FEE_BPS = 1
  Unit <- MCUnit
  Prices = {10, 11, 12}
  Fees = {0, 1}
  Deviations = {1, 2}
  Intervals = {0, 1}
  Ages = {0, 1, 2}
  margin = 1
  Seeds <- MCSeeds
  Stakes <- MCStakes
  MaxAdmin = 1
  MaxFaults = 1
  MaxInFlight = 2
INVARIANTS NoSandwich
PROPERTIES SwapsLoseNothing PriceFollows 
