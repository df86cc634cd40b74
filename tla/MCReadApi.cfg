SPECIFICATION LiveSpec
CONSTANTS
    Callers = {c1, c2, c3}
    UPSTREAM_CONCURRENCY = 2
    CACHE_MAX_ENTRIES = 1
    Loads <- MCLoads
    Vms <- MCVms
    Figures = {6, 8}
    Tokens = {"usd", "eth"}
    MAX_RANGE = 2
    MAX_CHUNKS_PER_CALL = 1
    MaxBlocks = 3
    MaxFaults = 1
INVARIANTS OneCallPerKey SettledAnswersAreRight
PROPERTIES ListingConverges
CHECK_DEADLOCK FALSE
